------------------------- MODULE SessionReadProofs -------------------------
(* What the read loop promises, for every number of frames, all ids and    *)
(* lengths, and every way in which the reads are cut.                      *)
EXTENDS SessionRead, SequenceTheorems, TLAPS

(* The frame that is being read, and where in it _data begins.             *)
Current == Len(posted) + 1
Place == IF phase = "head" THEN 0 ELSE HEAD_TOTAL_LEN

Cell(n, k)  == [frame |-> n, at |-> k]
FrameLen(n) == HEAD_TOTAL_LEN + DataLen(frames[n])

Offsets == [1..(MaxFrames + 1) -> Int]

(* off[n] bytes of the connection are in front of the n-th frame: none, or *)
(* less, for the frame that is being read.  From there on the frames lie   *)
(* on the connection one behind the other, up to its end.                  *)
Layout(off) ==
  /\ off[Current] = -(Place + Len(data))
  /\ off[Len(frames) + 1] = Len(stream)
  /\ \A n \in Current..Len(frames) : off[n + 1] = off[n] + FrameLen(n)
  /\ \A n \in Current..(Len(frames) + 1) : off[n] <= Len(stream)
  /\ \A n \in Current..Len(frames) : \A k \in 1..FrameLen(n) :
       off[n] + k >= 1 => stream[off[n] + k] = Cell(n, k)

(* What is being read, and how much of it there is.                        *)
HeadInv == phase = "head" => total = HEAD_TOTAL_LEN
BodyInv ==
  phase = "body" =>
    /\ Current <= Len(frames)
    /\ node = [id |-> ToShort(frames[Current].id), len |-> frames[Current].len]
    /\ total = node.len /\ total = DataLen(frames[Current])

(* _data holds the bytes of the frame from its place on.                   *)
DataInv ==
  /\ Len(data) <= total
  /\ \A k \in 1..Len(data) : data[k] = Cell(Current, Place + k)

FrameInv == HeadInv /\ BodyInv /\ DataInv /\ \E off \in Offsets : Layout(off)

(* The read of a frame whose header said -1 begins behind that header.     *)
OverrunInv ==
  /\ phase = "body" /\ Current <= Len(frames)
  /\ ToShort(frames[Current].len) = -1
  /\ ToShort(frames[Current].id) >= 1000

LoopInv == Reading => IF Endless THEN OverrunInv ELSE FrameInv

(* No more bytes than the frames have: too few for a read that is endless. *)
MaxBytes(n) == n * (HEAD_TOTAL_LEN + MAX_LENGTH)
BytesInv == Len(data) + Len(stream) <= MaxBytes(Len(frames))

(* The requests posted are the first frames.                               *)
PostedInv ==
  /\ Len(posted) <= Len(frames)
  /\ \A n \in 1..Len(posted) : posted[n] = n

IInv == TypeOK /\ LoopInv /\ PostedInv /\ BytesInv /\ StrandedOnlyByException

-----------------------------------------------------------------------------
(* Lengths and positions                                                   *)

(* A 16-bit number that is not negative as a short is itself.              *)
LEMMA ShortFacts ==
  ASSUME NEW u \in 0..(2^16 - 1)
  PROVE  /\ ToShort(u) \in -(2^15)..(2^15 - 1)
         /\ ToShort(u) >= 0 => ToShort(u) = u
  BY DEF ToShort

(* The data of a frame fits in _data.                                      *)
LEMMA FrameFacts ==
  ASSUME NEW f \in Frames
  PROVE  /\ DataLen(f) \in 0..MAX_LENGTH
         /\ ToShort(f.id) \in -(2^15)..(2^15 - 1)
         /\ ToShort(f.len) \in -(2^15)..(2^15 - 1)
         /\ ToShort(f.len) \in 0..MAX_LENGTH => /\ DataLen(f) = f.len
                                                /\ ToShort(f.len) = f.len
<1>1. f.id \in Ids /\ f.len \in Lens
  BY DEF Frames
<1>2. f.id \in 0..(2^16 - 1) /\ f.len \in 0..(2^16 - 1) /\ MAX_LENGTH \in 0..(2^15 - 1)
  BY <1>1, ReadAssumption DEF ReadAssumption
<1>3. f.len \in 0..(2^16 - 1) /\ MAX_LENGTH \in Nat
  BY <1>2
<1>4. /\ ToShort(f.id) \in -(2^15)..(2^15 - 1)
      /\ ToShort(f.len) \in -(2^15)..(2^15 - 1)
      /\ ToShort(f.len) >= 0 => ToShort(f.len) = f.len
  BY <1>2, <1>3, ShortFacts
<1> QED BY <1>2, <1>3, <1>4 DEF DataLen

(* The constants are small numbers.                                        *)
LEMMA Sizes ==
  /\ HEAD_TOTAL_LEN \in Nat \ {0} /\ MaxFrames \in Nat /\ MAX_LENGTH \in Nat
  /\ HEAD_TOTAL_LEN <= MAX_LENGTH
  /\ SIZE_MAX \in Nat /\ MAX_LENGTH < SIZE_MAX
<1>1. MAX_LENGTH \in 0..(2^15 - 1)
  BY ReadAssumption DEF ReadAssumption
<1>2. MAX_LENGTH \in Nat
  BY <1>1
<1> QED BY <1>2, ReadAssumption DEF ReadAssumption

(* The bytes of one frame more, and of all of them.                        *)
LEMMA MaxBytesFacts ==
  ASSUME NEW n \in Nat
  PROVE  /\ MaxBytes(n) \in Nat
         /\ MaxBytes(n + 1) = MaxBytes(n) + (HEAD_TOTAL_LEN + MAX_LENGTH)
         /\ n <= MaxFrames => MaxBytes(n) < SIZE_MAX
<1> DEFINE c == HEAD_TOTAL_LEN + MAX_LENGTH
<1>1. c \in Nat /\ MaxFrames \in Nat /\ SIZE_MAX \in Nat
  BY Sizes
<1>2. MaxBytes(n) = n * c /\ MaxBytes(n + 1) = (n + 1) * c /\ MaxFrames * c < SIZE_MAX
  BY ReadAssumption DEF ReadAssumption, MaxBytes
<1> HIDE DEF c
<1>3. n * c \in Nat /\ (n + 1) * c = n * c + c
  BY <1>1
<1>4. ASSUME n <= MaxFrames
      PROVE  n * c <= MaxFrames * c
  <2>1. /\ MaxFrames - n \in Nat /\ (MaxFrames - n) * c \in Nat
        /\ MaxFrames * c = n * c + (MaxFrames - n) * c
    BY <1>1, <1>4
  <2> QED BY <2>1, <1>3
<1>5. n <= MaxFrames => n * c < SIZE_MAX
  <2>1. MaxFrames * c \in Nat
    BY <1>1
  <2> QED BY <2>1, <1>1, <1>2, <1>3, <1>4
<1> QED BY <1>2, <1>3, <1>5 DEF c

(* The numbers an offset is made of.                                       *)
LEMMA Counts ==
  ASSUME TypeOK, PostedInv
  PROVE  /\ stream \in Seq(Cells) /\ data \in Seq(Cells)
         /\ Len(frames) \in Nat /\ Len(frames) <= MaxFrames
         /\ Len(posted) \in Nat /\ Len(data) \in Nat /\ Len(stream) \in Nat
         /\ Current \in 1..(Len(frames) + 1)
         /\ Current <= Len(frames) => Current \in 1..MaxFrames
         /\ Place \in {0, HEAD_TOTAL_LEN}
         /\ HEAD_TOTAL_LEN \in Nat \ {0} /\ MAX_LENGTH \in Nat /\ MaxFrames \in Nat
         /\ HEAD_TOTAL_LEN <= MAX_LENGTH
         /\ SIZE_MAX \in Nat /\ MAX_LENGTH < SIZE_MAX
         /\ total \in Nat /\ (~Endless => total \in 0..MAX_LENGTH)
<1>1. /\ frames \in Seq(Frames) /\ posted \in Seq(1..MaxFrames \cup {Garbled})
      /\ data \in Seq(Cells) /\ stream \in Seq(Cells)
      /\ Len(frames) <= MaxFrames /\ total \in 0..MAX_LENGTH \cup {SIZE_MAX}
  BY DEF TypeOK
<1>2. /\ Len(frames) \in Nat /\ Len(posted) \in Nat
      /\ Len(data) \in Nat /\ Len(stream) \in Nat
  BY <1>1
<1>3. Current \in 1..(Len(frames) + 1)
  BY <1>2 DEF Current, PostedInv
<1>4. total \in Nat /\ (~Endless => total \in 0..MAX_LENGTH)
  BY <1>1, Sizes DEF Endless
<1> QED BY <1>1, <1>2, <1>3, <1>4, Sizes DEF Place

(* A frame is its header and its data.                                     *)
LEMMA FrameLens ==
  ASSUME TypeOK, PostedInv, NEW n \in 1..Len(frames)
  PROVE  /\ frames[n] \in Frames
         /\ DataLen(frames[n]) \in 0..MAX_LENGTH
         /\ FrameLen(n) = HEAD_TOTAL_LEN + DataLen(frames[n])
         /\ FrameLen(n) \in Nat
<1>1. frames[n] \in Frames
  <2>1. frames \in Seq(Frames)
    BY DEF TypeOK
  <2> QED BY <2>1
<1>2. DataLen(frames[n]) \in 0..MAX_LENGTH
  BY <1>1, FrameFacts
<1> QED BY <1>1, <1>2, Sizes DEF FrameLen

(* What a read returns: the next bytes of the frame that is being read.    *)
LEMMA BytesRead ==
  ASSUME TypeOK, PostedInv, FrameInv, Reading, ~Endless, NEW k \in Nat, Returns(k)
  PROVE  /\ Got(k) \in Seq(Cells) /\ Len(Got(k)) = Len(data) + k
         /\ Len(Got(k)) <= total
         /\ Len(Got(k)) > 0 => Current <= Len(frames)
         /\ \A a \in 1..Len(Got(k)) : Got(k)[a] = Cell(Current, Place + a)
<1>1. HeadInv /\ BodyInv /\ DataInv
  BY DEF FrameInv
<1>2. PICK off \in Offsets : Layout(off)
  BY DEF FrameInv
<1>3. k <= Len(stream) /\ Len(data) + k <= total
  BY <1>1, Counts DEF Returns, DataInv
<1>nums. /\ Len(frames) \in Nat /\ Current \in 1..(Len(frames) + 1)
         /\ Len(data) \in Nat /\ Len(stream) \in Nat
         /\ HEAD_TOTAL_LEN \in Nat /\ Place \in {0, HEAD_TOTAL_LEN}
  BY Counts
<1> DEFINE new == SubSeq(stream, 1, k)
<1>4. /\ new \in Seq(Cells) /\ Len(new) = k
      /\ \A a \in 1..k : new[a] = stream[a]
  <2>1. k \in Int /\ \A a \in 1..k : stream[a] \in Cells
    BY <1>3, Counts
  <2> QED BY <2>1, SubSeqProperties
<1> HIDE DEF new
<1>5. /\ Got(k) \in Seq(Cells) /\ Len(Got(k)) = Len(data) + k
      /\ \A a \in 1..(Len(data) + k) :
           Got(k)[a] = IF a <= Len(data) THEN data[a] ELSE new[a - Len(data)]
  <2>1. Got(k) = data \o new
    BY DEF Got, new
  <2>2. data \in Seq(Cells)
    BY Counts
  <2>3. /\ data \o new \in Seq(Cells) /\ Len(data \o new) = Len(data) + Len(new)
        /\ \A a \in 1..(Len(data) + Len(new)) :
             (data \o new)[a] = IF a <= Len(data) THEN data[a] ELSE new[a - Len(data)]
    BY <2>2, <1>4, ConcatProperties
  <2> QED BY <2>1, <2>3, <1>4
<1>6. Len(data) + k > 0 => Current <= Len(frames)
  <2>1. off[Current] = -(Place + Len(data)) /\ off[Len(frames) + 1] = Len(stream)
    BY <1>2 DEF Layout
  <2>2. Current = Len(frames) + 1 => Len(stream) = -(Place + Len(data))
    BY <2>1
  <2>3. Current = Len(frames) + 1 => Len(data) + k <= 0
    BY <2>2, <1>3, <1>nums
  <2> QED BY <2>3, <1>nums
<1>7. \A a \in (Len(data) + 1)..(Len(data) + k) :
        new[a - Len(data)] = Cell(Current, Place + a)
  <2> TAKE a \in (Len(data) + 1)..(Len(data) + k)
  <2>1. Current \in 1..Len(frames)
    BY <1>6, <1>nums
  <2>2. Place + a \in 1..FrameLen(Current)
    <3>1. /\ FrameLen(Current) = HEAD_TOTAL_LEN + DataLen(frames[Current])
          /\ DataLen(frames[Current]) \in Nat
      BY <2>1, FrameLens, Counts
    <3>2. Place + total <= FrameLen(Current) /\ total \in Nat
      <4>1. CASE phase = "head"
        <5>1. Place = 0 /\ total = HEAD_TOTAL_LEN
          BY <4>1, <1>1 DEF HeadInv, Place
        <5> QED BY <5>1, <3>1, <1>nums
      <4>2. CASE phase = "body"
        <5>1. Place = HEAD_TOTAL_LEN /\ total = DataLen(frames[Current])
          BY <4>2, <1>1 DEF BodyInv, Place
        <5> QED BY <5>1, <3>1, <1>nums
      <4> QED BY <4>1, <4>2 DEF Reading, TypeOK
    <3>3. a \in Nat /\ 1 <= a /\ a <= Len(data) + k
      BY <1>nums
    <3>4. a <= total
      BY <3>2, <3>3, <1>3, <1>nums
    <3>5. Place \in Nat /\ FrameLen(Current) \in Nat
      BY <3>1, <1>nums
    <3> QED BY <3>2, <3>3, <3>4, <3>5
  <2>3. off[Current] = -(Place + Len(data))
    BY <1>2 DEF Layout
  <2>4. off[Current] + (Place + a) = a - Len(data)
    BY <2>3, <1>nums
  <2>5. stream[a - Len(data)] = Cell(Current, Place + a)
    <3>1. a - Len(data) >= 1 /\ Current \in Current..Len(frames)
      BY <2>1, <1>nums
    <3> QED BY <3>1, <2>2, <2>4, <1>2 DEF Layout
  <2>6. a - Len(data) \in 1..k
    BY <1>nums
  <2> QED BY <2>5, <2>6, <1>4
<1>8. \A a \in 1..Len(Got(k)) : Got(k)[a] = Cell(Current, Place + a)
  <2> TAKE a \in 1..Len(Got(k))
  <2>1. CASE a <= Len(data)
    <3>1. a \in 1..Len(data) /\ a \in 1..(Len(data) + k)
      BY <2>1, <1>5, <1>nums
    <3> QED BY <3>1, <2>1, <1>1, <1>5 DEF DataInv
  <2>2. CASE a > Len(data)
    <3>1. a \in (Len(data) + 1)..(Len(data) + k) /\ ~(a <= Len(data))
      BY <2>2, <1>5, <1>nums
    <3> QED BY <3>1, <1>5, <1>7
  <2> QED BY <2>1, <2>2, <1>5, <1>nums
<1> QED BY <1>3, <1>5, <1>6, <1>8

(* A read puts together what _data has and the next bytes; however many    *)
(* they are, they do not complete an endless read.                         *)
LEMMA NeverEnough ==
  ASSUME TypeOK, PostedInv, BytesInv, NEW k \in Nat, k <= Len(stream)
  PROVE  /\ Got(k) \in Seq(Cells) /\ Len(Got(k)) = Len(data) + k
         /\ Len(Got(k)) < SIZE_MAX
<1> DEFINE new == SubSeq(stream, 1, k)
<1>1. new \in Seq(Cells) /\ Len(new) = k
  <2>1. k \in Int /\ \A a \in 1..k : stream[a] \in Cells
    BY Counts
  <2> QED BY <2>1, SubSeqProperties
<1> HIDE DEF new
<1>2. data \in Seq(Cells)
  BY Counts
<1>3. data \o new \in Seq(Cells) /\ Len(data \o new) = Len(data) + Len(new)
  BY <1>1, <1>2, ConcatProperties
<1>4. Got(k) = data \o new
  BY DEF Got, new
<1>5. /\ Len(frames) \in Nat /\ Len(frames) <= MaxFrames
      /\ Len(data) \in Nat /\ Len(stream) \in Nat /\ SIZE_MAX \in Nat
  BY Counts
<1>6. MaxBytes(Len(frames)) \in Nat /\ MaxBytes(Len(frames)) < SIZE_MAX
  BY <1>5, MaxBytesFacts
<1>7. Len(data) + k < SIZE_MAX
  BY <1>5, <1>6 DEF BytesInv
<1> QED BY <1>1, <1>3, <1>4, <1>7

(* What is left on the connection after a read.                            *)
LEMMA RestFacts ==
  ASSUME TypeOK, PostedInv, NEW k \in Nat, k <= Len(stream), Taken(k)
  PROVE  /\ stream' \in Seq(Cells) /\ Len(stream') = Len(stream) - k
         /\ \A i \in 1..Len(stream') : stream'[i] = stream[k + i]
<1>1. \A i \in (k + 1)..Len(stream) : stream[i] \in Cells
  BY Counts
<1>2. /\ stream' = SubSeq(stream, k + 1, Len(stream)) /\ k + 1 \in Int
      /\ Len(stream) \in Nat
  BY Counts DEF Taken
<1>3. /\ stream' \in Seq(Cells)
      /\ Len(stream') = IF k + 1 <= Len(stream) THEN Len(stream) - (k + 1) + 1 ELSE 0
      /\ \A i \in 1..(Len(stream) - (k + 1) + 1) : stream'[i] = stream[(k + 1) + i - 1]
  BY <1>1, <1>2, SubSeqProperties
<1>4. Len(stream') = Len(stream) - k
  BY <1>2, <1>3
<1>5. ASSUME NEW i \in 1..Len(stream')
      PROVE  stream'[i] = stream[k + i]
  <2>1. i \in 1..(Len(stream) - (k + 1) + 1) /\ (k + 1) + i - 1 = k + i
    BY <1>2, <1>4
  <2> QED BY <2>1, <1>3
<1> QED BY <1>3, <1>4, <1>5

(* Bytes that are read come from the connection.                           *)
LEMMA BytesTaken ==
  ASSUME TypeOK, PostedInv, BytesInv, NEW k \in Nat, k <= Len(stream), Taken(k),
         frames' = frames, Len(data') \in 0..(Len(data) + k)
  PROVE  BytesInv'
<1>1. Len(stream') = Len(stream) - k
  BY RestFacts
<1>2. /\ Len(data) \in Nat /\ Len(stream) \in Nat /\ Len(frames) \in Nat
  BY Counts
<1>3. MaxBytes(Len(frames)) \in Nat
  BY <1>2, MaxBytesFacts
<1>4. Len(data') + Len(stream') <= Len(data) + Len(stream)
  BY <1>1, <1>2
<1>5. MaxBytes(Len(frames))' = MaxBytes(Len(frames))
  BY DEF MaxBytes
<1> QED BY <1>1, <1>2, <1>3, <1>4, <1>5 DEF BytesInv

(* A read moves every frame towards the front by what it took, whether it  *)
(* goes on with the same frame or with the next one.                       *)
LEMMA LayoutMoves ==
  ASSUME TypeOK, PostedInv, NEW off \in Offsets, Layout(off),
         NEW k \in Nat, k <= Len(stream), Taken(k), frames' = frames,
         Current' \in Current..(Len(frames) + 1),
         off[Current'] - k = -(Place' + Len(data'))
  PROVE  \E o \in Offsets : Layout(o)'
<1>nums. /\ Len(frames) \in Nat /\ Len(frames) <= MaxFrames /\ MaxFrames \in Nat
         /\ Current \in 1..(Len(frames) + 1) /\ Len(stream) \in Nat
  BY Counts
<1> DEFINE o == [n \in 1..(MaxFrames + 1) |-> off[n] - k]
<1>1. o \in Offsets
  BY DEF Offsets
<1>2. \A n \in 1..(MaxFrames + 1) : o[n] = off[n] - k /\ off[n] \in Int
  BY DEF Offsets
<1> HIDE DEF o
<1>3. Len(stream') = Len(stream) - k
  BY RestFacts
<1>4. \A n \in 1..Len(frames) : FrameLen(n)' = FrameLen(n) /\ FrameLen(n) \in Nat
  BY FrameLens DEF FrameLen
<1>5. o[Current'] = -(Place' + Len(data'))
  <2>1. Current' \in 1..(MaxFrames + 1)
    BY <1>nums
  <2> QED BY <2>1, <1>2
<1>6. o[Len(frames') + 1] = Len(stream')
  <2>1. off[Len(frames) + 1] = Len(stream)
    BY DEF Layout
  <2>2. Len(frames) + 1 \in 1..(MaxFrames + 1)
    BY <1>nums
  <2>3. o[Len(frames) + 1] = off[Len(frames) + 1] - k
    BY <2>2, <1>2
  <2> QED BY <2>1, <2>3, <1>3
<1>7. \A n \in Current'..Len(frames') : o[n + 1] = o[n] + FrameLen(n)'
  <2> TAKE n \in Current'..Len(frames')
  <2>1. /\ n \in Current..Len(frames) /\ n \in 1..(MaxFrames + 1)
        /\ n + 1 \in 1..(MaxFrames + 1) /\ n \in 1..Len(frames)
    BY <1>nums
  <2>2. off[n + 1] = off[n] + FrameLen(n)
    BY <2>1 DEF Layout
  <2>3. o[n] = off[n] - k /\ o[n + 1] = off[n + 1] - k /\ off[n] \in Int
    BY <2>1, <1>2
  <2>4. FrameLen(n)' = FrameLen(n) /\ FrameLen(n) \in Nat
    BY <2>1, <1>4
  <2> QED BY <2>2, <2>3, <2>4
<1>8. \A n \in Current'..(Len(frames') + 1) : o[n] <= Len(stream')
  <2> TAKE n \in Current'..(Len(frames') + 1)
  <2>1. n \in Current..(Len(frames) + 1) /\ n \in 1..(MaxFrames + 1)
    BY <1>nums
  <2>2. off[n] <= Len(stream)
    BY <2>1 DEF Layout
  <2>3. off[n] \in Int /\ o[n] = off[n] - k /\ Len(stream) \in Nat
    BY <2>1, <1>2, <1>nums
  <2> QED BY <2>2, <2>3, <1>3
<1>9. \A n \in Current'..Len(frames') : \A i \in 1..FrameLen(n)' :
        o[n] + i >= 1 => stream'[o[n] + i] = Cell(n, i)
  <2> TAKE n \in Current'..Len(frames')
  <2> TAKE i \in 1..FrameLen(n)'
  <2> HAVE o[n] + i >= 1
  <2>1. /\ n \in Current..Len(frames) /\ n + 1 \in Current..(Len(frames) + 1)
        /\ n \in 1..(MaxFrames + 1) /\ n \in 1..Len(frames)
    BY <1>nums
  <2>0. off[n] \in Int /\ o[n] = off[n] - k
    BY <2>1, <1>2
  <2>2. i \in 1..FrameLen(n) /\ off[n] + i >= 1 /\ k + (o[n] + i) = off[n] + i
    <3>1. FrameLen(n)' = FrameLen(n) /\ FrameLen(n) \in Nat
      BY <2>1, <1>4
    <3>2. i \in 1..FrameLen(n) /\ i \in Nat
      BY <3>1
    <3> QED BY <3>2, <2>0
  <2>3. stream[off[n] + i] = Cell(n, i)
    BY <2>1, <2>2 DEF Layout
  <2>4. off[n + 1] = off[n] + FrameLen(n) /\ off[n + 1] <= Len(stream)
    BY <2>1 DEF Layout
  <2>5. o[n] + i \in 1..Len(stream')
    <3>1. Len(stream) \in Nat /\ FrameLen(n) \in Nat
      BY <2>1, <1>4, <1>nums
    <3>2. i \in Nat /\ i <= FrameLen(n)
      BY <2>2, <3>1
    <3> DEFINE x == off[n]  y == FrameLen(n)  z == off[n + 1]  w == Len(stream)
    <3> HIDE DEF x, y, z, w
    <3>3. x + i <= w
      <4>1. /\ x \in Int /\ y \in Nat /\ w \in Nat /\ i <= y
            /\ z = x + y /\ z <= w
        BY <2>0, <2>4, <3>1, <3>2 DEF x, y, z, w
      <4> QED BY <4>1, <3>2
    <3>4. o[n] + i <= w - k /\ o[n] + i \in Int
      <4>1. o[n] = x - k /\ x \in Int /\ w \in Nat
        BY <2>0, <3>1 DEF x, w
      <4> QED BY <4>1, <3>2, <3>3
    <3> QED BY <3>4, <1>3 DEF w
  <2>6. stream'[o[n] + i] = stream[k + (o[n] + i)]
    BY <2>5, RestFacts
  <2> QED BY <2>2, <2>3, <2>6
<1>10. Layout(o)'
  BY <1>5, <1>6, <1>7, <1>8, <1>9 DEF Layout
<1> QED BY <1>1, <1>10

(* The bytes of a frame, one cell each.                                    *)
LEMMA Pieces ==
  ASSUME NEW n \in 1..MaxFrames, NEW f \in Frames
  PROVE  /\ Header(n) \in Seq(Cells) /\ Len(Header(n)) = HEAD_TOTAL_LEN
         /\ \A i \in 1..HEAD_TOTAL_LEN : Header(n)[i] = Cell(n, i)
         /\ Body(n, f) \in Seq(Cells) /\ Len(Body(n, f)) = DataLen(f)
         /\ \A i \in 1..DataLen(f) : Body(n, f)[i] = Cell(n, HEAD_TOTAL_LEN + i)
<1>1. DataLen(f) \in Nat
  <2>1. DataLen(f) \in 0..MAX_LENGTH
    BY FrameFacts
  <2> QED BY <2>1, Sizes
<1>2. \A i \in Nat \ {0} : Cell(n, i) \in Cells
  BY DEF Cell, Cells
<1>3. /\ Header(n) = [i \in 1..HEAD_TOTAL_LEN |-> Cell(n, i)]
      /\ Body(n, f) = [i \in 1..DataLen(f) |-> Cell(n, HEAD_TOTAL_LEN + i)]
  BY DEF Header, Body, Cell
<1>4. \A i \in 1..HEAD_TOTAL_LEN : Cell(n, i) \in Cells
  BY <1>2, Sizes
<1>5. \A i \in 1..DataLen(f) : Cell(n, HEAD_TOTAL_LEN + i) \in Cells
  BY <1>1, <1>2, Sizes
<1> QED BY <1>1, <1>3, <1>4, <1>5, Sizes

(* A frame that the client sends goes behind the others, whole.            *)
LEMMA StreamGrows ==
  ASSUME TypeOK, PostedInv, NEW f \in Frames, ClientSends(f)
  PROVE  /\ stream' \in Seq(Cells)
         /\ Len(stream') = Len(stream) + (HEAD_TOTAL_LEN + DataLen(f))
         /\ \A i \in 1..Len(stream) : stream'[i] = stream[i]
         /\ \A i \in 1..(HEAD_TOTAL_LEN + DataLen(f)) :
              stream'[Len(stream) + i] = Cell(Len(frames) + 1, i)
<1> DEFINE n == Len(frames) + 1
           h == Header(n)
           b == Body(n, f)
<1>1. n \in 1..MaxFrames
  BY Counts DEF ClientSends
<1>2. /\ h \in Seq(Cells) /\ Len(h) = HEAD_TOTAL_LEN
      /\ \A i \in 1..HEAD_TOTAL_LEN : h[i] = Cell(n, i)
      /\ b \in Seq(Cells) /\ Len(b) = DataLen(f)
      /\ \A i \in 1..DataLen(f) : b[i] = Cell(n, HEAD_TOTAL_LEN + i)
  BY <1>1, Pieces
<1>3. stream' = (stream \o h) \o b
  BY DEF ClientSends
<1> HIDE DEF h, b
<1>4. stream \in Seq(Cells) /\ Len(stream) \in Nat /\ Len(h) \in Nat /\ Len(b) \in Nat
  BY <1>2, Counts
<1> DEFINE sh == stream \o h
<1>5. /\ sh \in Seq(Cells) /\ Len(sh) = Len(stream) + Len(h)
      /\ \A i \in 1..(Len(stream) + Len(h)) :
           sh[i] = IF i <= Len(stream) THEN stream[i] ELSE h[i - Len(stream)]
  BY <1>2, <1>4, ConcatProperties
<1> HIDE DEF sh
<1>6. /\ stream' \in Seq(Cells) /\ Len(stream') = Len(sh) + Len(b)
      /\ \A i \in 1..(Len(sh) + Len(b)) :
           stream'[i] = IF i <= Len(sh) THEN sh[i] ELSE b[i - Len(sh)]
  <2>1. stream' = sh \o b
    BY <1>3 DEF sh
  <2>2. /\ sh \o b \in Seq(Cells) /\ Len(sh \o b) = Len(sh) + Len(b)
        /\ \A i \in 1..(Len(sh) + Len(b)) :
             (sh \o b)[i] = IF i <= Len(sh) THEN sh[i] ELSE b[i - Len(sh)]
    BY <1>2, <1>5, ConcatProperties
  <2> QED BY <2>1, <2>2
<1>7. Len(stream') = Len(stream) + (HEAD_TOTAL_LEN + DataLen(f))
  BY <1>2, <1>4, <1>5, <1>6
<1>8. \A i \in 1..Len(stream) : stream'[i] = stream[i]
  <2> TAKE i \in 1..Len(stream)
  <2>1. i \in 1..Len(sh) /\ i \in 1..(Len(sh) + Len(b)) /\ i \in 1..(Len(stream) + Len(h))
        /\ i <= Len(sh) /\ i <= Len(stream)
    BY <1>4, <1>5
  <2> QED BY <2>1, <1>5, <1>6
<1>9. \A i \in 1..(HEAD_TOTAL_LEN + DataLen(f)) : stream'[Len(stream) + i] = Cell(n, i)
  <2> TAKE i \in 1..(HEAD_TOTAL_LEN + DataLen(f))
  <2> DEFINE p == Len(stream) + i
  <2>1. i \in 1..(Len(h) + Len(b))
    BY <1>2
  <2>2. CASE i <= Len(h)
    <3>1. /\ p \in 1..(Len(sh) + Len(b)) /\ p <= Len(sh) /\ p \in 1..(Len(stream) + Len(h))
          /\ ~(p <= Len(stream)) /\ p - Len(stream) = i /\ i \in 1..HEAD_TOTAL_LEN
      BY <2>1, <2>2, <1>2, <1>4, <1>5
    <3>2. stream'[p] = sh[p]
      BY <3>1, <1>6
    <3>3. sh[p] = h[i]
      BY <3>1, <1>5
    <3> QED BY <3>1, <3>2, <3>3, <1>2
  <2>3. CASE i > Len(h)
    <3> DEFINE q == i - Len(h)
    <3>1. /\ p \in 1..(Len(sh) + Len(b)) /\ ~(p <= Len(sh)) /\ p - Len(sh) = q
          /\ q \in 1..DataLen(f) /\ HEAD_TOTAL_LEN + q = i
      BY <2>1, <2>3, <1>2, <1>4, <1>5, Sizes
    <3>2. stream'[p] = b[q]
      BY <3>1, <1>6
    <3>3. b[q] = Cell(n, HEAD_TOTAL_LEN + q)
      BY <3>1, <1>2
    <3> QED BY <3>1, <3>2, <3>3
  <2> QED BY <2>1, <2>2, <2>3, <1>4
<1> QED BY <1>6, <1>7, <1>8, <1>9

(* The frames on the connection stay where they are.                       *)
LEMMA LayoutGrows ==
  ASSUME TypeOK, PostedInv, NEW off \in Offsets, Layout(off),
         NEW f \in Frames, ClientSends(f)
  PROVE  \E o \in Offsets : Layout(o)'
<1> DEFINE last == Len(frames) + 1
<1>1. /\ last \in 1..MaxFrames /\ last \in Nat /\ Current \in 1..last
      /\ Len(stream) \in Nat /\ Len(frames) \in Nat
  BY Counts DEF ClientSends
<1>2. HEAD_TOTAL_LEN + DataLen(f) \in Nat
  <2>1. DataLen(f) \in 0..MAX_LENGTH
    BY FrameFacts
  <2> QED BY <2>1, Sizes
<1>3. /\ Len(stream') = Len(stream) + (HEAD_TOTAL_LEN + DataLen(f))
      /\ Len(stream') \in Nat
  BY <1>1, <1>2, StreamGrows
<1>4. PICK o \in Offsets : o = [off EXCEPT ![last + 1] = Len(stream')]
  <2>1. [off EXCEPT ![last + 1] = Len(stream')] \in Offsets
    <3>1. off \in [1..(MaxFrames + 1) -> Int] /\ Len(stream') \in Int
      BY <1>3 DEF Offsets
    <3>2. [off EXCEPT ![last + 1] = Len(stream')] \in [1..(MaxFrames + 1) -> Int]
      BY <3>1
    <3> QED BY <3>2 DEF Offsets
  <2> QED BY <2>1
<1>5. /\ o[last + 1] = Len(stream')
      /\ \A n \in 1..last : o[n] = off[n] /\ off[n] \in Int
  BY <1>1, <1>4, Sizes DEF Offsets
<1>6. /\ Len(frames') = last /\ frames'[last] = f
      /\ \A n \in 1..Len(frames) : frames'[n] = frames[n]
  <2>1. frames \in Seq(Frames) /\ frames' = Append(frames, f)
    BY DEF TypeOK, ClientSends
  <2> QED BY <2>1, AppendProperties
<1>7. Current' = Current /\ Place' = Place /\ data' = data
  BY DEF ClientSends, Current, Place, readVars
<1>8. /\ \A n \in 1..last : FrameLen(n)' = HEAD_TOTAL_LEN + DataLen(frames'[n])
      /\ \A n \in 1..Len(frames) : FrameLen(n)' = FrameLen(n)
  BY <1>6 DEF FrameLen
<1>9. /\ off[Current] = -(Place + Len(data)) /\ off[last] = Len(stream)
      /\ \A n \in Current..Len(frames) : off[n + 1] = off[n] + FrameLen(n)
      /\ \A n \in Current..last : off[n] <= Len(stream)
      /\ \A n \in Current..Len(frames) : \A i \in 1..FrameLen(n) :
           off[n] + i >= 1 => stream[off[n] + i] = Cell(n, i)
  BY DEF Layout
<1>10. o[Current'] = -(Place' + Len(data')) /\ o[Len(frames') + 1] = Len(stream')
  BY <1>1, <1>5, <1>6, <1>7, <1>9
<1>11. \A n \in Current'..Len(frames') : o[n + 1] = o[n] + FrameLen(n)'
  <2> TAKE n \in Current'..Len(frames')
  <2>1. n \in Current..last
    BY <1>6, <1>7
  <2>2. CASE n = last
    <3>1. FrameLen(n)' = HEAD_TOTAL_LEN + DataLen(f) /\ o[n] = Len(stream)
      BY <2>2, <1>1, <1>5, <1>6, <1>8, <1>9
    <3> QED BY <3>1, <2>2, <1>1, <1>3, <1>5
  <2>3. CASE n \in Current..Len(frames)
    <3>1. n \in 1..last /\ n + 1 \in 1..last /\ n \in 1..Len(frames)
      BY <2>3, <1>1
    <3>2. off[n + 1] = off[n] + FrameLen(n)
      BY <2>3, <1>9
    <3> QED BY <3>1, <3>2, <1>5, <1>8
  <2> QED BY <2>1, <2>2, <2>3, <1>1
<1>12. \A n \in Current'..(Len(frames') + 1) : o[n] <= Len(stream')
  <2> TAKE n \in Current'..(Len(frames') + 1)
  <2>1. n \in Current..(last + 1)
    BY <1>6, <1>7
  <2>2. CASE n = last + 1
    BY <2>2, <1>3, <1>5
  <2>3. CASE n \in Current..last
    <3>1. n \in 1..last /\ off[n] <= Len(stream)
      BY <2>3, <1>1, <1>9
    <3>2. o[n] = off[n] /\ off[n] \in Int
      BY <3>1, <1>5
    <3> QED BY <3>1, <3>2, <1>1, <1>2, <1>3
  <2> QED BY <2>1, <2>2, <2>3, <1>1
<1>13. \A n \in Current'..Len(frames') : \A i \in 1..FrameLen(n)' :
         o[n] + i >= 1 => stream'[o[n] + i] = Cell(n, i)
  <2> TAKE n \in Current'..Len(frames')
  <2> TAKE i \in 1..FrameLen(n)'
  <2> HAVE o[n] + i >= 1
  <2>1. n \in Current..last
    BY <1>6, <1>7
  <2>2. CASE n = last
    <3>1. o[n] = Len(stream) /\ i \in 1..(HEAD_TOTAL_LEN + DataLen(f))
      BY <2>2, <1>1, <1>5, <1>6, <1>8, <1>9
    <3> QED BY <3>1, <2>2, StreamGrows
  <2>3. CASE n \in Current..Len(frames)
    <3>1. n \in 1..last /\ n \in 1..Len(frames) /\ n + 1 \in Current..last
      BY <2>3, <1>1
    <3>2. o[n] = off[n] /\ off[n] \in Int /\ FrameLen(n)' = FrameLen(n)
          /\ FrameLen(n) \in Nat
      BY <3>1, <1>5, <1>8, FrameLens
    <3>3. off[n] + FrameLen(n) <= Len(stream)
      BY <2>3, <3>1, <1>9
    <3>4. stream[off[n] + i] = Cell(n, i)
      BY <2>3, <3>2, <1>9
    <3>5. i \in 1..FrameLen(n) /\ off[n] + i >= 1
      BY <3>2
    <3>6. off[n] + i \in 1..Len(stream)
      BY <3>2, <3>3, <3>5, <1>1
    <3> QED BY <3>2, <3>4, <3>6, StreamGrows
  <2> QED BY <2>1, <2>2, <2>3, <1>1
<1>14. Layout(o)'
  BY <1>10, <1>11, <1>12, <1>13 DEF Layout
<1> QED BY <1>4, <1>14

-----------------------------------------------------------------------------
(* The steps                                                               *)

(* At the start there is nothing to read.                                  *)
LEMMA InitIInv == Init => IInv
<1> SUFFICES ASSUME Init PROVE IInv
  OBVIOUS
<1>1. TypeOK
  <2>1. /\ <<>> \in Seq(Frames) /\ <<>> \in Seq(Cells)
        /\ <<>> \in Seq(1..MaxFrames \cup {Garbled}) /\ Len(<<>>) = 0
    OBVIOUS
  <2>2. node \in [id : -(2^15)..(2^15 - 1), len : -1..MAX_LENGTH]
    <3>1. node = [id |-> 0, len |-> 0]
      BY DEF Init
    <3>2. 0 \in -(2^15)..(2^15 - 1) /\ 0 \in -1..MAX_LENGTH
      BY Sizes
    <3> QED BY <3>1, <3>2
  <2>3. phase \in {"head", "body", "ended"} /\ total \in 0..MAX_LENGTH \cup {SIZE_MAX}
    BY Sizes DEF Init
  <2>4. /\ peerUp \in BOOLEAN /\ crashed \in BOOLEAN
        /\ bClose \in BOOLEAN /\ registered \in BOOLEAN
    BY DEF Init
  <2>5. /\ frames = <<>> /\ stream = <<>> /\ data = <<>> /\ posted = <<>>
        /\ Len(<<>>) <= MaxFrames
    BY <2>1, Sizes DEF Init
  <2> QED BY <2>1, <2>2, <2>3, <2>4, <2>5 DEF TypeOK
<1>2. PostedInv /\ StrandedOnlyByException /\ BytesInv /\ ~Endless
  <2>1. posted = <<>> /\ frames = <<>> /\ phase = "head"
    BY DEF Init
  <2>2. Len(data) = 0 /\ Len(stream) = 0 /\ Len(frames) = 0
    BY DEF Init
  <2>3. MaxBytes(0) \in Nat
    BY MaxBytesFacts
  <2>4. total = HEAD_TOTAL_LEN /\ HEAD_TOTAL_LEN < SIZE_MAX
    BY Sizes DEF Init
  <2>5. MaxBytes(Len(frames)) = MaxBytes(0) /\ MaxBytes(0) >= 0
    BY <2>2, <2>3
  <2>6. BytesInv
    BY <2>2, <2>5 DEF BytesInv
  <2>7. ~Endless
    BY <2>4, Sizes DEF Endless
  <2> QED BY <2>1, <2>6, <2>7 DEF PostedInv, StrandedOnlyByException
<1>3. HeadInv /\ BodyInv /\ DataInv
  BY Sizes DEF Init, HeadInv, BodyInv, DataInv
<1>4. \E off \in Offsets : Layout(off)
  <2> DEFINE o == [n \in 1..(MaxFrames + 1) |-> 0]
  <2>1. o \in Offsets /\ o[1] = 0
    BY Sizes DEF Offsets
  <2>2. /\ Len(frames) = 0 /\ Len(stream) = 0 /\ Len(data) = 0
        /\ Current = 1 /\ Place = 0
    BY DEF Init, Current, Place
  <2> HIDE DEF o
  <2>3. Layout(o)
    BY <2>1, <2>2 DEF Layout
  <2> QED BY <2>1, <2>3
<1> QED BY <1>1, <1>2, <1>3, <1>4 DEF IInv, LoopInv, FrameInv

(* The client sends a frame.                                               *)
LEMMA ClientIInv ==
  ASSUME IInv, NEW f \in Frames, ClientSends(f)
  PROVE  IInv'
<1>1. TypeOK /\ LoopInv /\ PostedInv /\ BytesInv /\ StrandedOnlyByException
  BY DEF IInv
<1>2. /\ UNCHANGED <<peerUp, phase, data, total, node, posted, bClose, registered, crashed>>
      /\ frames' = Append(frames, f) /\ Len(frames) < MaxFrames
  BY DEF ClientSends, readVars, closeVars
<1>3. /\ frames' \in Seq(Frames) /\ Len(frames') = Len(frames) + 1
      /\ \A n \in 1..Len(frames) : frames'[n] = frames[n]
  <2>1. frames \in Seq(Frames)
    BY <1>1 DEF TypeOK
  <2> QED BY <2>1, <1>2, AppendProperties
<1>4. /\ Len(frames) \in Nat /\ Current \in 1..(Len(frames) + 1)
      /\ Len(posted) \in Nat
  BY <1>1, Counts
<1>5. Current' = Current /\ Place' = Place /\ Reading' = Reading
  BY <1>2 DEF Current, Place, Reading
<1>6. TypeOK'
  <2>1. Len(frames') <= MaxFrames
    BY <1>2, <1>3, <1>4, Sizes
  <2>2. stream' \in Seq(Cells)
    BY <1>1, StreamGrows
  <2> QED BY <2>1, <2>2, <1>1, <1>2, <1>3 DEF TypeOK
<1>7. PostedInv'
  <2>1. Len(posted') = Len(posted) /\ Len(posted) <= Len(frames')
    BY <1>1, <1>2, <1>3, <1>4 DEF PostedInv
  <2> QED BY <2>1, <1>1, <1>2 DEF PostedInv
<1>8. LoopInv'
  <2>1. CASE Reading /\ Endless
    <3>1. OverrunInv
      BY <2>1, <1>1 DEF LoopInv
    <3>2. Current \in 1..Len(frames) /\ Current <= Len(frames')
      BY <3>1, <1>3, <1>4 DEF OverrunInv
    <3>3. frames'[Current] = frames[Current]
      BY <3>2, <1>3
    <3>4. OverrunInv'
      BY <3>1, <3>2, <3>3, <1>2, <1>5 DEF OverrunInv
    <3> QED BY <2>1, <3>4, <1>2, <1>5 DEF LoopInv, Endless
  <2>2. CASE Reading /\ ~Endless
    <3>1. HeadInv /\ BodyInv /\ DataInv
      BY <2>2, <1>1 DEF LoopInv, FrameInv
    <3>2. HeadInv' /\ DataInv'
      BY <3>1, <1>2, <1>5 DEF HeadInv, DataInv
    <3>3. BodyInv'
      <4> SUFFICES ASSUME phase = "body"
                   PROVE  /\ Current <= Len(frames')
                          /\ frames'[Current] = frames[Current]
        BY <3>1, <1>2, <1>5 DEF BodyInv
      <4>1. Current <= Len(frames)
        BY <3>1 DEF BodyInv
      <4> QED BY <4>1, <1>3, <1>4
    <3>4. PICK off \in Offsets : Layout(off)
      BY <2>2, <1>1 DEF LoopInv, FrameInv
    <3>5. \E o \in Offsets : Layout(o)'
      BY <3>4, <1>1, LayoutGrows
    <3> QED BY <2>2, <3>2, <3>3, <3>5, <1>2, <1>5 DEF LoopInv, FrameInv, Endless
  <2> QED BY <2>1, <2>2, <1>5 DEF LoopInv
<1>9. StrandedOnlyByException'
  <2> SUFFICES ASSUME Len(posted) < Len(frames)
               PROVE  /\ Len(posted') < Len(frames')
                      /\ frames'[Len(posted') + 1] = frames[Len(posted) + 1]
    BY <1>1, <1>2 DEF StrandedOnlyByException
  <2> QED BY <1>2, <1>3, <1>4
<1>10. BytesInv'
  <2>1. /\ Len(stream') = Len(stream) + (HEAD_TOTAL_LEN + DataLen(f))
        /\ DataLen(f) \in 0..MAX_LENGTH
    BY <1>1, StreamGrows, FrameFacts
  <2>2. /\ MaxBytes(Len(frames)) \in Nat
        /\ MaxBytes(Len(frames) + 1)
             = MaxBytes(Len(frames)) + (HEAD_TOTAL_LEN + MAX_LENGTH)
    BY <1>4, MaxBytesFacts
  <2>3. MaxBytes(Len(frames))' = MaxBytes(Len(frames) + 1)
    BY <1>3 DEF MaxBytes
  <2>4. /\ Len(data) + Len(stream) <= MaxBytes(Len(frames)) /\ data' = data
        /\ Len(data) \in Nat /\ Len(stream) \in Nat
    BY <1>1, <1>2, Counts DEF BytesInv
  <2>5. Len(data') + Len(stream') <= MaxBytes(Len(frames) + 1)
    <3>1. DataLen(f) \in Nat /\ DataLen(f) <= MAX_LENGTH
      BY <2>1, Sizes
    <3>2. Len(stream') <= Len(stream) + (HEAD_TOTAL_LEN + MAX_LENGTH)
      BY <3>1, <2>1, <2>4, Sizes
    <3>3. Len(data') = Len(data) /\ Len(stream') \in Nat
      BY <3>1, <2>1, <2>4, Sizes
    <3> QED BY <3>2, <3>3, <2>2, <2>4, Sizes
  <2> QED BY <2>3, <2>5 DEF BytesInv
<1> QED BY <1>6, <1>7, <1>8, <1>9, <1>10 DEF IInv

(* The connection goes down.                                               *)
LEMMA PeerDownIInv ==
  ASSUME IInv, PeerDown
  PROVE  IInv'
<1>1. TypeOK /\ LoopInv /\ PostedInv /\ BytesInv /\ StrandedOnlyByException
  BY DEF IInv
<1>2. /\ UNCHANGED <<frames, stream, phase, data, total, node, posted, bClose,
                     registered, crashed>>
      /\ peerUp' = FALSE
  BY DEF PeerDown, readVars, closeVars
<1>3. TypeOK' /\ PostedInv' /\ BytesInv'
  BY <1>1, <1>2 DEF TypeOK, PostedInv, BytesInv, MaxBytes
<1>4. LoopInv'
  BY <1>1, <1>2
  DEF LoopInv, Reading, Endless, OverrunInv, FrameInv, HeadInv, BodyInv, DataInv, Layout, Current, Place, FrameLen
<1>5. StrandedOnlyByException'
  BY <1>2 DEF StrandedOnlyByException
<1> QED BY <1>3, <1>4, <1>5 DEF IInv

(* The read loop ends with an error: the connection is down, or the frame  *)
(* said -1.                                                                *)
LEMMA ReadErrorIInv ==
  ASSUME IInv, ReadFails \/ ReadRefused
  PROVE  IInv'
<1>1. TypeOK /\ LoopInv /\ PostedInv /\ BytesInv /\ StrandedOnlyByException
  BY DEF IInv
<1>2. /\ UNCHANGED <<frames, stream, peerUp, data, total, node, posted, crashed>>
      /\ Reading /\ phase' = "ended"
      /\ bClose' \in BOOLEAN /\ registered' \in BOOLEAN
  BY <1>1 DEF ReadFails, ReadRefused, ReadError, closeVars, TypeOK
<1>3. TypeOK' /\ PostedInv' /\ BytesInv'
  BY <1>1, <1>2 DEF TypeOK, PostedInv, BytesInv, MaxBytes
<1>4. LoopInv'
  BY <1>2 DEF LoopInv, Reading
<1>5. CASE ReadFails
  <2>1. StrandedOnlyByException'
    BY <1>2, <1>5 DEF StrandedOnlyByException, ReadFails
  <2> QED BY <2>1, <1>3, <1>4 DEF IInv
<1>6. CASE ReadRefused
  <2>1. OverrunInv
    BY <1>1, <1>2, <1>6 DEF LoopInv, ReadRefused
  <2>2. /\ Len(posted) < Len(frames)
        /\ ToShort(frames[Len(posted) + 1].len) = -1
        /\ ToShort(frames[Len(posted) + 1].id) >= 1000
    BY <2>1, <1>1, Counts DEF OverrunInv, Current
  <2>3. StrandedOnlyByException'
    BY <2>2, <1>2 DEF StrandedOnlyByException
  <2> QED BY <2>3, <1>3, <1>4 DEF IInv
<1> QED BY <1>5, <1>6

(* The process may end once the byte in front of a buffer was written.     *)
LEMMA HeapEndsIInv ==
  ASSUME IInv, HeapEnds
  PROVE  IInv'
<1>1. TypeOK /\ LoopInv /\ PostedInv /\ BytesInv /\ StrandedOnlyByException
  BY DEF IInv
<1>2. /\ UNCHANGED <<frames, stream, peerUp, phase, data, total, node, posted, bClose,
                     registered>>
      /\ crashed' = TRUE
  BY DEF HeapEnds, readVars, closeVars
<1>3. TypeOK' /\ PostedInv' /\ BytesInv'
  BY <1>1, <1>2 DEF TypeOK, PostedInv, BytesInv, MaxBytes
<1>4. LoopInv' /\ StrandedOnlyByException'
  BY <1>2 DEF LoopInv, Reading, StrandedOnlyByException
<1> QED BY <1>3, <1>4 DEF IInv

(* A read that leaves some bytes to be read.                               *)
LEMMA ReadMoreIInv ==
  ASSUME IInv, NEW k \in Nat, ReadMore(k)
  PROVE  IInv'
<1>1. TypeOK /\ LoopInv /\ PostedInv /\ BytesInv /\ StrandedOnlyByException
  BY DEF IInv
<1>2. /\ UNCHANGED <<frames, peerUp, phase, total, node, posted, registered, crashed>>
      /\ Reading /\ Returns(k) /\ k <= Len(stream) /\ Taken(k) /\ data' = Got(k)
      /\ bClose' \in BOOLEAN
  BY <1>1 DEF ReadMore, Returns, TypeOK
<1>3. data' \in Seq(Cells) /\ Len(data') = Len(data) + k
  BY <1>1, <1>2, NeverEnough
<1>4. stream' \in Seq(Cells)
  BY <1>1, <1>2, RestFacts
<1>5. /\ Current' = Current /\ Place' = Place /\ Current \in Current..(Len(frames) + 1)
      /\ Reading' = Reading /\ Endless' = Endless
  BY <1>1, <1>2, Counts DEF Current, Place, Reading, Endless
<1>6. TypeOK' /\ PostedInv'
  BY <1>1, <1>2, <1>3, <1>4 DEF TypeOK, PostedInv
<1>7. BytesInv'
  <2>1. Len(data') \in 0..(Len(data) + k)
    BY <1>1, <1>3, Counts
  <2> QED BY <2>1, <1>1, <1>2, BytesTaken
<1>8. ASSUME Endless
      PROVE  LoopInv'
  <2>1. OverrunInv
    BY <1>8, <1>1, <1>2 DEF LoopInv
  <2>2. OverrunInv'
    BY <2>1, <1>2, <1>5 DEF OverrunInv
  <2> QED BY <2>2, <1>5, <1>8 DEF LoopInv
<1>9. ASSUME ~Endless
      PROVE  LoopInv'
  <2>1. FrameInv
    BY <1>9, <1>1, <1>2 DEF LoopInv
  <2>2. /\ Len(data') <= total
        /\ \A a \in 1..Len(data') : data'[a] = Cell(Current, Place + a)
    BY <1>9, <2>1, <1>1, <1>2, BytesRead
  <2>3. HeadInv /\ BodyInv
    BY <2>1 DEF FrameInv
  <2>4. HeadInv' /\ BodyInv'
    BY <2>3, <1>2, <1>5 DEF HeadInv, BodyInv
  <2>5. DataInv'
    BY <2>2, <1>2, <1>5 DEF DataInv
  <2>6. \E o \in Offsets : Layout(o)'
    <3>1. PICK off \in Offsets : Layout(off)
      BY <2>1 DEF FrameInv
    <3>2. off[Current] = -(Place + Len(data))
      BY <3>1 DEF Layout
    <3>3. off[Current'] - k = -(Place' + Len(data'))
      <4>1. Current \in Nat /\ Len(data) \in Nat /\ Place \in Nat
        BY <1>1, Counts
      <4>2. off[Current'] = off[Current] /\ Place' = Place /\ Len(data') = Len(data) + k
        BY <1>3, <1>5
      <4> QED BY <3>2, <4>1, <4>2
    <3> QED BY <3>1, <3>3, <1>1, <1>2, <1>5, LayoutMoves
  <2> QED BY <2>4, <2>5, <2>6, <1>5, <1>9 DEF LoopInv, FrameInv
<1>10. LoopInv'
  BY <1>8, <1>9
<1>11. StrandedOnlyByException'
  BY <1>1, <1>2 DEF StrandedOnlyByException
<1> QED BY <1>6, <1>7, <1>10, <1>11 DEF IInv

(* A whole header has been read: that of the current frame.                *)
LEMMA HeadFacts ==
  ASSUME TypeOK, PostedInv, LoopInv, NEW k \in Nat, HeadRead(k)
  PROVE  /\ Current \in 1..Len(frames) /\ frames[Current] \in Frames
         /\ Len(data) + k = HEAD_TOTAL_LEN /\ Place = 0
         /\ MsgId(k) = ToShort(frames[Current].id)
         /\ MsgLen(k) = ToShort(frames[Current].len)
         /\ stream' \in Seq(Cells) /\ k <= Len(stream)
<1>1. /\ Reading /\ phase = "head" /\ Returns(k) /\ Len(Got(k)) >= total
      /\ Taken(k) /\ k <= Len(stream)
  BY DEF HeadRead, Returns
<1>0. ~Endless /\ FrameInv
  BY <1>1 DEF LoopInv, OverrunInv
<1>2. /\ Got(k) \in Seq(Cells) /\ Len(Got(k)) = Len(data) + k
      /\ Len(Got(k)) <= total
      /\ Len(Got(k)) > 0 => Current <= Len(frames)
      /\ \A a \in 1..Len(Got(k)) : Got(k)[a] = Cell(Current, Place + a)
  BY <1>0, <1>1, BytesRead
<1>3. total = HEAD_TOTAL_LEN /\ Place = 0
  BY <1>0, <1>1 DEF FrameInv, HeadInv, Place
<1>4. Len(Got(k)) = HEAD_TOTAL_LEN
  BY <1>1, <1>2, <1>3, Counts
<1>5. Current \in 1..Len(frames)
  BY <1>2, <1>4, Counts
<1>6. Head(Got(k)) = Cell(Current, 1)
  <2>1. 1 \in 1..Len(Got(k)) /\ Place + 1 = 1
    BY <1>3, <1>4, Sizes
  <2>2. Got(k)[1] = Cell(Current, 1)
    BY <2>1, <1>2
  <2>3. Head(Got(k)) = Got(k)[1]
    BY <1>2, <2>1
  <2> QED BY <2>2, <2>3
<1>7. HeadFrame(k) = frames[Current]
  BY <1>6 DEF HeadFrame, Cell
<1>8. frames[Current] \in Frames
  BY <1>5, FrameLens
<1>9. stream' \in Seq(Cells)
  BY <1>1, RestFacts
<1> QED
  BY <1>1, <1>2, <1>3, <1>4, <1>5, <1>7, <1>8, <1>9 DEF MsgId, MsgLen

(* What the checks of a header say: the upper bound of the id is more than *)
(* a short can be.                                                         *)
LEMMA ValidFacts ==
  ASSUME NEW id, NEW len, ValidHeader(id, len)
  PROVE  id >= 1000 /\ len <= MAX_LENGTH
  BY DEF ValidHeader

(* A header that passes the checks is followed by its data, or by a read   *)
(* of what lies behind it when it said -1.                                 *)
LEMMA HeadAcceptedIInv ==
  ASSUME IInv, NEW k \in Nat, HeadAccepted(k)
  PROVE  IInv'
<1>1. TypeOK /\ LoopInv /\ PostedInv /\ BytesInv /\ StrandedOnlyByException
  BY DEF IInv
<1>2. /\ UNCHANGED <<frames, peerUp, posted, bClose, registered, crashed>>
      /\ HeadRead(k) /\ Reading /\ phase = "head" /\ Taken(k)
      /\ phase' = "body" /\ data' = <<>> /\ total' = ToSize(MsgLen(k))
      /\ node' = [id |-> MsgId(k), len |-> MsgLen(k)]
      /\ MsgLen(k) <= MAX_LENGTH /\ MsgLen(k) >= -1 /\ MsgId(k) >= 1000
  BY ValidFacts DEF HeadAccepted, HeadRead, AsyncReadFull
<1>3. /\ Current \in 1..Len(frames) /\ frames[Current] \in Frames
      /\ Len(data) + k = HEAD_TOTAL_LEN /\ Place = 0
      /\ MsgId(k) = ToShort(frames[Current].id)
      /\ MsgLen(k) = ToShort(frames[Current].len)
      /\ stream' \in Seq(Cells) /\ k <= Len(stream)
  BY <1>1, <1>2, HeadFacts
<1>4. MsgId(k) \in -(2^15)..(2^15 - 1) /\ MsgLen(k) \in -1..MAX_LENGTH
  <2>1. /\ ToShort(frames[Current].id) \in -(2^15)..(2^15 - 1)
        /\ ToShort(frames[Current].len) \in -(2^15)..(2^15 - 1)
    BY <1>3, FrameFacts
  <2>2. MsgLen(k) \in Int
    BY <2>1, <1>3
  <2> QED BY <2>1, <2>2, <1>2, <1>3, Sizes
<1>5. /\ Current' = Current /\ Place' = HEAD_TOTAL_LEN /\ Reading'
      /\ Current <= Len(frames)
  BY <1>1, <1>2, <1>3, Counts DEF Current, Place, Reading
<1>6. /\ MsgLen(k) = -1 => total' = SIZE_MAX
      /\ MsgLen(k) # -1 => total' = MsgLen(k) /\ MsgLen(k) \in 0..MAX_LENGTH
  BY <1>2, <1>4, Sizes DEF ToSize
<1>7. TypeOK'
  <2>1. /\ UNCHANGED <<frames, peerUp, posted, bClose, registered, crashed>>
        /\ phase' = "body" /\ data' = <<>> /\ stream' \in Seq(Cells)
    BY <1>2, <1>3
  <2>2. node' \in [id : -(2^15)..(2^15 - 1), len : -1..MAX_LENGTH]
    <3>1. node' = [id |-> MsgId(k), len |-> MsgLen(k)]
      BY <1>2
    <3> QED BY <3>1, <1>4
  <2>3. total' \in 0..MAX_LENGTH \cup {SIZE_MAX}
    BY <1>6
  <2>4. /\ frames' \in Seq(Frames) /\ Len(frames') <= MaxFrames
        /\ posted' \in Seq(1..MaxFrames \cup {Garbled})
        /\ peerUp' \in BOOLEAN /\ crashed' \in BOOLEAN
        /\ bClose' \in BOOLEAN /\ registered' \in BOOLEAN
    BY <2>1, <1>1 DEF TypeOK
  <2>5. data' \in Seq(Cells) /\ phase' \in {"head", "body", "ended"}
    BY <2>1
  <2> QED BY <2>1, <2>2, <2>3, <2>4, <2>5 DEF TypeOK
<1>8. PostedInv' /\ StrandedOnlyByException'
  BY <1>1, <1>2 DEF PostedInv, StrandedOnlyByException
<1>9. BytesInv'
  <2>1. Len(data') \in 0..(Len(data) + k)
    BY <1>1, <1>2, Counts
  <2> QED BY <2>1, <1>1, <1>2, <1>3, BytesTaken
<1>10. ASSUME MsgLen(k) = -1
       PROVE  LoopInv'
  <2>1. Endless'
    BY <1>6, <1>10 DEF Endless
  <2>2. OverrunInv'
    BY <1>2, <1>3, <1>5, <1>10 DEF OverrunInv
  <2> QED BY <2>1, <2>2 DEF LoopInv
<1>11. ASSUME MsgLen(k) # -1
       PROVE  LoopInv'
  <2>1. ~Endless'
    BY <1>6, <1>11, Sizes DEF Endless
  <2>2. MsgLen(k) = frames[Current].len /\ MsgLen(k) = DataLen(frames[Current])
    BY <1>3, <1>6, <1>11, FrameFacts
  <2>3. HeadInv'
    BY <1>2 DEF HeadInv
  <2>4. BodyInv'
    <3>1. /\ frames' = frames /\ node' = [id |-> MsgId(k), len |-> MsgLen(k)]
          /\ total' = MsgLen(k)
      BY <1>2, <1>6, <1>11
    <3> QED BY <2>2, <3>1, <1>3, <1>5 DEF BodyInv
  <2>5. DataInv'
    <3>1. Len(data') = 0 /\ 0 <= total'
      BY <1>2, <1>6, <1>11, Sizes
    <3> QED BY <3>1 DEF DataInv
  <2>6. \E o \in Offsets : Layout(o)'
    <3>1. PICK off \in Offsets : Layout(off)
      BY <1>1, <1>2 DEF LoopInv, FrameInv, OverrunInv
    <3>2. off[Current] = -(Place + Len(data))
      BY <3>1 DEF Layout
    <3>3. Len(data') = 0
      BY <1>2
    <3>4. off[Current'] - k = -(Place' + Len(data'))
      <4>1. /\ Current \in Nat /\ Len(data) \in Nat /\ HEAD_TOTAL_LEN \in Nat
            /\ Place \in {0, HEAD_TOTAL_LEN}
        BY <1>1, Counts
      <4> QED BY <4>1, <3>2, <3>3, <1>3, <1>5
    <3>5. Current' \in Current..(Len(frames) + 1)
      BY <1>1, <1>3, <1>5, Counts
    <3> QED BY <3>1, <3>4, <3>5, <1>1, <1>2, <1>3, LayoutMoves
  <2> QED BY <2>1, <2>3, <2>4, <2>5, <2>6 DEF LoopInv, FrameInv
<1>12. LoopInv'
  BY <1>10, <1>11
<1> QED BY <1>7, <1>8, <1>9, <1>12 DEF IInv

(* A header that fails the checks, or whose length is below -1, ends the   *)
(* loop: in the first case nothing is left registered, in the second the   *)
(* frame shows why.                                                        *)
LEMMA HeadEndsIInv ==
  ASSUME IInv, NEW k \in Nat, HeadRejected(k) \/ HeadThrows(k)
  PROVE  IInv'
<1>1. TypeOK /\ LoopInv /\ PostedInv /\ BytesInv /\ StrandedOnlyByException
  BY DEF IInv
<1>2. /\ UNCHANGED <<frames, peerUp, posted, bClose, data, total, node>>
      /\ HeadRead(k) /\ phase' = "ended" /\ Taken(k)
  BY DEF HeadRejected, HeadThrows, HeadRead
<1>3. /\ Current \in 1..Len(frames) /\ frames[Current] \in Frames
      /\ MsgId(k) = ToShort(frames[Current].id)
      /\ MsgLen(k) = ToShort(frames[Current].len)
      /\ stream' \in Seq(Cells) /\ k <= Len(stream)
  BY <1>1, <1>2, HeadFacts
<1>4. /\ registered' \in BOOLEAN /\ crashed' \in BOOLEAN
      /\ (registered' /\ ~crashed') => HeadThrows(k)
  BY <1>1 DEF HeadRejected, HeadThrows, TypeOK, HeadRead, Reading
<1>5. TypeOK'
  BY <1>1, <1>2, <1>3, <1>4 DEF TypeOK
<1>6. PostedInv' /\ LoopInv'
  BY <1>1, <1>2 DEF PostedInv, LoopInv, Reading
<1>7. StrandedOnlyByException'
  <2> SUFFICES ASSUME registered', ~crashed'
               PROVE  /\ Len(posted) < Len(frames)
                      /\ ToShort(frames[Len(posted) + 1].len) < 0
                      /\ ToShort(frames[Len(posted) + 1].id) >= 1000
    BY <1>2 DEF StrandedOnlyByException
  <2>1. MsgId(k) >= 1000 /\ MsgLen(k) < 0
    <3>1. ToShort(frames[Current].len) \in Int
      <4>1. ToShort(frames[Current].len) \in -(2^15)..(2^15 - 1)
        BY <1>3, FrameFacts
      <4> QED BY <4>1
    <3> QED BY <3>1, <1>3, <1>4, ValidFacts DEF HeadThrows
  <2>2. Len(posted) < Len(frames)
    BY <1>1, <1>3, Counts DEF Current
  <2> QED BY <2>1, <2>2, <1>3 DEF Current
<1>8. BytesInv'
  <2>1. Len(data') \in 0..(Len(data) + k)
    BY <1>1, <1>2, Counts
  <2> QED BY <2>1, <1>1, <1>2, <1>3, BytesTaken
<1> QED BY <1>5, <1>6, <1>7, <1>8 DEF IInv

(* The data of the current frame has been read: what is posted is it.      *)
LEMMA BodyFacts ==
  ASSUME TypeOK, PostedInv, LoopInv, BytesInv, NEW k \in Nat, BodyRead(k)
  PROVE  /\ ~Endless /\ FrameInv
         /\ Current \in 1..Len(frames) /\ Current \in 1..MaxFrames
         /\ Request(Got(k)) = Current
         /\ Len(data) + k = DataLen(frames[Current])
         /\ stream' \in Seq(Cells) /\ k <= Len(stream)
<1>1. /\ Reading /\ phase = "body" /\ Returns(k) /\ Len(Got(k)) >= total
      /\ Taken(k) /\ k <= Len(stream)
  BY DEF BodyRead, Returns
<1>0. ~Endless /\ FrameInv
  <2>1. Len(Got(k)) < SIZE_MAX /\ Len(Got(k)) \in Nat
    BY <1>1, NeverEnough
  <2>2. total # SIZE_MAX
    BY <2>1, <1>1, Sizes
  <2> QED BY <2>2, <1>1 DEF LoopInv, Endless
<1>2. /\ Got(k) \in Seq(Cells) /\ Len(Got(k)) = Len(data) + k
      /\ Len(Got(k)) <= total
      /\ \A a \in 1..Len(Got(k)) : Got(k)[a] = Cell(Current, Place + a)
  BY <1>0, <1>1, BytesRead
<1>3. /\ Current <= Len(frames) /\ total = DataLen(frames[Current])
      /\ node = [id |-> ToShort(frames[Current].id), len |-> frames[Current].len]
      /\ Place = HEAD_TOTAL_LEN
  BY <1>0, <1>1 DEF FrameInv, BodyInv, Place
<1>4. Len(Got(k)) = DataLen(frames[Current])
  <2>1. total \in Nat /\ Len(Got(k)) \in Nat
    BY <1>2, Counts
  <2>2. Len(Got(k)) = total
    BY <2>1, <1>1, <1>2
  <2> QED BY <2>2, <1>3
<1>5. Current \in 1..Len(frames) /\ Current \in 1..MaxFrames
  BY <1>3, Counts
<1>6. Got(k) = Body(Current, frames[Current])
  <2> DEFINE b == Body(Current, frames[Current])
  <2>1. frames[Current] \in Frames
    BY <1>5, FrameLens
  <2>2. /\ b \in Seq(Cells) /\ Len(b) = DataLen(frames[Current])
        /\ \A i \in 1..DataLen(frames[Current]) : b[i] = Cell(Current, HEAD_TOTAL_LEN + i)
    BY <1>5, <2>1, Pieces
  <2> HIDE DEF b
  <2>3. Len(Got(k)) = Len(b) /\ \A i \in 1..Len(Got(k)) : Got(k)[i] = b[i]
    BY <2>2, <1>2, <1>3, <1>4
  <2>4. Got(k) = b
    BY <2>2, <2>3, <1>2, SeqEqual
  <2> QED BY <2>4 DEF b
<1>7. Request(Got(k)) = Current
  BY <1>3, <1>5, <1>6 DEF Request, Current
<1>8. stream' \in Seq(Cells)
  BY <1>1, RestFacts
<1> QED BY <1>0, <1>1, <1>2, <1>4, <1>5, <1>7, <1>8

(* The request is posted, and the header of the next frame is read.        *)
LEMMA BodyReadIInv ==
  ASSUME IInv, NEW k \in Nat, BodyRead(k)
  PROVE  IInv'
<1>1. TypeOK /\ LoopInv /\ PostedInv /\ BytesInv /\ StrandedOnlyByException
  BY DEF IInv
<1>2. /\ UNCHANGED <<frames, peerUp, node, bClose, registered, crashed>>
      /\ Reading /\ phase = "body" /\ Taken(k)
      /\ phase' = "head" /\ data' = <<>> /\ total' = HEAD_TOTAL_LEN
      /\ posted' = Append(posted, Request(Got(k)))
  BY DEF BodyRead, AsyncReadFull, closeVars
<1>3. /\ ~Endless /\ FrameInv
      /\ Current \in 1..Len(frames) /\ Current \in 1..MaxFrames
      /\ Request(Got(k)) = Current
      /\ Len(data) + k = DataLen(frames[Current])
      /\ stream' \in Seq(Cells) /\ k <= Len(stream)
  BY <1>1, BodyFacts
<1>4. /\ posted' \in Seq(1..MaxFrames \cup {Garbled})
      /\ Len(posted') = Len(posted) + 1
      /\ \A n \in 1..Len(posted) : posted'[n] = posted[n]
      /\ posted'[Len(posted) + 1] = Current
  <2>1. /\ posted \in Seq(1..MaxFrames \cup {Garbled})
        /\ Current \in 1..MaxFrames \cup {Garbled}
        /\ posted' = Append(posted, Current)
    BY <1>1, <1>2, <1>3 DEF TypeOK
  <2> QED BY <2>1, AppendProperties
<1>5. Current' = Current + 1 /\ Place' = 0 /\ Place = HEAD_TOTAL_LEN
  BY <1>1, <1>2, <1>4, Counts DEF Current, Place
<1>6. TypeOK'
  <2>1. total' \in 0..MAX_LENGTH \cup {SIZE_MAX} /\ data' \in Seq(Cells)
    BY <1>2, Sizes
  <2> QED BY <2>1, <1>1, <1>2, <1>3, <1>4 DEF TypeOK
<1>7. PostedInv'
  <2>1. Len(posted) \in Nat /\ Current = Len(posted) + 1
    BY <1>1, Counts DEF Current
  <2>2. Len(posted') <= Len(frames')
    BY <2>1, <1>2, <1>3, <1>4
  <2>3. \A n \in 1..Len(posted') : posted'[n] = n
    BY <2>1, <1>1, <1>4 DEF PostedInv
  <2> QED BY <2>2, <2>3 DEF PostedInv
<1>8. StrandedOnlyByException' /\ HeadInv' /\ BodyInv'
  BY <1>2 DEF StrandedOnlyByException, HeadInv, BodyInv
<1>9. DataInv'
  <2>1. Len(data') = 0 /\ 0 <= total'
    BY <1>2, Sizes
  <2> QED BY <2>1 DEF DataInv
<1>10. \E o \in Offsets : Layout(o)'
  <2>1. PICK off \in Offsets : Layout(off)
    BY <1>3 DEF FrameInv
  <2>2. Current \in Current..Len(frames)
    BY <1>1, <1>3, Counts
  <2>3. /\ off[Current] = -(Place + Len(data))
        /\ off[Current + 1] = off[Current] + FrameLen(Current)
    BY <2>1, <2>2 DEF Layout
  <2>4. /\ FrameLen(Current) = HEAD_TOTAL_LEN + DataLen(frames[Current])
        /\ DataLen(frames[Current]) \in 0..MAX_LENGTH
    BY <1>1, <1>3, FrameLens
  <2>5. off[Current + 1] - k = 0
    <3>1. Len(data) \in Nat /\ DataLen(frames[Current]) \in Nat
      BY <2>4, <1>1, Counts
    <3>2. off[Current + 1] = -(HEAD_TOTAL_LEN + Len(data))
                             + (HEAD_TOTAL_LEN + (Len(data) + k))
      BY <2>3, <2>4, <1>3, <1>5
    <3> QED BY <3>1, <3>2, Sizes
  <2>6. off[Current'] - k = -(Place' + Len(data'))
    <3>1. Len(data') = 0
      BY <1>2
    <3> QED BY <3>1, <2>5, <1>5
  <2>7. Current' \in Current..(Len(frames) + 1)
    BY <1>1, <1>3, <1>5, Counts
  <2> QED BY <2>1, <2>6, <2>7, <1>1, <1>2, <1>3, LayoutMoves
<1>11. LoopInv'
  <2>1. ~Endless'
    BY <1>2, Sizes DEF Endless
  <2> QED BY <2>1, <1>8, <1>9, <1>10 DEF LoopInv, FrameInv
<1>12. BytesInv'
  <2>1. Len(data') \in 0..(Len(data) + k)
    BY <1>1, <1>2, <1>3, Counts
  <2> QED BY <2>1, <1>1, <1>2, <1>3, BytesTaken
<1> QED BY <1>6, <1>7, <1>8, <1>11, <1>12 DEF IInv

(* Every step keeps the invariant.                                         *)
LEMMA NextIInv == IInv /\ [Next]_vars => IInv'
<1> SUFFICES ASSUME IInv, [Next]_vars PROVE IInv'
  OBVIOUS
<1>1. CASE \E f \in Frames : ClientSends(f)
  BY <1>1, ClientIInv
<1>2. CASE PeerDown
  BY <1>2, PeerDownIInv
<1>3. CASE ReadFails \/ ReadRefused
  BY <1>3, ReadErrorIInv
<1>4. CASE ReadSome
  <2>1. PICK k \in 0..Len(stream) : ReadHandler(k)
    BY <1>4 DEF ReadSome
  <2>2. k \in Nat
    OBVIOUS
  <2> QED
    BY <2>1, <2>2, ReadMoreIInv, HeadAcceptedIInv, HeadEndsIInv, BodyReadIInv
    DEF ReadHandler
<1>5. CASE UNCHANGED vars
  <2>1. UNCHANGED <<frames, stream, peerUp, phase, data, total, node, posted, bClose,
                    registered, crashed>>
    BY <1>5 DEF vars, readVars, closeVars
  <2>2. TypeOK /\ LoopInv /\ PostedInv /\ BytesInv /\ StrandedOnlyByException
    BY DEF IInv
  <2>3. TypeOK'
    BY <2>1, <2>2 DEF TypeOK
  <2>4. PostedInv' /\ BytesInv' /\ StrandedOnlyByException'
    BY <2>1, <2>2 DEF PostedInv, BytesInv, MaxBytes, StrandedOnlyByException
  <2>5. LoopInv'
    BY <2>1, <2>2
    DEF LoopInv, Reading, Endless, OverrunInv, FrameInv, HeadInv, BodyInv, DataInv, Layout, Current, Place, FrameLen
  <2> QED BY <2>3, <2>4, <2>5 DEF IInv
<1>6. CASE HeapEnds
  BY <1>6, HeapEndsIInv
<1> QED BY <1>1, <1>2, <1>3, <1>4, <1>5, <1>6 DEF Next

(* The strengthened invariant holds in every behaviour.                    *)
LEMMA AlwaysIInv == Spec => []IInv
  BY InitIInv, NextIInv, PTL DEF Spec

-----------------------------------------------------------------------------
(* The theorems                                                            *)

(* The variables of the read loop keep their types, whatever the client    *)
(* sends; a request is a frame or was put together wrongly.                *)
THEOREM ReadTypes == Spec => []TypeOK
<1>1. IInv => TypeOK
  BY DEF IInv
<1> QED BY <1>1, AlwaysIInv, PTL

(* However the reads are cut, _data holds the beginning of the header or   *)
(* of the data of one frame, and does not overflow, for frames of every    *)
(* length and any number of them, but for one: a header that says -1.      *)
THEOREM ReadsAreAligned == Spec => []DataIsAligned
<1>1. IInv => DataIsAligned
  <2> SUFFICES ASSUME IInv, Reading, ~SaysMinusOne(Len(posted) + 1)
               PROVE  LET n == Len(posted) + 1 IN
                      /\ Len(data) <= total /\ total <= MAX_LENGTH
                      /\ data # <<>> =>
                           data = SubSeq(IF phase = "head" THEN Header(n)
                                                           ELSE Body(n, frames[n]),
                                         1, Len(data))
    BY DEF DataIsAligned
  <2>0. ~Endless /\ FrameInv
    BY DEF IInv, LoopInv, OverrunInv, SaysMinusOne, Current
  <2>1. TypeOK /\ PostedInv /\ HeadInv /\ BodyInv /\ DataInv
    BY <2>0 DEF IInv, FrameInv
  <2>2. Len(data) <= total /\ total <= MAX_LENGTH
    BY <2>0, <2>1, Counts DEF DataInv
  <2>3. ASSUME data # <<>>
        PROVE  data = SubSeq(IF phase = "head" THEN Header(Current)
                                               ELSE Body(Current, frames[Current]),
                             1, Len(data))
    <3>1. PICK off \in Offsets : Layout(off)
      BY <2>0 DEF FrameInv
    <3>2. data \in Seq(Cells) /\ Len(data) \in Nat \ {0}
      BY <2>1, <2>3, Counts, EmptySeq
    <3>3. Current \in 1..Len(frames) /\ Current \in 1..MaxFrames
      <4>1. off[Current] = -(Place + Len(data)) /\ off[Len(frames) + 1] = Len(stream)
        BY <3>1 DEF Layout
      <4>2. Current = Len(frames) + 1 => Len(stream) = -(Place + Len(data))
        BY <4>1
      <4>3. Current # Len(frames) + 1
        BY <4>2, <3>2, <2>1, Counts
      <4> QED BY <4>3, <2>1, Counts
    <3> DEFINE p == IF phase = "head" THEN Header(Current)
                                      ELSE Body(Current, frames[Current])
    <3>4. frames[Current] \in Frames
      BY <2>1, <3>3, FrameLens
    <3>5. /\ p \in Seq(Cells) /\ Len(data) <= Len(p)
          /\ \A i \in 1..Len(data) : p[i] = Cell(Current, Place + i)
      <4>1. CASE phase = "head"
        <5>1. /\ p \in Seq(Cells) /\ Len(p) = HEAD_TOTAL_LEN
              /\ \A i \in 1..HEAD_TOTAL_LEN : p[i] = Cell(Current, i)
          BY <4>1, <3>3, <3>4, Pieces
        <5>2. Len(data) <= HEAD_TOTAL_LEN /\ Place = 0
          BY <4>1, <2>1 DEF HeadInv, DataInv, Place
        <5> QED BY <5>1, <5>2, <3>2, Sizes
      <4>2. CASE phase = "body"
        <5>1. /\ p \in Seq(Cells) /\ Len(p) = DataLen(frames[Current])
              /\ \A i \in 1..DataLen(frames[Current]) :
                   p[i] = Cell(Current, HEAD_TOTAL_LEN + i)
          BY <4>2, <3>3, <3>4, Pieces
        <5>2. /\ Len(data) <= DataLen(frames[Current]) /\ Place = HEAD_TOTAL_LEN
              /\ DataLen(frames[Current]) \in Nat
          BY <4>2, <2>1, <3>3, FrameLens, Sizes DEF BodyInv, DataInv, Place
        <5> QED BY <5>1, <5>2, <3>2, Sizes
      <4> QED BY <4>1, <4>2, <2>1 DEF Reading, TypeOK
    <3> HIDE DEF p
    <3>6. /\ SubSeq(p, 1, Len(data)) \in Seq(Cells)
          /\ Len(SubSeq(p, 1, Len(data))) = Len(data)
          /\ \A i \in 1..Len(data) : SubSeq(p, 1, Len(data))[i] = p[i]
      <4>1. \A i \in 1..Len(data) : p[i] \in Cells
        BY <3>2, <3>5
      <4> QED BY <4>1, <3>2, SubSeqProperties
    <3>7. \A i \in 1..Len(data) : data[i] = SubSeq(p, 1, Len(data))[i]
      BY <2>1, <3>5, <3>6 DEF DataInv
    <3>8. data = SubSeq(p, 1, Len(data))
      BY <3>2, <3>6, <3>7, SeqEqual
    <3> QED BY <3>8 DEF p
  <2> QED BY <2>2, <2>3 DEF Current
<1> QED BY <1>1, AlwaysIInv, PTL

(* The loop of a session that stays registered ends only by the exception  *)
(* of close() or after a negative length, whatever the client sends.       *)
THEOREM StrandedByException == Spec => []StrandedOnlyByException
<1>1. IInv => StrandedOnlyByException
  BY DEF IInv
<1> QED BY <1>1, AlwaysIInv, PTL

(* The safety half of PostedInOrder: the read loop implements a channel    *)
(* that passes on each frame of the client once, in the order in which     *)
(* they were sent; to read the data of a frame is to deliver it, and the   *)
(* end of the loop, or a header that says -1, breaks the channel.          *)
THEOREM FramesPostedInOrder == Spec => Channel!SafeSpec
<1> DEFINE sent == [n \in 1..Len(frames) |-> n]
           broken == ~Reading \/ Endless
<1>1. Init => Channel!Init
  <2> SUFFICES ASSUME Init PROVE Channel!Init
    OBVIOUS
  <2>1. frames = <<>> /\ posted = <<>> /\ Reading /\ ~Endless
    BY Sizes DEF Init, Reading, Endless
  <2>2. sent = <<>>
    BY <2>1
  <2> QED BY <2>1, <2>2 DEF Channel!Init
<1>2. IInv /\ [Next]_vars => [Channel!Next]_Channel!vars
  <2> SUFFICES ASSUME IInv, [Next]_vars PROVE [Channel!Next]_Channel!vars
    OBVIOUS
  <2>1. TypeOK /\ LoopInv /\ PostedInv /\ BytesInv
    BY DEF IInv
  <2>2. ASSUME frames' = frames, posted' = posted, broken' = broken
        PROVE  UNCHANGED Channel!vars
    BY <2>2 DEF Channel!vars
  <2>3. ASSUME frames' = frames, posted' = posted, broken'
        PROVE  Channel!Next
    BY <2>3 DEF Channel!Next, Channel!Break
  <2>4. ASSUME NEW f \in Frames, ClientSends(f)
        PROVE  Channel!Next
    <3>1. /\ frames' = Append(frames, f) /\ Len(frames) < MaxFrames
          /\ posted' = posted /\ broken' = broken
      BY <2>4 DEF ClientSends, readVars, Reading, Endless
    <3> frames \in Seq(Frames)
      BY <2>1 DEF TypeOK
    <3> Len(frames) \in Nat /\ Len(frames) + 1 \in 1..MaxFrames
      BY <3>1, <2>1, Counts
    <3>2. Len(frames') = Len(frames) + 1
      BY <3>1, AppendProperties
    <3>3. sent' = [n \in 1..(Len(frames) + 1) |-> n]
      BY <3>2
    <3>4. sent' = Append(sent, Len(frames) + 1)
      BY <3>1, <3>3
    <3> QED BY <3>1, <3>4 DEF Channel!Next, Channel!Accept
  <2>5. ASSUME NEW k \in Nat, BodyRead(k)
        PROVE  Channel!Next
    <3>1. /\ frames' = frames /\ Reading /\ Reading' /\ ~Endless'
          /\ posted' = Append(posted, Request(Got(k)))
      BY <2>5, Sizes DEF BodyRead, AsyncReadFull, Reading, Endless
    <3>2. ~Endless /\ Current \in 1..Len(frames) /\ Request(Got(k)) = Current
      BY <2>1, <2>5, BodyFacts
    <3>3. Len(sent) = Len(frames) /\ sent[Current] = Current /\ Current = Len(posted) + 1
      BY <2>1, <3>2, Counts DEF Current
    <3>4. Len(posted) < Len(sent)
      BY <2>1, <3>2, <3>3, Counts
    <3>5. sent' = sent
      BY <3>1
    <3> QED BY <3>1, <3>2, <3>3, <3>4, <3>5 DEF Channel!Next, Channel!Deliver
  <2>6. CASE PeerDown
    BY <2>2, <2>6 DEF PeerDown, readVars, Reading, Endless
  <2>7. CASE ReadFails \/ ReadRefused \/ HeapEnds
    BY <2>3, <2>7 DEF ReadFails, ReadRefused, ReadError, HeapEnds, Reading
  <2>8. CASE ReadSome
    <3>1. PICK k \in 0..Len(stream) : ReadHandler(k)
      BY <2>8 DEF ReadSome
    <3>2. k \in Nat
      OBVIOUS
    <3>3. CASE ReadMore(k)
      BY <2>2, <3>3 DEF ReadMore, Reading, Endless
    <3>4. CASE HeadAccepted(k)
      <4>1. /\ frames' = frames /\ posted' = posted /\ Reading /\ Reading'
            /\ phase = "head"
        BY <3>4 DEF HeadAccepted, HeadRead, AsyncReadFull, Reading
      <4>2. ~Endless
        BY <2>1, <4>1 DEF LoopInv, OverrunInv
      <4> QED BY <2>2, <2>3, <4>1, <4>2
    <3>5. CASE HeadRejected(k) \/ HeadThrows(k)
      BY <2>3, <3>5 DEF HeadRejected, HeadThrows, HeadRead, Reading
    <3>6. CASE BodyRead(k)
      BY <2>5, <3>2, <3>6
    <3> QED BY <3>1, <3>3, <3>4, <3>5, <3>6 DEF ReadHandler
  <2>9. CASE UNCHANGED vars
    BY <2>2, <2>9 DEF vars, readVars, Reading, Endless
  <2> QED BY <2>4, <2>6, <2>7, <2>8, <2>9 DEF Next
<1> QED BY <1>1, <1>2, AlwaysIInv, PTL DEF Spec, Channel!SafeSpec
=============================================================================
