----------------------------- MODULE ExrFile_proofs -----------------------------
(***************************************************************************)
(* For any number of threads and any sizes: threads never share a block,   *)
(* what loads is what was saved, and exactly the complete files load.      *)
(***************************************************************************)
EXTENDS ExrFile, TLAPS

Busy(b) == \E t \in Threads : at[t] = b

\* A thread has a block the counter has passed, and leaves when there are no more.
Counted ==
  /\ \A t \in Threads : at[t] \in Blocks => at[t] < next /\ pc \in {"encode", "decode"}
  /\ pc \in {"encode", "decode"} =>
       \A t \in Threads : at[t] = Gone /\ t <= BlockCount => next >= BlockCount

\* Every block the counter has passed is encoded or in the hands of a thread.
EncodedBlock(b) == data[b].first = NumScanlines * b /\ data[b].length > 0
Encoded ==
  /\ pc = "encode" => \A b \in Blocks : b < next => Busy(b) \/ EncodedBlock(b)
  /\ pc # "encode" => \A b \in Blocks : EncodedBlock(b)

\* The blocks lie one after another behind the table, the last at the end.
EndOf(b) == offsets[b] + BlockHead + data[b].length
TableEnd == HeaderSize + BlockCount * EntrySize
LaidOut ==
  /\ pc = "layout" => /\ next < BlockCount /\ end >= TableEnd
                      /\ \A b \in Blocks : b < next => EndOf(b) <= end
  /\ pc \notin {"encode", "layout"} => /\ end > TableEnd
                                       /\ \A b \in Blocks : EndOf(b) <= end
                                       /\ end = EndOf(BlockCount - 1)

\* Every block the counter has passed is in its place, or it was not in the file,
\* or it is in the hands of a thread.
DecodedBlock(b) ==
  \A l \in 0..height-1 :
    NumScanlines * b <= l /\ l < NumScanlines * b + NumScanlines => line[l] = l
Decoded ==
  /\ pc = "decode" =>
       /\ \A b \in Blocks : b < next => \/ Busy(b)
                                        \/ Readable(b) /\ DecodedBlock(b)
                                        \/ invalid
       /\ invalid => size < end
  /\ pc \in {"encode", "layout", "write", "read"} => ~invalid
  /\ \A l \in 0..height-1 : line[l] \in {Unread, l}

Outcome == RoundTrip /\ TruncatedRefused /\ CompleteLoads

Inv == TypeOK /\ Counted /\ NeverShared /\ Encoded /\ LaidOut /\ Decoded /\ Outcome
-------------------------------------------------------------------------------
LEMMA Division == ASSUME NEW h \in Nat \ {0}, NEW n \in Nat \ {0},
                         NEW c, c = (h + n - 1) \div n
                  PROVE  c \in Nat \ {0} /\ n * c >= h /\ n * (c - 1) < h
<1>1. c \in Int
  OBVIOUS
<1>2. n * c <= h + n - 1 /\ h + n - 1 < n * c + n
  OBVIOUS
<1>3. c >= 1
  BY <1>1, <1>2
<1>4. n * (c - 1) = n * c - n
  BY <1>1
<1>. QED BY <1>1, <1>2, <1>3, <1>4

LEMMA Monotone == ASSUME NEW n \in Nat, NEW a \in Int, NEW b \in Int, a <= b
                  PROVE  n * a <= n * b
OBVIOUS

\* The blocks cut the lines into pieces of NumScanlines.
LEMMA Cut == ASSUME TypeOK
             PROVE  /\ NumScanlines \in Nat \ {0} /\ NumScanlines <= BlockLines
                    /\ BlockCount \in Nat \ {0}
                    /\ \A b \in Blocks : /\ b \in Nat /\ b < BlockCount
                                         /\ NumScanlines * b \in 0..height-1
                    /\ \A l \in 0..height-1 : \E b \in Blocks :
                         NumScanlines * b <= l /\ l < NumScanlines * b + NumScanlines
<1>1. NumScanlines \in Nat \ {0} /\ NumScanlines <= BlockLines /\ height \in Nat \ {0}
  BY ExrAssumption DEF TypeOK, NumScanlines
<1>2. /\ BlockCount \in Nat \ {0}
      /\ NumScanlines * BlockCount >= height /\ NumScanlines * (BlockCount - 1) < height
  BY <1>1, Division DEF BlockCount
<1>3. ASSUME NEW b \in Blocks PROVE b \in Nat /\ b < BlockCount /\ NumScanlines * b \in 0..height-1
  <2>1. b \in Nat /\ b <= BlockCount - 1
    BY <1>2 DEF Blocks
  <2>2. NumScanlines * b <= NumScanlines * (BlockCount - 1)
    BY <1>1, <1>2, <2>1, Monotone
  <2>3. NumScanlines * b \in Nat /\ NumScanlines * (BlockCount - 1) \in Int
    BY <1>1, <1>2, <2>1
  <2>. QED BY <1>1, <1>2, <2>1, <2>2, <2>3
<1>4. ASSUME NEW l \in 0..height-1
      PROVE \E b \in Blocks : NumScanlines * b <= l /\ l < NumScanlines * b + NumScanlines
  <2>. DEFINE q == l \div NumScanlines
  <2>1. q \in Nat /\ NumScanlines * q <= l /\ l < NumScanlines * q + NumScanlines
    BY <1>1
  <2>2. q < BlockCount
    <3>1. SUFFICES ASSUME q >= BlockCount PROVE FALSE
      BY <1>2, <2>1
    <3>2. NumScanlines * BlockCount <= NumScanlines * q
      BY <1>1, <1>2, <2>1, <3>1, Monotone
    <3>3. NumScanlines * BlockCount \in Nat /\ NumScanlines * q \in Nat
      BY <1>1, <1>2, <2>1
    <3>. HIDE DEF q
    <3>. QED BY <1>1, <1>2, <2>1, <3>2, <3>3
  <2>3. q \in Blocks
    BY <1>2, <2>1, <2>2 DEF Blocks
  <2>. QED BY <2>1, <2>3
<1>. QED BY <1>1, <1>2, <1>3, <1>4

LEMMA Sizes == /\ NumThreads \in Nat \ {0} /\ BlockLines \in Nat \ {0}
               /\ LineSize \in Nat \ {0} /\ HeaderSize \in Nat \ {0}
               /\ EntrySize \in Nat \ {0} /\ BlockHead \in Nat \ {0}
BY ExrAssumption

\* The image is not changed: neither are its blocks.
LEMMA SameCut == ASSUME UNCHANGED <<height, zip>>
                 PROVE  /\ NumScanlines' = NumScanlines /\ BlockCount' = BlockCount
                        /\ Blocks' = Blocks /\ TableEnd' = TableEnd
BY DEF NumScanlines, BlockCount, Blocks, TableEnd

LEMMA NoBlock == Idle \notin Blocks /\ Gone \notin Blocks /\ Idle # Gone
BY DEF Idle, Gone, Blocks

LEMMA InitInv == Init => Inv
<1> SUFFICES ASSUME Init PROVE Inv
  OBVIOUS
<1>1. TypeOK
  <2>1. height - 1 \in Nat /\ 0 \in 0..height-1 /\ 0 \in 0..BlockLines * LineSize
    BY Sizes DEF Init
  <2>2. data \in [Blocks -> [first : 0..height-1, length : 0..BlockLines * LineSize]]
    BY <2>1 DEF Init, Missing
  <2>3. at \in [Threads -> Blocks \cup {Idle, Gone}]
    BY DEF Init, Started
  <2>. QED BY <2>2, <2>3 DEF Init, TypeOK
<1>2. Counted
  BY <1>1, Cut, Sizes DEF Init, Counted, Started, Threads, Idle, Gone
<1>3. NeverShared
  BY NoBlock DEF Init, NeverShared, Started
<1>4. Encoded /\ LaidOut /\ Decoded /\ Outcome
  BY <1>1, Cut DEF Init, Encoded, LaidOut, Decoded, Outcome, RoundTrip, TruncatedRefused, CompleteLoads
<1>. QED BY <1>1, <1>2, <1>3, <1>4 DEF Inv
-------------------------------------------------------------------------------
LEMMA Plain == ASSUME TypeOK
               PROVE  /\ BlockCount \in Nat \ {0} /\ NumScanlines \in Nat \ {0}
                      /\ height \in Nat \ {0}
                      /\ \A b \in Blocks : b \in Nat /\ b < BlockCount
                      /\ \A b \in Nat : b < BlockCount => b \in Blocks
<1>1. BlockCount \in Nat \ {0} /\ NumScanlines \in Nat \ {0}
  BY Cut
<1>. QED BY <1>1, Sizes DEF TypeOK, Blocks

\* The lengths a block may get when it is encoded.
LEMMA LengthBound == ASSUME TypeOK, NEW b \in Blocks, NEW n \in Lengths(NumScanlines * b)
                     PROVE  n \in 1..BlockLines * LineSize
<1>. DEFINE m == NumScanlines * b
<1>1. m \in 0..height-1 /\ NumScanlines \in Nat \ {0} /\ NumScanlines <= BlockLines
  BY Cut
<1>2. NumLines(m) \in 1..BlockLines
  <2>1. m \in Nat /\ m < height /\ height \in Nat
    BY <1>1, Plain
  <2>. HIDE DEF m
  <2>2. CASE m + NumScanlines <= height
    BY <1>1, <2>1, <2>2, Sizes DEF NumLines, Smaller
  <2>3. CASE ~(m + NumScanlines <= height)
    BY <1>1, <2>1, <2>3, Sizes DEF NumLines, Smaller
  <2>. QED BY <2>2, <2>3
<1>3. LineSize * NumLines(m) <= LineSize * BlockLines
  BY <1>2, Monotone, Sizes
<1>4. LineSize * 1 <= LineSize * NumLines(m)
  BY <1>2, Monotone, Sizes
<1>. DEFINE k == NumLines(m)
<1>5. k \in Nat
  BY <1>2, Sizes
<1>. HIDE DEF m, k
<1>6. Raw(m) = LineSize * k /\ Raw(m) \in Nat /\ BlockLines * LineSize = LineSize * BlockLines
  BY <1>5, Sizes DEF Raw, k
<1>7. Raw(m) >= 1 /\ Raw(m) <= BlockLines * LineSize
  BY <1>3, <1>4, <1>6, Sizes DEF k
<1>8. n \in 1..Raw(m) \/ n = Raw(m)
  BY DEF Lengths, m
<1>. QED BY <1>6, <1>7, <1>8, Sizes

\* Which lines decoding a block writes.
LEMMA DecodedLines ==
  ASSUME TypeOK, NEW b \in Blocks, data[b].first = NumScanlines * b
  PROVE  /\ Target(b) = data[b].first
         /\ \A l \in 0..height-1 :
              l - Target(b) \in 0..NumLines(data[b].first)-1
                <=> NumScanlines * b <= l /\ l < NumScanlines * b + NumScanlines
<1>1. Target(b) = data[b].first
  <2>1. CASE zip
    BY <2>1 DEF Target, PackedTarget
  <2>2. CASE ~zip
    BY <2>2, Plain DEF Target, RawTarget, NumScanlines
  <2>. QED BY <2>1, <2>2
<1>. DEFINE m == NumScanlines * b
<1>2. m \in 0..height-1 /\ NumScanlines \in Nat \ {0} /\ height \in Nat \ {0}
  BY Cut, Plain
<1>. HIDE DEF m
<1>3. \A l \in 0..height-1 : l - m \in 0..NumLines(m)-1 <=> m <= l /\ l < m + NumScanlines
  BY <1>2 DEF NumLines, Smaller
<1>. QED BY <1>1, <1>3 DEF m
-------------------------------------------------------------------------------
LEMMA TypeNext == ASSUME Inv, [Next]_vars PROVE TypeOK'
<1>. USE DEF saved
<1>0. TypeOK /\ Encoded /\ Counted
  BY DEF Inv
<1>1. ASSUME NEW t \in Threads, Claim(t) PROVE TypeOK'
  <2>1. UNCHANGED <<height, zip>> /\ (next < BlockCount => next \in Blocks) /\ next' \in Nat
    BY <1>0, <1>1, Plain DEF Claim, TypeOK
  <2>2. at' \in [Threads -> Blocks \cup {Idle, Gone}]
    BY <1>0, <1>1, <2>1 DEF Claim, TypeOK
  <2>. QED BY <1>0, <1>1, <2>1, <2>2, SameCut DEF Claim, TypeOK
<1>2. ASSUME NEW t \in Threads, Encode(t) PROVE TypeOK'
  <2>. DEFINE b == at[t]
  <2>1. UNCHANGED <<height, zip>> /\ b \in Blocks
    BY <1>2 DEF Encode
  <2>2. PICK n \in Lengths(NumScanlines * b) :
          data' = [data EXCEPT ![b] = [first |-> NumScanlines * b, length |-> n]]
    BY <1>2 DEF Encode
  <2>3. n \in 0..BlockLines * LineSize
    BY <1>0, <2>1, <2>2, LengthBound, Sizes
  <2>4. NumScanlines * b \in 0..height-1
    BY <1>0, <2>1, Cut
  <2>5. data' \in [Blocks -> [first : 0..height-1, length : 0..BlockLines * LineSize]]
    <3>. DEFINE m == NumScanlines * b  r == BlockLines * LineSize
    <3>. HIDE DEF m, r, b
    <3>. QED BY <1>0, <2>2, <2>3, <2>4 DEF TypeOK, m, r
  <2>6. at' \in [Threads -> Blocks \cup {Idle, Gone}]
    BY <1>0, <1>2 DEF Encode, TypeOK
  <2>. QED BY <1>0, <1>2, <2>1, <2>5, <2>6, SameCut DEF Encode, TypeOK
<1>3. ASSUME NEW t \in Threads, Decode(t) PROVE TypeOK'
  <2>. DEFINE b == at[t]
  <2>1. UNCHANGED <<height, zip>> /\ b \in Blocks /\ data[b].first = NumScanlines * b
    BY <1>0, <1>3 DEF Decode, Encoded, EncodedBlock
  <2>2. line' \in [0..height-1 -> {Unread} \cup (0..height-1)] /\ invalid' \in BOOLEAN
    <3>1. CASE Readable(b)
      <4>1. /\ line' = [l \in 0..height-1 |->
                       IF l - Target(b) \in 0..NumLines(data[b].first)-1
                       THEN data[b].first + (l - Target(b)) ELSE line[l]]
            /\ UNCHANGED invalid
        BY <1>3, <3>1 DEF Decode
      <4>2. ASSUME NEW l \in 0..height-1 PROVE data[b].first + (l - Target(b)) = l
        <5>1. data[b].first \in Nat
          BY <1>0, <2>1 DEF TypeOK
        <5>2. Target(b) = data[b].first
          BY <1>0, <2>1, DecodedLines
        <5>. QED BY <5>1, <5>2
      <4>. QED BY <1>0, <4>1, <4>2 DEF TypeOK
    <3>2. CASE ~Readable(b)
      BY <1>0, <1>3, <3>2 DEF Decode, TypeOK
    <3>. QED BY <3>1, <3>2
  <2>3. at' \in [Threads -> Blocks \cup {Idle, Gone}]
    BY <1>0, <1>3 DEF Decode, TypeOK
  <2>. QED BY <1>0, <1>3, <2>1, <2>2, <2>3, SameCut DEF Decode, TypeOK
<1>4. CASE Join
  <2>1. UNCHANGED <<height, zip>> /\ end' \in Nat
    BY <1>0, <1>4, Plain, Sizes DEF Join
  <2>. QED BY <1>0, <1>4, <2>1, SameCut DEF Join, TypeOK
<1>5. CASE LayOut
  <2>1. UNCHANGED <<height, zip>> /\ next \in Blocks
    <3>1. next < BlockCount
      BY <1>5 DEF Inv, LaidOut, LayOut
    <3>. QED BY <1>0, <1>5, <3>1, Plain DEF LayOut, TypeOK
  <2>2. data[next].length \in Nat
    BY <1>0, <2>1, Sizes DEF TypeOK
  <2>3. end' \in Nat /\ offsets' \in [Blocks -> Nat] /\ next' \in Nat
    <3>1. end \in Nat /\ offsets \in [Blocks -> Nat] /\ next \in Nat
      BY <1>0 DEF TypeOK
    <3>2. /\ offsets' = [offsets EXCEPT ![next] = end] /\ next' = next + 1
          /\ end' = end + BlockHead + data[next].length
      BY <1>5 DEF LayOut
    <3>3. offsets' \in [Blocks -> Nat]
      BY <3>1, <3>2
    <3>. DEFINE n == data[next].length
    <3>4. n \in Nat /\ BlockHead \in Nat
      BY <2>2, Sizes
    <3>. HIDE DEF n
    <3>5. end + BlockHead + n \in Nat
      BY <3>1, <3>4
    <3>. QED BY <3>1, <3>2, <3>3, <3>5 DEF n
  <2>. QED BY <1>0, <1>5, <2>1, <2>3, SameCut DEF LayOut, TypeOK
<1>6. CASE Write \/ ReadFails \/ Finish
  BY <1>0, <1>6, SameCut DEF Write, ReadFails, Finish, TypeOK
<1>7. CASE ReadTable
  <2>1. at' \in [Threads -> Blocks \cup {Idle, Gone}]
    BY <1>7 DEF ReadTable, Started
  <2>. QED BY <1>0, <1>7, <2>1, SameCut DEF ReadTable, TypeOK
<1>8. CASE UNCHANGED vars
  BY <1>0, <1>8, SameCut DEF vars, TypeOK
<1>. QED BY <1>1, <1>2, <1>3, <1>4, <1>5, <1>6, <1>7, <1>8 DEF Next, Main, Worker

LEMMA CountedNext == ASSUME Inv, TypeOK', [Next]_vars PROVE Counted' /\ NeverShared'
<1>. USE DEF saved
<1>0. TypeOK /\ Counted /\ NeverShared
  BY DEF Inv
<1>. DEFINE C == BlockCount
<1>1. ASSUME NEW t \in Threads, Claim(t) PROVE Counted' /\ NeverShared'
  <2>1. /\ BlockCount' = C /\ Blocks' = Blocks /\ C \in Nat /\ next \in Nat
        /\ \A b \in Blocks : b \in Nat /\ b < C
    BY <1>0, <1>1, Plain, SameCut DEF Claim, TypeOK
  <2>2. /\ \A u \in Threads : u # t => at'[u] = at[u]
        /\ at'[t] = IF next < C THEN next ELSE Gone
        /\ next' = next + 1 /\ pc' = pc /\ pc \in {"encode", "decode"}
    BY <1>0, <1>1 DEF Claim, TypeOK
  <2>. HIDE DEF C
  <2>3. Counted'
    <3>1. ASSUME NEW u \in Threads, at'[u] \in Blocks PROVE at'[u] < next'
      BY <1>0, <2>1, <2>2, <3>1, NoBlock DEF Counted
    <3>2. ASSUME NEW u \in Threads, at'[u] = Gone, u <= C PROVE next' >= C
      <4>1. CASE u = t
        BY <2>1, <2>2, <3>2, <4>1 DEF Gone
      <4>2. CASE u # t
        BY <1>0, <2>1, <2>2, <3>2, <4>2 DEF Counted, C
      <4>. QED BY <4>1, <4>2
    <3>. QED BY <2>1, <2>2, <3>1, <3>2 DEF Counted
  <2>4. NeverShared'
    BY <1>0, <2>1, <2>2, NoBlock DEF Counted, NeverShared
  <2>. QED BY <2>3, <2>4
<1>2. ASSUME NEW t \in Threads, Encode(t) \/ Decode(t) PROVE Counted' /\ NeverShared'
  <2>1. BlockCount' = C /\ Blocks' = Blocks /\ next' = next /\ pc' = pc
    BY <1>2, SameCut DEF Encode, Decode
  <2>2. at' = [at EXCEPT ![t] = Idle]
    BY <1>2 DEF Encode, Decode
  <2>3. \A u \in Threads : at'[u] = IF u = t THEN Idle ELSE at[u]
    BY <1>0, <2>2 DEF TypeOK
  <2>. QED BY <1>0, <2>1, <2>3, NoBlock DEF Counted, NeverShared
<1>3. CASE Join
  <2>1. /\ \A t \in Threads : at'[t] = Gone
        /\ pc' = "layout"
    BY <1>3 DEF Join, Joined
  <2>2. Blocks' = Blocks
    BY <1>3, SameCut DEF Join
  <2>. QED BY <2>1, <2>2, NoBlock DEF Counted, NeverShared
<1>4. CASE LayOut \/ Write \/ ReadFails \/ Finish
  <2>1. /\ Blocks' = Blocks /\ at' = at
        /\ pc' \notin {"encode", "decode"}
    BY <1>4, SameCut DEF LayOut, Write, ReadFails, Finish
  <2>2. \A t \in Threads : at[t] \notin Blocks
    BY <1>0, <1>4, NoBlock DEF LayOut, Write, ReadFails, Finish, Counted, Joined
  <2>. QED BY <2>1, <2>2 DEF Counted, NeverShared
<1>5. CASE ReadTable
  <2>1. Blocks' = Blocks /\ BlockCount' = C /\ at' = Started /\ next' = 0
    BY <1>5, SameCut DEF ReadTable
  <2>2. \A t \in Threads : at'[t] = IF t <= C THEN Idle ELSE Gone
    BY <2>1 DEF Started
  <2>. QED BY <2>1, <2>2, NoBlock DEF Counted, NeverShared
<1>6. CASE UNCHANGED vars
  BY <1>0, <1>6, SameCut DEF vars, Counted, NeverShared
<1>. QED BY <1>1, <1>2, <1>3, <1>4, <1>5, <1>6 DEF Next, Main, Worker
-------------------------------------------------------------------------------
\* When all threads have left, no block is left.
LEMMA AllDone == ASSUME TypeOK, Counted, Joined, pc \in {"encode", "decode"}
                 PROVE  next >= BlockCount /\ \A b \in Blocks : ~Busy(b)
<1>1. 1 \in Threads /\ 1 <= BlockCount
  BY Plain, Sizes DEF Threads
<1>2. next >= BlockCount
  BY <1>1 DEF Counted, Joined
<1>. QED BY <1>2, NoBlock DEF Joined, Busy

LEMMA EncodedNext == ASSUME Inv, TypeOK', [Next]_vars PROVE Encoded'
<1>. USE DEF saved
<1>0. TypeOK /\ Counted /\ Encoded
  BY DEF Inv
<1>1. ASSUME NEW t \in Threads, Claim(t) PROVE Encoded'
  <2>1. /\ Blocks' = Blocks /\ NumScanlines' = NumScanlines /\ BlockCount' = BlockCount
        /\ data' = data /\ pc' = pc /\ next' = next + 1 /\ next \in Nat
    BY <1>0, <1>1, SameCut DEF Claim, TypeOK
  <2>2. /\ \A u \in Threads : u # t => at'[u] = at[u]
        /\ at'[t] = IF next < BlockCount THEN next ELSE Gone
        /\ at[t] = Idle
    BY <1>0, <1>1 DEF Claim, TypeOK
  <2>3. \A b \in Blocks : EncodedBlock(b)' <=> EncodedBlock(b)
    BY <2>1 DEF EncodedBlock
  <2>4. ASSUME NEW b \in Blocks, Busy(b) PROVE Busy(b)'
    BY <2>2, <2>4, NoBlock DEF Busy
  <2>6. ASSUME pc = "encode", NEW b \in Blocks, b < next + 1
        PROVE  Busy(b)' \/ EncodedBlock(b)
    <3>1. CASE b < next
      BY <1>0, <2>4, <2>6, <3>1 DEF Encoded
    <3>2. CASE ~(b < next)
      <4>1. b = next /\ next < BlockCount
        BY <1>0, <2>1, <2>6, <3>2, Plain
      <4>. QED BY <2>2, <4>1 DEF Busy
    <3>. QED BY <3>1, <3>2
  <2>. QED BY <1>0, <2>1, <2>3, <2>6 DEF Encoded
<1>2. ASSUME NEW t \in Threads, Encode(t) PROVE Encoded'
  <2>0. PICK b \in Blocks : b = at[t]
    BY <1>2 DEF Encode
  <2>1. /\ Blocks' = Blocks /\ NumScanlines' = NumScanlines
        /\ pc' = pc /\ next' = next /\ pc = "encode"
    BY <1>2, SameCut DEF Encode
  <2>2. PICK n \in Lengths(NumScanlines * b) :
          data' = [data EXCEPT ![b] = [first |-> NumScanlines * b, length |-> n]]
    BY <1>2, <2>0 DEF Encode
  <2>3. n > 0
    BY <1>0, <2>2, LengthBound, Sizes
  <2>4. EncodedBlock(b)'
    BY <1>0, <2>1, <2>2, <2>3 DEF EncodedBlock, TypeOK
  <2>5. \A c \in Blocks : c # b => (EncodedBlock(c)' <=> EncodedBlock(c))
    BY <1>0, <2>1, <2>2 DEF EncodedBlock, TypeOK
  <2>6. \A u \in Threads : at[u] # b => at'[u] = at[u]
    BY <1>0, <1>2, <2>0 DEF Encode, TypeOK
  <2>7. \A c \in Blocks : c # b /\ Busy(c) => Busy(c)'
    BY <2>6 DEF Busy
  <2>. QED BY <1>0, <2>1, <2>4, <2>5, <2>7 DEF Encoded
<1>3. CASE Join
  <2>1. \A b \in Blocks : EncodedBlock(b)
    <3>1. next >= BlockCount /\ (\A b \in Blocks : ~Busy(b))
      BY <1>0, <1>3, AllDone DEF Join
    <3>2. ASSUME NEW b \in Blocks PROVE b < next
      <4>1. next \in Nat
        BY <1>0 DEF TypeOK
      <4>2. b \in Nat /\ b < BlockCount /\ BlockCount \in Nat
        BY <1>0, Plain
      <4>. QED BY <3>1, <4>1, <4>2
    <3>3. \A b \in Blocks : b < next => Busy(b) \/ EncodedBlock(b)
      BY <1>0, <1>3 DEF Join, Encoded
    <3>. QED BY <3>1, <3>2, <3>3
  <2>. QED BY <1>3, <2>1, SameCut DEF Join, Encoded, EncodedBlock
<1>4. ASSUME UNCHANGED <<height, zip, data>>, pc # "encode", pc' # "encode"
      PROVE  Encoded'
  BY <1>0, <1>4, SameCut DEF Encoded, EncodedBlock
<1>5. ASSUME NEW t \in Threads, Decode(t) PROVE Encoded'
  BY <1>4, <1>5 DEF Decode
<1>6. CASE LayOut \/ Write \/ ReadFails \/ ReadTable \/ Finish
  BY <1>4, <1>6 DEF LayOut, Write, ReadFails, ReadTable, Finish
<1>7. CASE UNCHANGED vars
  BY <1>0, <1>7, SameCut DEF vars, Encoded, EncodedBlock, Busy
<1>. QED BY <1>1, <1>2, <1>3, <1>5, <1>6, <1>7 DEF Next, Main, Worker

LEMMA LaidOutNext == ASSUME Inv, TypeOK', [Next]_vars PROVE LaidOut'
<1>. USE DEF saved
<1>0. TypeOK /\ Encoded /\ LaidOut /\ BlockCount \in Nat \ {0}
  BY Plain DEF Inv
<1>1. ASSUME UNCHANGED <<height, zip, offsets, data, end>>,
             pc \notin {"encode", "layout"} <=> pc' \notin {"encode", "layout"},
             pc' = "layout" => pc = "layout" /\ next' = next
      PROVE  LaidOut'
  BY <1>0, <1>1, SameCut DEF LaidOut, EndOf
<1>2. CASE Join
  <2>1. BlockCount' = BlockCount /\ TableEnd' = TableEnd /\ Blocks' = Blocks
    BY <1>2, SameCut DEF Join
  <2>2. pc' = "layout" /\ next' = 0 /\ end' = TableEnd
    BY <1>2 DEF Join, TableEnd
  <2>3. TableEnd \in Nat
    BY <1>0, Sizes DEF TableEnd
  <2>4. \A b \in Blocks : ~(b < 0)
    BY <1>0, Plain
  <2>. QED BY <1>0, <2>1, <2>2, <2>3, <2>4 DEF LaidOut
<1>3. CASE LayOut
  <2>0. PICK i \in Blocks : i = next
    BY <1>0, <1>3, Plain DEF LayOut, LaidOut, TypeOK
  <2>1. /\ BlockCount' = BlockCount /\ TableEnd' = TableEnd /\ Blocks' = Blocks
        /\ next' = i + 1 /\ data' = data
        /\ pc' = IF i + 1 < BlockCount THEN "layout" ELSE "write"
    BY <1>3, <2>0, SameCut DEF LayOut
  <2>2. /\ i \in Nat /\ end \in Nat /\ TableEnd \in Nat /\ BlockHead \in Nat \ {0}
        /\ end >= TableEnd /\ i < BlockCount
        /\ \A b \in Blocks : b \in Nat /\ b < BlockCount /\ (b < i => EndOf(b) <= end)
    <3>1. TableEnd \in Nat
      BY <1>0, Sizes DEF TableEnd
    <3>2. /\ end >= TableEnd /\ i < BlockCount
          /\ \A b \in Blocks : b < i => EndOf(b) <= end
      BY <1>0, <1>3, <2>0 DEF LaidOut, LayOut
    <3>. QED BY <1>0, <2>0, <3>1, <3>2, Plain, Sizes DEF TypeOK
  <2>3. \A b \in Blocks : data[b].length \in Nat /\ offsets[b] \in Nat
    BY <1>0, Sizes DEF TypeOK
  <2>4. /\ \A b \in Blocks : b # i => EndOf(b)' = EndOf(b)
        /\ EndOf(i)' = end + BlockHead + data[i].length
        /\ end' = end + BlockHead + data[i].length
    BY <1>0, <1>3, <2>0, <2>1 DEF LayOut, EndOf, TypeOK
  <2>. DEFINE n == data[i].length
  <2>5. n \in Nat
    BY <2>3
  <2>. HIDE DEF n
  <2>6. end' = EndOf(i)' /\ end' > end /\ end' > TableEnd /\ end' \in Nat
    BY <2>2, <2>4, <2>5 DEF n
  <2>7. \A b \in Blocks : b # i => EndOf(b) \in Nat
    BY <2>2, <2>3 DEF EndOf
  <2>8. \A b \in Blocks : b < i + 1 => EndOf(b)' <= end'
    BY <2>2, <2>4, <2>6, <2>7
  <2>9. CASE i + 1 < BlockCount
    <3>1. pc' = "layout" /\ end' >= TableEnd'
      BY <2>1, <2>2, <2>6, <2>9
    <3>. QED BY <2>1, <2>8, <2>9, <3>1 DEF LaidOut
  <2>10. CASE ~(i + 1 < BlockCount)
    <3>1. i = BlockCount - 1 /\ \A b \in Blocks : b < i + 1
      BY <1>0, <2>2, <2>10
    <3>2. end' = EndOf(BlockCount - 1)'
      BY <2>1, <2>6, <3>1 DEF EndOf
    <3>. QED BY <2>1, <2>6, <2>8, <2>10, <3>1, <3>2 DEF LaidOut
  <2>. QED BY <2>9, <2>10
<1>4. ASSUME NEW t \in Threads, Worker(t) PROVE LaidOut'
  BY <1>1, <1>4, <1>0, SameCut DEF Worker, Claim, Encode, Decode, LaidOut
<1>5. CASE Write \/ ReadFails \/ ReadTable \/ Finish
  BY <1>1, <1>5 DEF Write, ReadFails, ReadTable, Finish
<1>6. CASE UNCHANGED vars
  BY <1>1, <1>6 DEF vars
<1>. QED BY <1>2, <1>3, <1>4, <1>5, <1>6 DEF Next, Main
-------------------------------------------------------------------------------
\* A block that cannot be read lies beyond the end of the file.
LEMMA Unreadable == ASSUME TypeOK, Encoded, LaidOut, pc \notin {"encode", "layout"},
                           NEW b \in Blocks
                    PROVE  /\ Readable(b) => EndOf(b) <= size
                           /\ ~Readable(b) => size < end
<1>1. EndOf(b) <= end /\ data[b].length > 0
  BY DEF Encoded, EncodedBlock, LaidOut
<1>2. data[b].length \in Nat /\ offsets[b] \in Nat /\ size \in Nat /\ end \in Nat
  BY Sizes DEF TypeOK
<1>. DEFINE n == data[b].length  o == offsets[b]
<1>. HIDE DEF n, o
<1>3. EndOf(b) = o + BlockHead + n /\ BlockHead \in Nat
  BY Sizes DEF EndOf, n, o
<1>4. Readable(b) <=> o + BlockHead <= size /\ n <= size - (o + BlockHead) /\ n # 0
  BY DEF Readable, n, o
<1>. QED BY <1>1, <1>2, <1>3, <1>4 DEF n, o

LEMMA DecodedNext == ASSUME Inv, TypeOK', [Next]_vars PROVE Decoded'
<1>. USE DEF saved
<1>0. TypeOK /\ Encoded /\ LaidOut /\ Decoded
  BY DEF Inv
<1>1. ASSUME UNCHANGED <<height, invalid, line>>, pc' # "decode",
             pc' \in {"encode", "layout", "write", "read"} =>
               pc \in {"encode", "layout", "write", "read"}
      PROVE  Decoded'
  BY <1>0, <1>1 DEF Decoded
<1>2. ASSUME NEW t \in Threads, Claim(t) PROVE Decoded'
  <2>1. CASE pc # "decode"
    BY <1>0, <1>1, <1>2, <2>1 DEF Claim
  <2>2. CASE pc = "decode"
    <3>1. /\ Blocks' = Blocks /\ NumScanlines' = NumScanlines /\ height' = height
          /\ line' = line /\ invalid' = invalid /\ size' = size /\ end' = end /\ pc' = pc
          /\ data' = data /\ offsets' = offsets
          /\ next' = next + 1 /\ next \in Nat
      BY <1>0, <1>2, SameCut DEF Claim, TypeOK
    <3>2. /\ \A u \in Threads : u # t => at'[u] = at[u]
          /\ at'[t] = IF next < BlockCount THEN next ELSE Gone
          /\ at[t] = Idle
      BY <1>0, <1>2 DEF Claim, TypeOK
    <3>3. \A b \in Blocks : /\ DecodedBlock(b)' <=> DecodedBlock(b)
                            /\ Readable(b)' <=> Readable(b)
      <4>1. ASSUME NEW b \in Blocks PROVE DecodedBlock(b)' <=> DecodedBlock(b)
        BY <3>1 DEF DecodedBlock
      <4>2. ASSUME NEW b \in Blocks PROVE Readable(b)' <=> Readable(b)
        BY <3>1 DEF Readable
      <4>. QED BY <4>1, <4>2
    <3>4. ASSUME NEW b \in Blocks, Busy(b) PROVE Busy(b)'
      BY <3>2, <3>4, NoBlock DEF Busy
    <3>5. ASSUME NEW b \in Blocks, b < next + 1
          PROVE  Busy(b)' \/ (Readable(b) /\ DecodedBlock(b)) \/ invalid
      <4>1. CASE b < next
        BY <1>0, <2>2, <3>4, <3>5, <4>1 DEF Decoded
      <4>2. CASE ~(b < next)
        <5>1. b = next /\ next < BlockCount
          BY <1>0, <3>1, <3>5, <4>2, Plain
        <5>. QED BY <3>2, <5>1 DEF Busy
      <4>. QED BY <4>1, <4>2
    <3>6. (invalid => size < end) /\ \A l \in 0..height-1 : line[l] \in {Unread, l}
      BY <1>0, <2>2 DEF Decoded
    <3>7. \A b \in Blocks : b < next + 1 =>
            Busy(b)' \/ (Readable(b)' /\ DecodedBlock(b)') \/ invalid'
      BY <3>1, <3>3, <3>5
    <3>. QED BY <2>2, <3>1, <3>6, <3>7 DEF Decoded
  <2>. QED BY <2>1, <2>2
<1>3. ASSUME NEW t \in Threads, Encode(t) PROVE Decoded'
  BY <1>1, <1>3 DEF Encode
<1>4. ASSUME NEW t \in Threads, Decode(t) PROVE Decoded'
  <2>0. PICK b \in Blocks : b = at[t]
    BY <1>4 DEF Decode
  <2>1. /\ Blocks' = Blocks /\ NumScanlines' = NumScanlines /\ height' = height
        /\ size' = size /\ end' = end /\ pc = "decode" /\ pc' = pc /\ next' = next
        /\ data' = data /\ offsets' = offsets
    BY <1>4, SameCut DEF Decode
  <2>2. \A u \in Threads : at[u] # b => at'[u] = at[u]
    BY <1>0, <1>4, <2>0 DEF Decode, TypeOK
  <2>3. \A c \in Blocks : c # b /\ Busy(c) => Busy(c)'
    BY <2>2 DEF Busy
  <2>4. \A c \in Blocks : Readable(c)' <=> Readable(c)
    BY <2>1 DEF Readable
  <2>5. data[b].first = NumScanlines * b
    BY <1>0, <2>1 DEF Encoded, EncodedBlock
  <2>6. \A l \in 0..height-1 : line[l] \in {Unread, l}
    BY <1>0 DEF Decoded
  <2>7. CASE Readable(b)
    <3>1. /\ line' = [l \in 0..height-1 |->
                      IF l - Target(b) \in 0..NumLines(data[b].first)-1
                      THEN data[b].first + (l - Target(b)) ELSE line[l]]
          /\ invalid' = invalid
      BY <1>4, <2>0, <2>7 DEF Decode
    <3>2. ASSUME NEW l \in 0..height-1
          PROVE line'[l] = IF NumScanlines * b <= l /\ l < NumScanlines * b + NumScanlines
                           THEN l ELSE line[l]
      <4>1. Target(b) = data[b].first /\ data[b].first \in Nat
        <5>1. data[b].first \in 0..height-1 /\ height \in Nat
          BY <1>0, Plain DEF TypeOK
        <5>2. Target(b) = data[b].first
          BY <1>0, <2>5, DecodedLines
        <5>. QED BY <5>1, <5>2
      <4>2. data[b].first + (l - Target(b)) = l
        BY <4>1
      <4>3. l - Target(b) \in 0..NumLines(data[b].first)-1
              <=> NumScanlines * b <= l /\ l < NumScanlines * b + NumScanlines
        BY <1>0, <2>5, DecodedLines
      <4>. QED BY <3>1, <4>2, <4>3
    <3>3. \A l \in 0..height-1 : line'[l] \in {Unread, l}
      BY <2>6, <3>2
    <3>4. DecodedBlock(b)'
      BY <2>1, <3>2 DEF DecodedBlock
    <3>5. \A c \in Blocks : DecodedBlock(c) => DecodedBlock(c)'
      BY <2>1, <3>2 DEF DecodedBlock
    <3>6. ASSUME NEW c \in Blocks, c < next
          PROVE  Busy(c)' \/ (Readable(c)' /\ DecodedBlock(c)') \/ invalid'
      <4>1. CASE c = b
        BY <2>4, <2>7, <3>4, <4>1
      <4>2. CASE c # b
        BY <1>0, <2>1, <2>3, <2>4, <3>1, <3>5, <3>6, <4>2 DEF Decoded
      <4>. QED BY <4>1, <4>2
    <3>7. invalid' => size' < end'
      BY <1>0, <2>1, <3>1 DEF Decoded
    <3>. QED BY <2>1, <3>3, <3>6, <3>7 DEF Decoded
  <2>8. CASE ~Readable(b)
    <3>1. invalid' = TRUE /\ line' = line
      BY <1>4, <2>0, <2>8 DEF Decode
    <3>2. size < end
      BY <1>0, <2>1, <2>8, Unreadable
    <3>. QED BY <2>1, <2>6, <3>1, <3>2 DEF Decoded
  <2>. QED BY <2>7, <2>8
<1>5. CASE ReadTable
  <2>1. /\ Blocks' = Blocks /\ next' = 0 /\ ~invalid' /\ line' = line /\ height' = height
        /\ pc' = "decode"
    BY <1>0, <1>5, SameCut DEF ReadTable, Decoded
  <2>2. \A b \in Blocks : ~(b < 0)
    BY <1>0, Plain
  <2>. QED BY <1>0, <2>1, <2>2 DEF Decoded
<1>6. CASE Join \/ LayOut \/ Write \/ ReadFails \/ Finish
  BY <1>1, <1>6 DEF Join, LayOut, Write, ReadFails, Finish
<1>7. CASE UNCHANGED vars
  BY <1>0, <1>7, SameCut DEF vars, Decoded, DecodedBlock, Readable, Busy
<1>. QED BY <1>2, <1>3, <1>4, <1>5, <1>6, <1>7 DEF Next, Main, Worker

LEMMA OutcomeNext == ASSUME Inv, TypeOK', [Next]_vars PROVE Outcome'
<1>. USE DEF saved
<1>0. TypeOK /\ Counted /\ Encoded /\ LaidOut /\ Decoded /\ Outcome /\ BlockCount \in Nat \ {0}
  BY Plain DEF Inv
<1>1. ASSUME pc' \notin {"loaded", "failed"} PROVE Outcome'
  BY <1>1 DEF Outcome, RoundTrip, TruncatedRefused, CompleteLoads
<1>2. ASSUME NEW t \in Threads, Worker(t) PROVE Outcome'
  BY <1>1, <1>2 DEF Worker, Claim, Encode, Decode
<1>3. CASE Join \/ LayOut \/ Write \/ ReadTable
  BY <1>1, <1>3 DEF Join, LayOut, Write, ReadTable
<1>4. CASE ReadFails
  <2>1. pc = "read" /\ ~TableReadable /\ pc' = "failed" /\ size' = size /\ end' = end
    BY <1>4 DEF ReadFails
  <2>2. size < end
    <3>1. end > TableEnd /\ \A b \in Blocks : EndOf(b) <= end
      BY <1>0, <2>1 DEF LaidOut
    <3>2. size \in Nat /\ end \in Nat /\ TableEnd \in Nat /\ TableEnd >= HeaderSize
      <4>1. BlockCount * EntrySize \in Nat
        BY <1>0, Sizes
      <4>2. TableEnd \in Nat /\ TableEnd >= HeaderSize
        BY <4>1, Sizes DEF TableEnd
      <4>. QED BY <1>0, <4>2 DEF TypeOK
    <3>3. CASE ~(size >= HeaderSize)
      BY <3>1, <3>2, <3>3, Sizes
    <3>4. ASSUME NEW b \in Blocks, ~(HeaderSize + (b + 1) * EntrySize < size) PROVE size < end
      <4>1. b \in Nat /\ b + 1 <= BlockCount
        BY <1>0, Plain
      <4>2. EntrySize * (b + 1) <= EntrySize * BlockCount
        BY <1>0, <4>1, Monotone, Sizes
      <4>3. /\ (b + 1) * EntrySize = EntrySize * (b + 1)
            /\ BlockCount * EntrySize = EntrySize * BlockCount
        BY <1>0, <4>1, Sizes
      <4>. DEFINE x == EntrySize * (b + 1)  y == EntrySize * BlockCount
      <4>4. x \in Nat /\ y \in Nat /\ TableEnd = HeaderSize + y
        BY <1>0, <4>1, <4>3, Sizes DEF TableEnd
      <4>5. x <= y /\ ~(HeaderSize + x < size)
        BY <3>4, <4>2, <4>3
      <4>. HIDE DEF x, y
      <4>. QED BY <3>1, <3>2, <4>4, <4>5, Sizes
    <3>5. ASSUME NEW b \in Blocks, ~(offsets[b] < size) PROVE size < end
      <4>1. /\ EndOf(b) = offsets[b] + BlockHead + data[b].length
            /\ data[b].length \in Nat /\ offsets[b] \in Nat
        BY <1>0, Sizes DEF EndOf, TypeOK
      <4>. DEFINE n == data[b].length
      <4>. HIDE DEF n
      <4>. QED BY <3>1, <3>2, <3>5, <4>1, Sizes DEF n
    <3>. QED BY <2>1, <3>3, <3>4, <3>5 DEF TableReadable
  <2>. QED BY <2>1, <2>2 DEF Outcome, RoundTrip, TruncatedRefused, CompleteLoads
<1>5. CASE Finish
  <2>1. /\ pc = "decode" /\ Joined /\ pc' = IF invalid THEN "failed" ELSE "loaded"
        /\ size' = size /\ end' = end /\ line' = line /\ height' = height
    BY <1>5 DEF Finish
  <2>2. CASE invalid
    <3>1. size < end
      BY <1>0, <2>1, <2>2 DEF Decoded
    <3>. QED BY <2>1, <2>2, <3>1 DEF Outcome, RoundTrip, TruncatedRefused, CompleteLoads
  <2>3. CASE ~invalid
    <3>1. \A b \in Blocks : Readable(b) /\ DecodedBlock(b)
      <4>1. next >= BlockCount /\ (\A b \in Blocks : ~Busy(b))
        BY <1>0, <2>1, AllDone
      <4>2. ASSUME NEW b \in Blocks PROVE b < next
        <5>1. next \in Nat
          BY <1>0 DEF TypeOK
        <5>2. b \in Nat /\ b < BlockCount /\ BlockCount \in Nat
          BY <1>0, Plain
        <5>. QED BY <4>1, <5>1, <5>2
      <4>3. \A b \in Blocks : b < next => (Busy(b) \/ (Readable(b) /\ DecodedBlock(b)) \/ invalid)
        BY <1>0, <2>1 DEF Decoded
      <4>. QED BY <2>3, <4>1, <4>2, <4>3
    <3>2. ~(size < end)
      <4>1. PICK b \in Blocks : b = BlockCount - 1
        BY <1>0, Plain
      <4>2. EndOf(b) = end /\ EndOf(b) <= size
        BY <1>0, <2>1, <3>1, <4>1, Unreadable DEF LaidOut
      <4>. QED BY <1>0, <4>2 DEF TypeOK
    <3>3. ASSUME NEW l \in 0..height-1 PROVE line[l] = l
      <4>1. PICK b \in Blocks : NumScanlines * b <= l /\ l < NumScanlines * b + NumScanlines
        BY <1>0, Cut
      <4>. QED BY <3>1, <4>1 DEF DecodedBlock
    <3>4. DOMAIN line = 0..height-1
      BY <1>0 DEF TypeOK
    <3>. QED BY <2>1, <2>3, <3>2, <3>3, <3>4
             DEF Outcome, RoundTrip, TruncatedRefused, CompleteLoads
  <2>. QED BY <2>2, <2>3
<1>6. CASE UNCHANGED vars
  BY <1>0, <1>6 DEF vars, Outcome, RoundTrip, TruncatedRefused, CompleteLoads
<1>. QED BY <1>2, <1>3, <1>4, <1>5, <1>6 DEF Next, Main

LEMMA NextInv == Inv /\ [Next]_vars => Inv'
<1>. SUFFICES ASSUME Inv, [Next]_vars PROVE Inv'
  OBVIOUS
<1>1. TypeOK'
  BY TypeNext
<1>. QED BY <1>1, CountedNext, EncodedNext, LaidOutNext, DecodedNext, OutcomeNext DEF Inv

LEMMA Invariance == Spec => []Inv
BY InitInv, NextInv, PTL DEF Spec
-------------------------------------------------------------------------------
\* All variables keep their types; no thread is ever at a block that is not one of
\* the image (tinyexr.h:6843).
THEOREM TypeCorrect == Spec => []TypeOK
<1>1. Inv => TypeOK
  BY DEF Inv
<1>. QED BY <1>1, Invariance, PTL

\* However many threads there are, no two of them are at one block: data_list[i] and
\* the lines of the image are written without a lock (tinyexr.h:6843, 5006).
THEOREM Exclusive == Spec => []NeverShared
<1>1. Inv => NeverShared
  BY DEF Inv
<1>. QED BY <1>1, Invariance, PTL

\* An image that loads is the one that was saved, for all heights and block sizes and
\* in whatever order the threads took the blocks (tinyexr.h:6853, 5049).
THEOREM LoadsWhatWasSaved == Spec => []RoundTrip
<1>1. Inv => RoundTrip
  BY DEF Inv, Outcome
<1>. QED BY <1>1, Invariance, PTL

\* No first part of a file loads, wherever it was cut off, and a complete one is never
\* refused (tinyexr.h:5018, 5036, 5637).
THEOREM WholeOrRefused == Spec => []LoadsIfWhole
<1>1. Inv => LoadsIfWhole
  BY DEF Inv, Outcome, LoadsIfWhole
<1>. QED BY <1>1, Invariance, PTL
===============================================================================
