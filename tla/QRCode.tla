-------------------------------- MODULE QRCode --------------------------------
(***************************************************************************)
(* internal/qr: the QR code of a payment request, in byte mode, level L,    *)
(* versions 1 to 20.  A bit buffer is a sequence of bits, a matrix a        *)
(* function from rows to functions from columns to TRUE (dark) or FALSE.    *)
(* The scoring of the masks is by the runs, blocks and patterns that the    *)
(* loops of the code count.  The PNG is left out.                           *)
(***************************************************************************)
EXTENDS Integers, Sequences, FiniteSets, Bitwise, FiniteSetsExt, SequencesExt

totalCodewords == <<26, 44, 70, 100, 134, 172, 196, 242, 292, 346,
                    404, 466, 532, 581, 655, 733, 815, 901, 991, 1085>>
ecPerBlock == <<7, 10, 15, 20, 26, 18, 20, 24, 30, 18,
                20, 24, 26, 30, 22, 24, 28, 30, 28, 28>>
blocks == <<1, 1, 1, 1, 1, 2, 2, 2, 2, 4, 4, 4, 4, 4, 6, 6, 6, 6, 7, 8>>
alignCenters ==
    <<{}, {6, 18}, {6, 22}, {6, 26}, {6, 30}, {6, 34},
      {6, 22, 38}, {6, 24, 42}, {6, 26, 46}, {6, 28, 50}, {6, 30, 54}, {6, 32, 58},
      {6, 34, 62}, {6, 26, 46, 66}, {6, 26, 48, 70}, {6, 26, 50, 74},
      {6, 30, 54, 78}, {6, 30, 56, 82}, {6, 30, 58, 86}, {6, 34, 62, 90}>>

Versions == 1 .. 20
dataCodewords(v) == totalCodewords[v] - ecPerBlock[v] * blocks[v]
countBits(v) == IF v >= 10 THEN 16 ELSE 8
capacity(v) == dataCodewords(v) - 1 - countBits(v) \div 8

-----------------------------------------------------------------------------
(* GF(256) and Reed-Solomon                                                 *)

Nibbles == [a \in 0 .. 15 |-> [b \in 0 .. 15 |-> a ^^ b]]
XorByte(a, b) == 16 * Nibbles[a \div 16][b \div 16] + Nibbles[a % 16][b % 16]

Double(x) == IF x >= 128 THEN XorByte(2 * x - 256, 29) ELSE 2 * x

\* expTab without its second copy: the exponent is taken modulo 255.
expTab == FoldLeft(LAMBDA t, i : Append(t, Double(t[i])), <<1>>, [i \in 1 .. 254 |-> i])
Exp(i) == expTab[(i % 255) + 1]
logTab == [x \in 1 .. 255 |-> CHOOSE i \in 0 .. 254 : Exp(i) = x]

gfMul(a, b) == IF a = 0 \/ b = 0 THEN 0 ELSE Exp(logTab[a] + logTab[b])

\* The product of (x + 2^i) for i below n, highest power first.
rsGenerator(n) ==
    LET Times(g, i) ==
            Append([j \in 1 .. Len(g) |-> IF j = 1 THEN 1 ELSE XorByte(g[j], gfMul(g[j - 1], Exp(i)))],
                gfMul(Last(g), Exp(i)))
    IN  FoldLeft(Times, <<1>>, [i \in 1 .. n |-> i - 1])

\* rem after each of the data codewords.
rsEncode(data, n) ==
    LET g == rsGenerator(n)
        rem[k \in 0 .. Len(data)] ==
            IF k = 0 THEN [j \in 1 .. n |-> 0]
            ELSE LET old == rem[k - 1]
                     factor == XorByte(data[k], Head(old))
                 IN  [j \in 1 .. n |-> XorByte(IF j < n THEN old[j + 1] ELSE 0,
                                           gfMul(g[j + 1], factor))]
    IN  rem[Len(data)]

-----------------------------------------------------------------------------
(* Encode                                                                   *)

push(val, n) == [i \in 1 .. n |-> (val \div 2^(n - i)) % 2]
Bits(bytes) ==
    [i \in 1 .. 8 * Len(bytes) |-> (bytes[(i + 7) \div 8] \div 2^((8 * Len(bytes) - i) % 8)) % 2]
Byte(bits) == FoldLeft(LAMBDA a, b : 2 * a + b, 0, bits)
Pack(bits) == [i \in 1 .. Len(bits) \div 8 |-> Byte(SubSeq(bits, 8 * i - 7, 8 * i))]
Zeros(n) == [i \in 1 .. n |-> 0]

Fits(len) == {v \in Versions : len <= capacity(v)}

\* Mode, length and payload, the terminator, zeros up to a byte, pad bytes.
DataOf(data, v) ==
    LET total == dataCodewords(v)
        bits == push(4, 4) \o push(Len(data), countBits(v)) \o Bits(data)
        ended == bits \o Zeros(Min({4, total * 8 - Len(bits)}))
        whole == Pack(ended \o Zeros((8 - (Len(ended) % 8)) % 8))
    IN  whole \o [i \in 1 .. total - Len(whole) |-> IF i % 2 = 1 THEN 236 ELSE 17]

\* Block i of the data: the last blocks are one codeword longer.
Block(cw, v, i) ==
    LET nb == blocks[v]
        short == Len(cw) \div nb
        nshort == nb - (Len(cw) % nb)
        First(k) == short * (k - 1) + Max({0, (k - 1) - nshort})
    IN  SubSeq(cw, First(i) + 1, First(i + 1))

\* One codeword of each block in turn.
InTurn(bs) ==
    LET longest == Max({Len(bs[i]) : i \in DOMAIN bs})
        Row(j) == FlattenSeq([i \in DOMAIN bs |-> IF j <= Len(bs[i]) THEN <<bs[i][j]>> ELSE <<>>])
    IN  FlattenSeq([j \in 1 .. longest |-> Row(j)])

Codewords(data, v) ==
    LET cw == DataOf(data, v)
        dataBlocks == [i \in 1 .. blocks[v] |-> Block(cw, v, i)]
        ecBlocks == [i \in 1 .. blocks[v] |-> rsEncode(dataBlocks[i], ecPerBlock[v])]
    IN  InTurn(dataBlocks) \o InTurn(ecBlocks)

-----------------------------------------------------------------------------
(* The matrix                                                               *)

Size(v) == v * 4 + 17
Corners(v) == {<<0, 0>>, <<Size(v) - 7, 0>>, <<0, Size(v) - 7>>}
Dist(a, b) == Max({a - b, b - a})

InFinder(v, x, y) == \E p \in Corners(v) : x - p[1] \in -1 .. 7 /\ y - p[2] \in -1 .. 7
FinderDark(v, x, y) ==
    \E p \in Corners(v) :
        LET d == Max({Dist(x, p[1] + 3), Dist(y, p[2] + 3)}) IN d <= 3 /\ d # 2

InTiming(v, x, y) == (y = 6 /\ x \in 8 .. Size(v) - 9) \/ (x = 6 /\ y \in 8 .. Size(v) - 9)

\* The alignment patterns that do not collide with a finder.
Alignments(v) ==
    LET far == Size(v) - 7
    IN  (alignCenters[v] \X alignCenters[v]) \ {<<6, 6>>, <<6, far>>, <<far, 6>>}
AlignDist(v, x, y, c) == Max({Dist(x, c[1]), Dist(y, c[2])})
InAlignment(v, x, y) == \E c \in Alignments(v) : AlignDist(v, x, y, c) <= 2
AlignDark(v, x, y) == \E c \in Alignments(v) : AlignDist(v, x, y, c) \in {0, 2}

Strip(v) == 0 .. 8 \union Size(v) - 8 .. Size(v) - 1
InFormat(v, x, y) == (x = 8 /\ y \in Strip(v)) \/ (y = 8 /\ x \in Strip(v))

\* The remainder of bits by a generator polynomial of degree n.
Remainder(val, n, poly) ==
    FoldLeft(LAMBDA rem, i : (2 * rem) ^^ (poly * ((rem \div 2^(n - 1)) % 2)), val,
             [i \in 1 .. n |-> i])

versionBits(v) == v * 2^12 + Remainder(v, 12, 7973)
Bit(val, i) == (val \div 2^i) % 2 = 1

\* Version information from version 7 on: the number of the bit at x, y.
VersionBit(v, x, y) ==
    {i \in IF v >= 7 THEN 0 .. 17 ELSE {} :
        \/ x = i \div 3 /\ y = Size(v) - 11 + (i % 3)
        \/ y = i \div 3 /\ x = Size(v) - 11 + (i % 3)}

\* markFunctionModules: what is reserved, and what is drawn there.
Reserved(v, x, y) ==
    InFinder(v, x, y) \/ InTiming(v, x, y) \/ InAlignment(v, x, y) \/ InFormat(v, x, y)
    \/ VersionBit(v, x, y) # {}
Drawn(v, x, y) ==
    IF VersionBit(v, x, y) # {} THEN \E i \in VersionBit(v, x, y) : Bit(versionBits(v), i)
    ELSE IF InAlignment(v, x, y) THEN AlignDark(v, x, y)
    ELSE IF InTiming(v, x, y) THEN (x + y) % 2 = 0
    ELSE FinderDark(v, x, y)

Cells(v) == 0 .. Size(v) - 1

Flip(k, x, y) ==
    CASE k = 0 -> (y + x) % 2 = 0
      [] k = 1 -> y % 2 = 0
      [] k = 2 -> x % 3 = 0
      [] k = 3 -> (y + x) % 3 = 0
      [] k = 4 -> (y \div 2 + x \div 3) % 2 = 0
      [] k = 5 -> ((y * x) % 2) + ((y * x) % 3) = 0
      [] k = 6 -> (((y * x) % 2) + ((y * x) % 3)) % 2 = 0
      [] k = 7 -> (((y + x) % 2) + ((y * x) % 3)) % 2 = 0

applyMask(m, res, k) ==
    [y \in DOMAIN m |-> [x \in DOMAIN m |->
        IF res[y][x] THEN m[y][x] ELSE m[y][x] # Flip(k, x, y)]]

\* Level L and the mask, with ten check bits, masked.
formatBits(k) ==
    LET data == 8 + k IN (data * 2^10 + Remainder(data, 10, 1335)) ^^ 21522

\* Mutant: the second copy runs the other way round.
FormatBitSwapped(size, x, y) ==
    {i \in 0 .. 14 :
        \/ x = 8 /\ y = (IF i < 6 THEN i ELSE i + 1) /\ i < 8
        \/ y = 8 /\ x = (IF i = 8 THEN 7 ELSE 14 - i) /\ i >= 8
        \/ x = 8 /\ y = size - 1 - i /\ i < 7
        \/ y = 8 /\ x = size - 15 + i /\ i >= 7}

\* The bits of the format information that writeFormat puts at x, y.
FormatBit(size, x, y) ==
    {i \in 0 .. 14 :
        \/ x = 8 /\ y = (IF i < 6 THEN i ELSE i + 1) /\ i < 8
        \/ y = 8 /\ x = (IF i = 8 THEN 7 ELSE 14 - i) /\ i >= 8
        \/ y = 8 /\ x = size - 1 - i /\ i < 8
        \/ x = 8 /\ y = size - 15 + i /\ i >= 8}

writeFormat(m, k) ==
    LET size == Cardinality(DOMAIN m)
        bits == formatBits(k)
    IN  [y \in DOMAIN m |-> [x \in DOMAIN m |->
            IF x = 8 /\ y = size - 8 THEN TRUE
            ELSE IF x = 8 \/ y = 8 THEN
                LET is == FormatBit(size, x, y)
                IN  IF is = {} THEN m[y][x] ELSE \E i \in is : Bit(bits, i)
            ELSE m[y][x]]]

-----------------------------------------------------------------------------
(* penalty                                                                  *)

\* A run of five scores 3 and each further module 1.
Runs(at(_), size) ==
    MapThenSumSet(LAMBDA b : IF b > 4 /\ at(b - 5) = at(b) THEN 1 ELSE 3,
        {b \in 4 .. size - 1 : \A k \in 1 .. 4 : at(b - k) = at(b)})

Finderlike == {<<TRUE, FALSE, TRUE, TRUE, TRUE, FALSE, TRUE, FALSE, FALSE, FALSE, FALSE>>,
               <<FALSE, FALSE, FALSE, FALSE, TRUE, FALSE, TRUE, TRUE, TRUE, FALSE, TRUE>>}
Finds(at(_), size) ==
    40 * Cardinality({b \in 0 .. size - 11 :
            \E p \in Finderlike : \A i \in 1 .. 11 : at(b + i - 1) = p[i]})

penalty(m, size) ==
    LET Line(at(_)) == Runs(at, size) + Finds(at, size)
        lines == MapThenSumSet(LAMBDA a : Line(LAMBDA b : m[a][b]) + Line(LAMBDA b : m[b][a]),
                    0 .. size - 1)
        squares == Cardinality({p \in (0 .. size - 2) \X (0 .. size - 2) :
            /\ m[p[1]][p[2]] = m[p[1]][p[2] + 1]
            /\ m[p[1]][p[2]] = m[p[1] + 1][p[2]]
            /\ m[p[1]][p[2]] = m[p[1] + 1][p[2] + 1]})
        dark == MapThenSumSet(LAMBDA y : Cardinality({x \in 0 .. size - 1 : m[y][x]}), 0 .. size - 1)
        dev == Dist((dark * 100) \div (size * size), 50)
    IN  lines + 3 * squares + (dev \div 5) * 10

-----------------------------------------------------------------------------
CONSTANTS Payloads,     \* the texts to encode, sequences of bytes
          Followed      \* bound: the versions followed beyond their choice

VARIABLES pc,           \* where Encode stands
          payload,
          version,      \* 0 before one is chosen
          codewords, reserved,
          drawn,        \* the matrix before a mask is applied
          right, up, bitIdx,    \* the loops of the placement
          mask, cand,   \* the mask tried, and the matrix under it
          best, bestPenalty

encoding == <<payload, version, codewords, reserved>>
placing == <<drawn, right, up, bitIdx>>
masking == <<mask, cand, best, bestPenalty>>
vars == <<pc, encoding, placing, masking>>

NoMatrix == <<>>
Huge == 2^30        \* stands for 1<<62

Init ==
    /\ pc = "version" /\ payload \in Payloads
    /\ version = 0 /\ codewords = <<>> /\ reserved = NoMatrix
    /\ drawn = NoMatrix /\ right = 0 /\ up = TRUE /\ bitIdx = 0
    /\ mask = 0 /\ cand = NoMatrix /\ best = NoMatrix /\ bestPenalty = Huge

TooLong ==
    /\ pc = "version" /\ Fits(Len(payload)) = {}
    /\ pc' = "too long"
    /\ UNCHANGED <<encoding, placing, masking>>

\* The smallest version that holds the payload.
ChooseVersion ==
    /\ pc = "version" /\ Fits(Len(payload)) # {}
    /\ version' = Min(Fits(Len(payload)))
    /\ pc' = "encode"
    /\ UNCHANGED <<payload, codewords, reserved, placing, masking>>

\* The codewords, and the function modules of buildMatrix.
Encode ==
    /\ pc = "encode" /\ version \in Followed
    /\ codewords' = Codewords(payload, version)
    /\ reserved' = [y \in Cells(version) |-> [x \in Cells(version) |-> Reserved(version, x, y)]]
    /\ drawn' = [y \in Cells(version) |-> [x \in Cells(version) |->
                    Reserved(version, x, y) /\ Drawn(version, x, y)]]
    /\ right' = Size(version) - 1
    /\ pc' = "place"
    /\ UNCHANGED <<payload, version, up, bitIdx, masking>>

\* Two columns of the zigzag; the column of the vertical timing is skipped.
PlacePair ==
    /\ pc = "place"
    /\ LET col == IF right = 6 THEN 5 ELSE right
           size == Size(version)
           all == [n \in 1 .. 2 * size |->
                    <<col - ((n - 1) % 2), IF up THEN size - 1 - (n - 1) \div 2 ELSE (n - 1) \div 2>>]
           free == SelectSeq(all, LAMBDA c : ~reserved[c[2]][c[1]])
           Data(c) == LET k == bitIdx + (CHOOSE k \in DOMAIN free : free[k] = c)
                      IN  k <= 8 * Len(codewords) /\ Bits(codewords)[k] = 1
       IN  /\ drawn' = [y \in Cells(version) |-> [x \in Cells(version) |->
                IF x \in {col, col - 1} /\ ~reserved[y][x] THEN Data(<<x, y>>) ELSE drawn[y][x]]]
           /\ bitIdx' = bitIdx + Len(free)
           /\ right' = col - 2 /\ up' = ~up
           /\ pc' = IF col > 2 THEN "place" ELSE "mask"
    /\ UNCHANGED <<encoding, masking>>

TryMask ==
    /\ pc = "mask"
    /\ cand' = writeFormat(applyMask(drawn, reserved, mask), mask)
    /\ pc' = "score"
    /\ UNCHANGED <<encoding, placing, mask, best, bestPenalty>>

\* The first mask with the lowest penalty stays.
Score ==
    /\ pc = "score"
    /\ LET p == penalty(cand, Size(version))
       IN  IF p < bestPenalty THEN best' = cand /\ bestPenalty' = p
                              ELSE UNCHANGED <<best, bestPenalty>>
    /\ mask' = mask + 1
    /\ pc' = IF mask = 7 THEN "done" ELSE "mask"
    /\ UNCHANGED <<encoding, placing, cand>>

Next == TooLong \/ ChooseVersion \/ Encode \/ PlacePair \/ TryMask \/ Score
Spec == Init /\ [][Next]_vars

-----------------------------------------------------------------------------
(* Properties                                                               *)

Reader == INSTANCE QRReader

\* The codewords are bytes, as many as the version has; the matrix that is
\* kept has the version's size, and a penalty.
TypeOK ==
    /\ pc \in {"version", "too long", "encode", "place", "mask", "score", "done"}
    /\ mask \in 0 .. 8 /\ version \in 0 .. 20
    /\ pc \notin {"version", "too long", "encode"} =>
        Len(codewords) = totalCodewords[version] /\ ToSet(codewords) \subseteq 0 .. 255
    /\ pc = "done" => DOMAIN best = Cells(version) /\ bestPenalty \in 0 .. Huge - 1

\* For every version: the hand-typed tables of qr.go:20-37 are those of the
\* standard, and markFunctionModules reserves the modules that it settles, no more
\* and no fewer.
Layout ==
    pc = "encode" =>
        /\ {c \in Cells(version) \X Cells(version) : Reserved(version, c[1], c[2])}
             = Reader!Function(version)
        /\ Size(version)^2 - Cardinality(Reader!Function(version)) = Reader!DataModules(version)
        /\ Reader!DataModules(version) = 8 * totalCodewords[version] + Reader!LeftOver(version)
        /\ totalCodewords[version] = Reader!Total(version)
        /\ ecPerBlock[version] = Reader!Checks(version)
        /\ blocks[version] = Reader!BlockCount(version)

\* A reader gets the payload back from the matrix that buildMatrix returns, under
\* the mask it kept, and finds every pattern, both copies of the format and of the
\* version and every block of codewords without an error; the repository's round
\* trip takes the layout and the masks from the encoder and skips the rest.
Readable ==
    pc = "done" => /\ Reader!Read(best, version) = payload
                   /\ bitIdx = Reader!DataModules(version)

\* A scanner gets the payload from every code that Encode makes: the tables, the
\* patterns, the masks, the error correction and the format fit the standard.
Scannable == TypeOK /\ Layout /\ Readable
=============================================================================
