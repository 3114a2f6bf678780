------------------------------- MODULE QRReader -------------------------------
(***************************************************************************)
(* What a scanner makes of a QR code of level L, versions 1 to 20: written  *)
(* from the tables, pictures and conditions of ISO/IEC 18004, with no       *)
(* definition of the encoder (QRCode) in it.  The round trip of qr_test     *)
(* takes the reserved modules and the masks from the encoder and skips the  *)
(* error correction and the second copy of the format; this reader has its  *)
(* own and checks them.  A module is <<column, row>>; a matrix is read as   *)
(* mx[row][column], TRUE for dark.                                          *)
(***************************************************************************)
EXTENDS Integers, Sequences, FiniteSets, FiniteSetsExt, SequencesExt

Side(v) == 17 + 4 * v
Rect(col, row, width, height) == (col .. col + width - 1) \X (row .. row + height - 1)

-----------------------------------------------------------------------------
(* The patterns                                                             *)

Finder == <<<<1, 1, 1, 1, 1, 1, 1>>,
            <<1, 0, 0, 0, 0, 0, 1>>,
            <<1, 0, 1, 1, 1, 0, 1>>,
            <<1, 0, 1, 1, 1, 0, 1>>,
            <<1, 0, 1, 1, 1, 0, 1>>,
            <<1, 0, 0, 0, 0, 0, 1>>,
            <<1, 1, 1, 1, 1, 1, 1>>>>

Alignment == <<<<1, 1, 1, 1, 1>>,
               <<1, 0, 0, 0, 1>>,
               <<1, 0, 1, 0, 1>>,
               <<1, 0, 0, 0, 1>>,
               <<1, 1, 1, 1, 1>>>>

\* The dark modules of a picture whose first module is at col, row.
Inked(picture, col, row) ==
    {c \in Rect(col, row, Len(picture), Len(picture)) :
        picture[c[2] - row + 1][c[1] - col + 1] = 1}

FinderAt(v) == {<<0, 0>>, <<Side(v) - 7, 0>>, <<0, Side(v) - 7>>}

\* The first modules of the alignment patterns: a grid from the far edges in even
\* steps, of which 6 is the first line, without the corners of the finders.
AlignmentAt(v) ==
    LET n == v \div 7 + 2
        far == Side(v) - 7
        step == 2 * ((4 * v + 2 * n + 1) \div (2 * n - 2))
        lines == {6} \union {far - k * step : k \in 0 .. n - 2}
        grid == (lines \X lines) \ {<<6, 6>>, <<6, far>>, <<far, 6>>}
    IN  IF v = 1 THEN {} ELSE {<<c[1] - 2, c[2] - 2>> : c \in grid}

Timing(v) == Rect(8, 6, Side(v) - 16, 1) \union Rect(6, 8, 1, Side(v) - 16)

\* The version information from version 7 on, and its two copies, lowest bit first.
VersionInfo == <<31892, 34236, 39577, 42195, 48118, 51042, 55367, 58893,
                 63784, 68472, 70749, 76311, 79154, 84390>>
VersionCopies(v) ==
    IF v < 7 THEN {}
    ELSE {[i \in 1 .. 18 |-> <<(i - 1) \div 3, Side(v) - 11 + ((i - 1) % 3)>>],
          [i \in 1 .. 18 |-> <<Side(v) - 11 + ((i - 1) % 3), (i - 1) \div 3>>]}

\* The format information of level L for each mask, and its two copies.
LevelL == <<30660, 29427, 32170, 30877, 26159, 25368, 27713, 26998>>
FormatCopies(v) ==
    {<<<<8, 0>>, <<8, 1>>, <<8, 2>>, <<8, 3>>, <<8, 4>>, <<8, 5>>, <<8, 7>>, <<8, 8>>,
       <<7, 8>>, <<5, 8>>, <<4, 8>>, <<3, 8>>, <<2, 8>>, <<1, 8>>, <<0, 8>>>>,
     [i \in 1 .. 15 |-> IF i <= 8 THEN <<Side(v) - i, 8>> ELSE <<8, Side(v) - 16 + i>>]}

DarkModule(v) == <<8, Side(v) - 8>>

\* The modules whose colour the version settles, and the dark ones among them.
Drawing(v) ==
    Rect(0, 0, 8, 8) \union Rect(Side(v) - 8, 0, 8, 8) \union Rect(0, Side(v) - 8, 8, 8)
    \union Timing(v) \union {DarkModule(v)}
    \union UNION {Rect(p[1], p[2], 5, 5) : p \in AlignmentAt(v)}
Ink(v) ==
    UNION {Inked(Finder, p[1], p[2]) : p \in FinderAt(v)}
    \union UNION {Inked(Alignment, p[1], p[2]) : p \in AlignmentAt(v)}
    \union {c \in Timing(v) : IF c[2] = 6 THEN c[1] % 2 = 0 ELSE c[2] % 2 = 0}
    \union {DarkModule(v)}

\* The modules that carry no codeword.
Function(v) ==
    Drawing(v) \union UNION {ToSet(cells) : cells \in FormatCopies(v) \union VersionCopies(v)}

\* How many modules are left, and how many of them the codewords leave over.
DataModules(v) ==
    LET n == IF v = 1 THEN 0 ELSE v \div 7 + 2
    IN  (16 * v + 128) * v + 64 - (IF n = 0 THEN 0 ELSE (25 * n - 10) * n - 55)
        - (IF v >= 7 THEN 36 ELSE 0)
LeftOver(v) == CASE v \in 2 .. 6 -> 7 [] v \in 14 .. 20 -> 3 [] OTHER -> 0

-----------------------------------------------------------------------------
(* Reading                                                                  *)

Number(bits) == FoldLeft(LAMBDA n, dark : 2 * n + (IF dark THEN 1 ELSE 0), 0, bits)
Word(mx, cells) == Number(Reverse([i \in DOMAIN cells |-> mx[cells[i][2]][cells[i][1]]]))

\* Mask k inverts the module.
Inverts(k, col, row) ==
    CASE k = 0 -> col % 2 = row % 2
      [] k = 1 -> row % 2 = 0
      [] k = 2 -> col % 3 = 0
      [] k = 3 -> (col + row) % 3 = 0
      [] k = 4 -> (row % 4 < 2) <=> (col % 6 < 3)
      [] k = 5 -> (col * row) % 6 = 0
      [] k = 6 -> (col * row) % 6 < 3
      [] k = 7 -> (col + row) % 2 = ((col * row) % 3) % 2

\* The modules of the codewords: pairs of columns from the right, column 6 left
\* out, the pairs upwards and downwards in turn.
Order(v) ==
    LET function == Function(v)
        Cell(n) == LET pair == n \div (2 * Side(v))
                       col == Side(v) - 1 - 2 * pair - (n % 2)
                       row == (n % (2 * Side(v))) \div 2
                   IN  <<IF col <= 6 THEN col - 1 ELSE col,
                         IF pair % 2 = 0 THEN Side(v) - 1 - row ELSE row>>
    IN  SelectSeq([n \in 1 .. Side(v) * (Side(v) - 1) |-> Cell(n - 1)],
                  LAMBDA c : c \notin function)

\* The blocks of each version: how many, codewords and data codewords of each,
\* and how many more blocks of one codeword more.
Blocks == <<<<1, 26, 19, 0>>, <<1, 44, 34, 0>>, <<1, 70, 55, 0>>, <<1, 100, 80, 0>>,
            <<1, 134, 108, 0>>, <<2, 86, 68, 0>>, <<2, 98, 78, 0>>, <<2, 121, 97, 0>>,
            <<2, 146, 116, 0>>, <<2, 86, 68, 2>>, <<4, 101, 81, 0>>, <<2, 116, 92, 2>>,
            <<4, 133, 107, 0>>, <<3, 145, 115, 1>>, <<5, 109, 87, 1>>, <<5, 122, 98, 1>>,
            <<1, 135, 107, 5>>, <<5, 150, 120, 1>>, <<3, 141, 113, 4>>, <<3, 135, 107, 5>>>>
BlockCount(v) == Blocks[v][1] + Blocks[v][4]
Checks(v) == Blocks[v][2] - Blocks[v][3]
Long(v, i) == i > Blocks[v][1]
DataLength(v, i) == Blocks[v][3] + (IF Long(v, i) THEN 1 ELSE 0)
Total(v) == BlockCount(v) * Blocks[v][2] + Blocks[v][4]

\* Where the j-th codeword of block i is among the interleaved ones.
Place(v, i, j) ==
    CASE j <= Blocks[v][3] -> (j - 1) * BlockCount(v) + i
      [] j > DataLength(v, i) ->
            Total(v) - BlockCount(v) * (Checks(v) + 1 + DataLength(v, i) - j) + i
      [] OTHER -> Blocks[v][3] * BlockCount(v) + i - Blocks[v][1]

BlockBits(bits, v, i) ==
    FlattenSeq([j \in 1 .. DataLength(v, i) + Checks(v) |->
                    SubSeq(bits, 8 * Place(v, i, j) - 7, 8 * Place(v, i, j))])

\* The powers of x modulo x^8 + x^4 + x^3 + x^2 + 1, as the exponents of their terms.
TimesX(a) ==
    LET b == {n + 1 : n \in a}
        one == {8, 4, 3, 2, 0}
    IN  IF 8 \in b THEN (b \ one) \union (one \ b) ELSE b
PowersOfX == FoldLeft(LAMBDA t, n : Append(t, TimesX(t[n])), <<{0}>>, [n \in 1 .. 254 |-> n])

\* A block is a codeword of the code when its polynomial vanishes at each of the
\* first powers of x: the bit n from its end stands for x^(n % 8) * (x^k)^(n \div 8).
Vanishes(bits, k) ==
    LET dark == {n \in 0 .. Len(bits) - 1 : bits[Len(bits) - n]}
        Term(n) == PowersOfX[(((n % 8) + k * (n \div 8)) % 255) + 1]
    IN  \A e \in 0 .. 7 : Cardinality({n \in dark : e \in Term(n)}) % 2 = 0
Correct(bits, v) == \A k \in 0 .. Checks(v) - 1 : Vanishes(bits, k)

\* The bytes of the only segment, or none.
Unreadable == <<"unreadable">>
Segment(bits, v) ==
    LET data == FlattenSeq([i \in 1 .. BlockCount(v) |->
                    SubSeq(BlockBits(bits, v, i), 1, 8 * DataLength(v, i))])
        head == 4 + (IF v < 10 THEN 8 ELSE 16)
        len == Number(SubSeq(data, 5, head))
    IN  IF Number(SubSeq(data, 1, 4)) # 4 \/ head + 8 * len > Len(data) THEN Unreadable
        ELSE [n \in 1 .. len |-> Number(SubSeq(data, head + 8 * n - 7, head + 8 * n))]

\* What a scanner returns for a matrix of version v: nothing unless the patterns
\* are there, all copies agree and every block is correct.
Read(mx, v) ==
    LET formats == {Word(mx, cells) : cells \in FormatCopies(v)}
        k == CHOOSE k \in 0 .. 7 : formats = {LevelL[k + 1]}
        order == Order(v)
        bits == [n \in DOMAIN order |->
                    mx[order[n][2]][order[n][1]] # Inverts(k, order[n][1], order[n][2])]
    IN  IF /\ \A c \in Drawing(v) : mx[c[2]][c[1]] <=> c \in Ink(v)
           /\ \A cells \in VersionCopies(v) : Word(mx, cells) = VersionInfo[v - 6]
           /\ \E i \in 0 .. 7 : formats = {LevelL[i + 1]}
           /\ \A i \in 1 .. BlockCount(v) : Correct(BlockBits(bits, v, i), v)
        THEN Segment(bits, v)
        ELSE Unreadable
=============================================================================
