---------------------------- MODULE Blake3Rounds -----------------------------
(***************************************************************************)
(* The seven rounds of a BLAKE3 compression, and how the vector back ends  *)
(* move words between lanes to do them.                                    *)
(*                                                                         *)
(* A word is a name here.  What is compared is which words of the state    *)
(* each half of g() mixes, by which rotations and with which word of the   *)
(* message; quadruples that are mixed side by side share no word, so their *)
(* order says nothing.  A vector is a sequence of lanes, numbered from 1;  *)
(* words of the message and of the state are numbered from 0 as in C.      *)
(***************************************************************************)
EXTENDS Integers, Sequences

MSG_SCHEDULE ==
  << <<0, 1, 2, 3, 4, 5, 6, 7, 8, 9, 10, 11, 12, 13, 14, 15>>,
     <<2, 6, 3, 10, 7, 0, 4, 13, 1, 11, 12, 5, 9, 14, 15, 8>>,
     <<3, 4, 10, 12, 13, 2, 7, 14, 6, 5, 9, 0, 11, 15, 8, 1>>,
     <<10, 7, 12, 9, 14, 3, 13, 15, 4, 0, 11, 2, 5, 8, 1, 6>>,
     <<12, 13, 9, 11, 15, 10, 14, 8, 7, 2, 5, 3, 0, 1, 6, 4>>,
     <<9, 14, 11, 5, 8, 12, 15, 1, 13, 3, 0, 10, 2, 6, 4, 7>>,
     <<11, 15, 5, 0, 1, 9, 8, 6, 14, 10, 2, 12, 3, 4, 7, 13>> >>

Columns == << <<0, 4, 8, 12>>, <<1, 5, 9, 13>>, <<2, 6, 10, 14>>, <<3, 7, 11, 15>> >>
Diagonals == << <<0, 5, 10, 15>>, <<1, 6, 11, 12>>, <<2, 7, 8, 13>>, <<3, 4, 9, 14>> >>

----------------------------------------------------------------------------
(* Defects, used by no specification *)

\* The rows are turned the way back.
diagonalize_Back(rows) ==
  <<<<rows[1][2], rows[1][3], rows[1][4], rows[1][1]>>, rows[2],
    <<rows[3][4], rows[3][1], rows[3][2], rows[3][3]>>,
    <<rows[4][3], rows[4][4], rows[4][1], rows[4][2]>>>>

----------------------------------------------------------------------------
(* One word at a time: portable, and one vector per word of the state *)

\* g() takes its first word before, and its second after, the rotations by 16 and 12.
round_fn(r) ==
  LET half(quads, rot, from) ==
        {<<rot, quads[i + 1], MSG_SCHEDULE[r][from + 2 * i]>> : i \in 0 .. 3}
  IN <<half(Columns, <<16, 12>>, 1), half(Columns, <<8, 7>>, 2),
       half(Diagonals, <<16, 12>>, 9), half(Diagonals, <<8, 7>>, 10)>>

\* The words that meet in a lane when rows of words are mixed with m.
Meet(rows, rot, m) ==
  {<<rot, <<rows[1][i], rows[2][i], rows[3][i], rows[4][i]>>, m[i]>> : i \in 1 .. 4}

\* round_fn() of the vector back ends: v[0] to v[3], then what is added to them, and
\* so on, for the columns and for the diagonals.
round_fn_vecs(r) ==
  LET m(first) == [i \in 1 .. 4 |-> MSG_SCHEDULE[r][first + 2 * i - 1]]
      columns == <<<<0, 1, 2, 3>>, <<4, 5, 6, 7>>, <<8, 9, 10, 11>>, <<12, 13, 14, 15>>>>
      diagonals == <<<<0, 1, 2, 3>>, <<5, 6, 7, 4>>, <<10, 11, 8, 9>>, <<15, 12, 13, 14>>>>
  IN <<Meet(columns, <<16, 12>>, m(0)), Meet(columns, <<8, 7>>, m(1)),
       Meet(diagonals, <<16, 12>>, m(8)), Meet(diagonals, <<8, 7>>, m(9))>>

\* What is stored: words of the state ("v") and of the chaining value, one of each
\* pair added to the other; a chaining value is the first eight.
compress_xof ==
  [w \in 0 .. 15 |-> IF w < 8 THEN {<<"v", w>>, <<"v", w + 8>>} ELSE {<<"v", w>>, <<"cv", w - 8>>}]

----------------------------------------------------------------------------
(* Four rows of the state, in 128-bit vectors *)

\* _MM_SHUFFLE(z, y, x, w) names the lowest lane last.
shuffle_ps2(a, b, z, y, x, w) == <<a[w + 1], a[x + 1], b[y + 1], b[z + 1]>>
shuffle_epi32(a, z, y, x, w) == shuffle_ps2(a, a, z, y, x, w)
\* imm8 as the set of its bits, two for a lane.
blend_epi16(a, b, imm8) == [i \in 1 .. 4 |-> IF 2 * i - 1 \in imm8 THEN b[i] ELSE a[i]]

\* Lanes 2q+1 and 2q+2, and whole halves of quarters, of every 128-bit quarter.
Quarter(i) == 4 * ((i - 1) \div 4)
unpack_epi32(a, b, first) ==
  [i \in DOMAIN a |->
     LET k == Quarter(i) + first + 1 + (((i - 1) % 4) \div 2) IN IF i % 2 = 1 THEN a[k] ELSE b[k]]
unpack_epi64(a, b, first) ==
  [i \in DOMAIN a |->
     LET k == Quarter(i) + first + 1 + ((i - 1) % 2) IN IF (i - 1) % 4 < 2 THEN a[k] ELSE b[k]]
unpacklo_epi32(a, b) == unpack_epi32(a, b, 0)
unpackhi_epi32(a, b) == unpack_epi32(a, b, 2)
unpacklo_epi64(a, b) == unpack_epi64(a, b, 0)
unpackhi_epi64(a, b) == unpack_epi64(a, b, 2)

\* The second row stays, so that the others turn around it.
diagonalize(rows) ==
  <<shuffle_epi32(rows[1], 2, 1, 0, 3), rows[2],
    shuffle_epi32(rows[3], 0, 3, 2, 1), shuffle_epi32(rows[4], 1, 0, 3, 2)>>
undiagonalize(rows) ==
  <<shuffle_epi32(rows[1], 0, 3, 2, 1), rows[2],
    shuffle_epi32(rows[3], 2, 1, 0, 3), shuffle_epi32(rows[4], 1, 0, 3, 2)>>

\* The message as four vectors, before the first round and as loaded in each.
Message == [k \in 1 .. 4 |-> [i \in 1 .. 4 |-> 4 * (k - 1) + i - 1]]
Loaded[r \in 1 .. 7] ==
  LET m == IF r = 1 THEN Message ELSE Loaded[r - 1]
  IN IF r = 1
     THEN <<shuffle_ps2(m[1], m[2], 2, 0, 2, 0),
            shuffle_ps2(m[1], m[2], 3, 1, 3, 1),
            shuffle_epi32(shuffle_ps2(m[3], m[4], 2, 0, 2, 0), 2, 1, 0, 3),
            shuffle_epi32(shuffle_ps2(m[3], m[4], 3, 1, 3, 1), 2, 1, 0, 3)>>
     ELSE <<shuffle_epi32(shuffle_ps2(m[1], m[2], 3, 1, 1, 2), 0, 3, 2, 1),
            blend_epi16(shuffle_epi32(m[1], 0, 0, 3, 3),
                        shuffle_ps2(m[3], m[4], 3, 3, 2, 2), {2, 3, 6, 7}),
            shuffle_epi32(blend_epi16(unpacklo_epi64(m[4], m[2]), m[3], {6, 7}), 1, 3, 2, 0),
            shuffle_epi32(unpacklo_epi32(m[3], unpackhi_epi32(m[2], m[4])), 0, 1, 3, 2)>>

\* The rows before round r, each the state's words its lanes hold.
Rows[r \in 1 .. 8] == IF r = 1 THEN Message ELSE undiagonalize(diagonalize(Rows[r - 1]))

compress_pre(r) ==
  LET t == Loaded[r]
      turned == diagonalize(Rows[r])
  IN <<Meet(Rows[r], <<16, 12>>, t[1]), Meet(Rows[r], <<8, 7>>, t[2]),
       Meet(turned, <<16, 12>>, t[3]), Meet(turned, <<8, 7>>, t[4])>>

\* Row against row, and the lower half against the chaining value as it was loaded.
compress_xof_rows ==
  [w \in 0 .. 15 |->
     LET row == w \div 4
         v(k) == <<"v", Rows[8][k + 1][(w % 4) + 1]>>
     IN IF row < 2 THEN {v(row), v(row + 2)} ELSE {v(row), <<"cv", w - 8>>}]

----------------------------------------------------------------------------
(* One vector per word, one lane per input *)

transpose_vecs4(v) ==
  LET ab == <<unpacklo_epi32(v[1], v[2]), unpackhi_epi32(v[1], v[2])>>
      cd == <<unpacklo_epi32(v[3], v[4]), unpackhi_epi32(v[3], v[4])>>
  IN <<unpacklo_epi64(ab[1], cd[1]), unpackhi_epi64(ab[1], cd[1]),
       unpacklo_epi64(ab[2], cd[2]), unpackhi_epi64(ab[2], cd[2])>>

\* Wider vectors are four at a time transposed within each quarter; then halves
\* of two vectors are put together.
permute2x128(a, b, first) == SubSeq(a, first + 1, first + 4) \o SubSeq(b, first + 1, first + 4)
transpose_vecs8(v) ==
  LET abcd == transpose_vecs4(SubSeq(v, 1, 4))
      efgh == transpose_vecs4(SubSeq(v, 5, 8))
  IN [i \in 1 .. 8 |-> IF i <= 4 THEN permute2x128(abcd[i], efgh[i], 0)
                       ELSE permute2x128(abcd[i - 4], efgh[i - 4], 4)]

\* unpack_lo_128() and unpack_hi_128(): every other quarter, from first.
unpack_128(a, b, first) ==
  LET quarter(v, q) == SubSeq(v, 4 * q + 1, 4 * q + 4)
  IN quarter(a, first) \o quarter(a, first + 2) \o quarter(b, first) \o quarter(b, first + 2)
transpose_vecs_512(v) ==
  LET four(k) == transpose_vecs4(SubSeq(v, k + 1, k + 4))
      eight(k) == [i \in 1 .. 8 |->
                     IF i <= 4 THEN unpack_128(four(k)[i], four(k + 4)[i], 0)
                     ELSE unpack_128(four(k)[i - 4], four(k + 4)[i - 4], 1)]
  IN [i \in 1 .. 16 |-> IF i <= 8 THEN unpack_128(eight(0)[i], eight(8)[i], 0)
                        ELSE unpack_128(eight(0)[i - 8], eight(8)[i - 8], 1)]

transpose_vecs(width, v) ==
  CASE width = 4 -> transpose_vecs4(v)
    [] width = 8 -> transpose_vecs8(v)
    [] width = 16 -> transpose_vecs_512(v)

\* Vectors are loaded by input, width words each, and transposed in groups.
transpose_msg_vecs(width) ==
  LET group(k) == transpose_vecs(width,
                    [i \in 1 .. width |-> [j \in 1 .. width |-> <<i, width * k + j - 1>>]])
  IN [w \in 0 .. 15 |-> group(w \div width)[(w % width) + 1]]

\* What is stored for each input or output block, from one vector per word: eight by
\* hash4(), hash8() and hash16(), which pads and stores half, sixteen by xof4() to xof16().
Stored(width, v) ==
  LET padded == IF width > Len(v) THEN v \o [k \in 1 .. 8 |-> [i \in 1 .. 16 |-> <<"zero">>]]
                ELSE v
      group(k) == transpose_vecs(width, SubSeq(padded, width * k + 1, width * k + width))
  IN [i \in 1 .. width |-> [w \in 1 .. Len(v) |-> group((w - 1) \div width)[i][((w - 1) % width) + 1]]]
=============================================================================
