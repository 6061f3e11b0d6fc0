------------------------- MODULE Blake3Rounds_proof -------------------------
(***************************************************************************)
(* That the vector back ends of BLAKE3 do what the portable code does: the *)
(* rounds on rows of words and on one vector per word, the loads and the   *)
(* stores.  Row by row, a message is loaded for every round as the         *)
(* schedule has it, by induction on the round; lane by lane, vectors of    *)
(* four, eight and sixteen words are transposed as their shuffles say.     *)
(***************************************************************************)
EXTENDS Blake3Rounds, TLAPS

----------------------------------------------------------------------------
(* Rounds *)

\* Rotating the rows, and back.
LEMMA UndoDiagonalize ==
  ASSUME NEW a1, NEW a2, NEW a3, NEW a4, NEW b, NEW c1, NEW c2, NEW c3, NEW c4,
         NEW d1, NEW d2, NEW d3, NEW d4
  PROVE  LET rows == <<<<a1, a2, a3, a4>>, b, <<c1, c2, c3, c4>>, <<d1, d2, d3, d4>>>> IN
         /\ diagonalize(rows)
              = <<<<a4, a1, a2, a3>>, b, <<c2, c3, c4, c1>>, <<d3, d4, d1, d2>>>>
         /\ undiagonalize(diagonalize(rows)) = rows
BY DEF diagonalize, undiagonalize, shuffle_epi32, shuffle_ps2

\* The four rows of the state.
LEMMA MessageIs ==
  Message = <<<<0, 1, 2, 3>>, <<4, 5, 6, 7>>, <<8, 9, 10, 11>>, <<12, 13, 14, 15>>>>
BY DEF Message

Turned == <<<<3, 0, 1, 2>>, <<4, 5, 6, 7>>, <<9, 10, 11, 8>>, <<14, 15, 12, 13>>>>

\* After every round the rows are back in place.
LEMMA RowsAre ==
  /\ \A r \in 1 .. 8 : Rows[r] = Message
  /\ diagonalize(Message) = Turned
<1>1. diagonalize(Message) = Turned /\ undiagonalize(diagonalize(Message)) = Message
  BY MessageIs DEF Turned, diagonalize, undiagonalize, shuffle_epi32, shuffle_ps2
<1> DEFINE f == [r \in 1 .. 8 |-> Message]
           D(g, r) == IF r = 1 THEN Message ELSE undiagonalize(diagonalize(g[r - 1]))
<1>2. f = [r \in 1 .. 8 |-> D(f, r)]
  <2>1. ASSUME NEW r \in 1 .. 8 PROVE D(f, r) = Message
    <3>1. CASE r = 1
      BY <3>1
    <3>2. CASE r # 1
      <4>1. f[r - 1] = Message
        BY <3>2
      <4> HIDE DEF f
      <4> QED
        BY <1>1, <3>2, <4>1
    <3> QED
      BY <3>1, <3>2
  <2> HIDE DEF D
  <2>2. [r \in 1 .. 8 |-> D(f, r)] = [r \in 1 .. 8 |-> Message]
    BY <2>1
  <2> QED
    BY <2>2
<1>3. Rows = [r \in 1 .. 8 |-> D(Rows, r)]
  <2>1. Rows = CHOOSE g : g = [r \in 1 .. 8 |-> D(g, r)]
    BY Zenon DEF Rows
  <2> HIDE DEF f, D
  <2> QED
    BY <1>2, <2>1, Zenon
<1>4. \A r \in 1 .. 8 : Rows[r] = D(Rows, r)
  <2> HIDE DEF D
  <2> QED
    BY <1>3
<1>5. Rows[1] = Message
  BY <1>4
<1>6. ASSUME NEW r \in 1 .. 7, Rows[r] = Message PROVE Rows[r + 1] = Message
  <2>1. Rows[r + 1] = undiagonalize(diagonalize(Rows[r]))
    BY <1>4
  <2> QED
    BY <1>1, <1>6, <2>1
<1>7. Rows[2] = Message
  BY <1>5, <1>6
<1>8. Rows[3] = Message
  BY <1>6, <1>7
<1>9. Rows[4] = Message
  BY <1>6, <1>8
<1>10. Rows[5] = Message
  BY <1>6, <1>9
<1>11. Rows[6] = Message
  BY <1>6, <1>10
<1>12. Rows[7] = Message
  BY <1>6, <1>11
<1>13. Rows[8] = Message
  BY <1>6, <1>12
<1> QED
  BY <1>1, <1>5, <1>7, <1>8, <1>9, <1>10, <1>11, <1>12, <1>13

\* The message's words as they are loaded in a round that draws them in this order.
Drawn(s) ==
  <<<<s[1], s[3], s[5], s[7]>>, <<s[2], s[4], s[6], s[8]>>,
    <<s[15], s[9], s[11], s[13]>>, <<s[16], s[10], s[12], s[14]>>>>

First(m) ==
  <<shuffle_ps2(m[1], m[2], 2, 0, 2, 0),
    shuffle_ps2(m[1], m[2], 3, 1, 3, 1),
    shuffle_epi32(shuffle_ps2(m[3], m[4], 2, 0, 2, 0), 2, 1, 0, 3),
    shuffle_epi32(shuffle_ps2(m[3], m[4], 3, 1, 3, 1), 2, 1, 0, 3)>>

Further(m) ==
  <<shuffle_epi32(shuffle_ps2(m[1], m[2], 3, 1, 1, 2), 0, 3, 2, 1),
    blend_epi16(shuffle_epi32(m[1], 0, 0, 3, 3),
                shuffle_ps2(m[3], m[4], 3, 3, 2, 2), {2, 3, 6, 7}),
    shuffle_epi32(blend_epi16(unpacklo_epi64(m[4], m[2]), m[3], {6, 7}), 1, 3, 2, 0),
    shuffle_epi32(unpacklo_epi32(m[3], unpackhi_epi32(m[2], m[4])), 0, 1, 3, 2)>>

\* The unpacks of four lanes.
LEMMA Unpack4 ==
  ASSUME NEW a1, NEW a2, NEW a3, NEW a4, NEW b1, NEW b2, NEW b3, NEW b4
  PROVE  LET a == <<a1, a2, a3, a4>>
             b == <<b1, b2, b3, b4>>
         IN /\ unpacklo_epi32(a, b) = <<a1, b1, a2, b2>> /\ unpackhi_epi32(a, b) = <<a3, b3, a4, b4>>
            /\ unpacklo_epi64(a, b) = <<a1, a2, b1, b2>> /\ unpackhi_epi64(a, b) = <<a3, a4, b3, b4>>
<1> DEFINE a == <<a1, a2, a3, a4>>
           b == <<b1, b2, b3, b4>>
<1>1. DOMAIN a = 1 .. 4
  OBVIOUS
<1>2. \A i \in 1 .. 4 : Quarter(i) = 0
  BY DEF Quarter
<1>3. ASSUME NEW first \in {0, 2}
      PROVE  /\ unpack_epi32(a, b, first) = <<a[first + 1], b[first + 1], a[first + 2], b[first + 2]>>
             /\ unpack_epi64(a, b, first) = <<a[first + 1], a[first + 2], b[first + 1], b[first + 2]>>
  <2> HIDE DEF a, b
  <2> QED
    BY <1>1, <1>2 DEF unpack_epi32, unpack_epi64
<1>4. /\ a[0 + 1] = a1 /\ a[0 + 2] = a2 /\ a[2 + 1] = a3 /\ a[2 + 2] = a4
      /\ b[0 + 1] = b1 /\ b[0 + 2] = b2 /\ b[2 + 1] = b3 /\ b[2 + 2] = b4
  OBVIOUS
<1> HIDE DEF a, b
<1>5. /\ unpacklo_epi32(a, b) = <<a1, b1, a2, b2>> /\ unpackhi_epi32(a, b) = <<a3, b3, a4, b4>>
      /\ unpacklo_epi64(a, b) = <<a1, a2, b1, b2>> /\ unpackhi_epi64(a, b) = <<a3, a4, b3, b4>>
  BY <1>3, <1>4 DEF unpacklo_epi32, unpackhi_epi32, unpacklo_epi64, unpackhi_epi64
<1> QED
  BY <1>5 DEF a, b

\* The blends.
LEMMA Blend4 ==
  ASSUME NEW a1, NEW a2, NEW a3, NEW a4, NEW b1, NEW b2, NEW b3, NEW b4
  PROVE  LET a == <<a1, a2, a3, a4>>
             b == <<b1, b2, b3, b4>>
         IN /\ blend_epi16(a, b, {2, 3, 6, 7}) = <<a1, b2, a3, b4>>
            /\ blend_epi16(a, b, {6, 7}) = <<a1, a2, a3, b4>>
BY DEF blend_epi16

\* The shuffles.
LEMMA Shuffle4 ==
  ASSUME NEW a1, NEW a2, NEW a3, NEW a4, NEW b1, NEW b2, NEW b3, NEW b4
  PROVE  LET a == <<a1, a2, a3, a4>>
             b == <<b1, b2, b3, b4>>
         IN /\ shuffle_epi32(shuffle_ps2(a, b, 3, 1, 1, 2), 0, 3, 2, 1) = <<a2, b2, b4, a3>>
            /\ shuffle_epi32(a, 0, 0, 3, 3) = <<a4, a4, a1, a1>>
            /\ shuffle_ps2(a, b, 3, 3, 2, 2) = <<a3, a3, b4, b4>>
            /\ shuffle_epi32(a, 1, 3, 2, 0) = <<a1, a3, a4, a2>>
            /\ shuffle_epi32(a, 0, 1, 3, 2) = <<a3, a4, a2, a1>>
            /\ shuffle_ps2(a, b, 2, 0, 2, 0) = <<a1, a3, b1, b3>>
            /\ shuffle_ps2(a, b, 3, 1, 3, 1) = <<a2, a4, b2, b4>>
            /\ shuffle_epi32(a, 2, 1, 0, 3) = <<a4, a1, a2, a3>>
BY DEF shuffle_epi32, shuffle_ps2

\* The permutation from a round to the next, word by word.
LEMMA FurtherIs ==
  ASSUME NEW a1, NEW a2, NEW a3, NEW a4, NEW b1, NEW b2, NEW b3, NEW b4,
         NEW c1, NEW c2, NEW c3, NEW c4, NEW d1, NEW d2, NEW d3, NEW d4
  PROVE  Further(<<<<a1, a2, a3, a4>>, <<b1, b2, b3, b4>>, <<c1, c2, c3, c4>>, <<d1, d2, d3, d4>>>>)
           = <<<<a2, b2, b4, a3>>, <<a4, c3, a1, d4>>, <<d1, b1, c4, d2>>, <<c2, d3, b3, c1>>>>
<1> DEFINE a == <<a1, a2, a3, a4>>
           b == <<b1, b2, b3, b4>>
           c == <<c1, c2, c3, c4>>
           d == <<d1, d2, d3, d4>>
           m == <<a, b, c, d>>
<1>1. shuffle_epi32(shuffle_ps2(a, b, 3, 1, 1, 2), 0, 3, 2, 1) = <<a2, b2, b4, a3>>
  BY Shuffle4
<1>2. blend_epi16(shuffle_epi32(a, 0, 0, 3, 3), shuffle_ps2(c, d, 3, 3, 2, 2), {2, 3, 6, 7})
        = <<a4, c3, a1, d4>>
  <2>1. shuffle_epi32(a, 0, 0, 3, 3) = <<a4, a4, a1, a1>> /\ shuffle_ps2(c, d, 3, 3, 2, 2) = <<c3, c3, d4, d4>>
    BY Shuffle4
  <2> QED
    BY <2>1, Blend4
<1>3. shuffle_epi32(blend_epi16(unpacklo_epi64(d, b), c, {6, 7}), 1, 3, 2, 0) = <<d1, b1, c4, d2>>
  <2>1. unpacklo_epi64(d, b) = <<d1, d2, b1, b2>>
    BY Unpack4
  <2>2. blend_epi16(<<d1, d2, b1, b2>>, c, {6, 7}) = <<d1, d2, b1, c4>>
    BY Blend4
  <2> QED
    BY <2>1, <2>2, Shuffle4
<1>4. shuffle_epi32(unpacklo_epi32(c, unpackhi_epi32(b, d)), 0, 1, 3, 2) = <<c2, d3, b3, c1>>
  <2>1. unpackhi_epi32(b, d) = <<b3, d3, b4, d4>>
    BY Unpack4
  <2>2. unpacklo_epi32(c, <<b3, d3, b4, d4>>) = <<c1, b3, c2, d3>>
    BY Unpack4
  <2> QED
    BY <2>1, <2>2, Shuffle4
<1>5. m[1] = a /\ m[2] = b /\ m[3] = c /\ m[4] = d
  OBVIOUS
<1> HIDE DEF a, b, c, d, m
<1>6. Further(m) = <<<<a2, b2, b4, a3>>, <<a4, c3, a1, d4>>, <<d1, b1, c4, d2>>, <<c2, d3, b3, c1>>>>
  BY <1>1, <1>2, <1>3, <1>4, <1>5 DEF Further
<1> QED
  BY <1>6 DEF m, a, b, c, d

\* The loads of the first round, word by word.
LEMMA FirstIs ==
  ASSUME NEW a1, NEW a2, NEW a3, NEW a4, NEW b1, NEW b2, NEW b3, NEW b4,
         NEW c1, NEW c2, NEW c3, NEW c4, NEW d1, NEW d2, NEW d3, NEW d4
  PROVE  First(<<<<a1, a2, a3, a4>>, <<b1, b2, b3, b4>>, <<c1, c2, c3, c4>>, <<d1, d2, d3, d4>>>>)
           = <<<<a1, a3, b1, b3>>, <<a2, a4, b2, b4>>, <<d3, c1, c3, d1>>, <<d4, c2, c4, d2>>>>
<1> DEFINE a == <<a1, a2, a3, a4>>
           b == <<b1, b2, b3, b4>>
           c == <<c1, c2, c3, c4>>
           d == <<d1, d2, d3, d4>>
           m == <<a, b, c, d>>
<1>1. /\ shuffle_ps2(a, b, 2, 0, 2, 0) = <<a1, a3, b1, b3>>
      /\ shuffle_ps2(a, b, 3, 1, 3, 1) = <<a2, a4, b2, b4>>
  BY Shuffle4
<1>2. /\ shuffle_ps2(c, d, 2, 0, 2, 0) = <<c1, c3, d1, d3>>
      /\ shuffle_ps2(c, d, 3, 1, 3, 1) = <<c2, c4, d2, d4>>
  BY DEF shuffle_epi32, shuffle_ps2
<1>3. /\ shuffle_epi32(<<c1, c3, d1, d3>>, 2, 1, 0, 3) = <<d3, c1, c3, d1>>
      /\ shuffle_epi32(<<c2, c4, d2, d4>>, 2, 1, 0, 3) = <<d4, c2, c4, d2>>
  BY Shuffle4
<1>4. m[1] = a /\ m[2] = b /\ m[3] = c /\ m[4] = d
  OBVIOUS
<1> HIDE DEF a, b, c, d, m
<1>5. First(m) = <<<<a1, a3, b1, b3>>, <<a2, a4, b2, b4>>, <<d3, c1, c3, d1>>, <<d4, c2, c4, d2>>>>
  BY <1>1, <1>2, <1>3, <1>4 DEF First
<1> QED
  BY <1>5 DEF m, a, b, c, d

\* It takes a round's words, as loaded, to those the schedule has for the next.
LEMMA FurtherDrawn ==
  ASSUME NEW r \in 1 .. 6
  PROVE  Further(Drawn(MSG_SCHEDULE[r])) = Drawn(MSG_SCHEDULE[r + 1])
<1> DEFINE s == MSG_SCHEDULE[r]
           t == MSG_SCHEDULE[r + 1]
<1>1. Further(Drawn(s))
        = <<<<s[3], s[4], s[8], s[5]>>, <<s[7], s[11], s[1], s[14]>>,
            <<s[16], s[2], s[13], s[10]>>, <<s[9], s[12], s[6], s[15]>>>>
  <2> DEFINE a == s[1]
             b == s[2]
             c == s[3]
             d == s[4]
  <2>1. Drawn(s)
          = <<<<a, c, s[5], s[7]>>, <<b, d, s[6], s[8]>>,
              <<s[15], s[9], s[11], s[13]>>, <<s[16], s[10], s[12], s[14]>>>>
    BY DEF Drawn
  <2> HIDE DEF s, a, b, c, d
  <2>2. Further(<<<<a, c, s[5], s[7]>>, <<b, d, s[6], s[8]>>,
                  <<s[15], s[9], s[11], s[13]>>, <<s[16], s[10], s[12], s[14]>>>>)
          = <<<<c, d, s[8], s[5]>>, <<s[7], s[11], a, s[14]>>,
              <<s[16], b, s[13], s[10]>>, <<s[9], s[12], s[6], s[15]>>>>
    BY FurtherIs
  <2>3. Further(Drawn(s))
          = <<<<c, d, s[8], s[5]>>, <<s[7], s[11], a, s[14]>>,
              <<s[16], b, s[13], s[10]>>, <<s[9], s[12], s[6], s[15]>>>>
    BY <2>1, <2>2
  <2> QED
    BY <2>3 DEF a, b, c, d
<1>2. /\ t[1] = s[3] /\ t[3] = s[4] /\ t[5] = s[8] /\ t[7] = s[5]
      /\ t[2] = s[7] /\ t[4] = s[11] /\ t[6] = s[1] /\ t[8] = s[14]
      /\ t[15] = s[16] /\ t[9] = s[2] /\ t[11] = s[13] /\ t[13] = s[10]
      /\ t[16] = s[9] /\ t[10] = s[12] /\ t[12] = s[6] /\ t[14] = s[15]
  BY DEF MSG_SCHEDULE
<1> HIDE DEF s, t
<1> QED
  BY <1>1, <1>2 DEF Drawn, s, t

\* Every round loads the words its schedule names, in order.
LEMMA LoadedIs == \A r \in 1 .. 7 : Loaded[r] = Drawn(MSG_SCHEDULE[r])
<1> DEFINE f == [r \in 1 .. 7 |-> Drawn(MSG_SCHEDULE[r])]
           L(g, r) ==
             LET m == IF r = 1 THEN Message ELSE g[r - 1]
             IN IF r = 1 THEN First(m) ELSE Further(m)
<1>1. First(Message) = Drawn(MSG_SCHEDULE[1])
  <2>1. First(Message)
          = <<<<0, 2, 4, 6>>, <<1, 3, 5, 7>>, <<14, 8, 10, 12>>, <<15, 9, 11, 13>>>>
    BY MessageIs, FirstIs
  <2>2. Drawn(MSG_SCHEDULE[1])
          = <<<<0, 2, 4, 6>>, <<1, 3, 5, 7>>, <<14, 8, 10, 12>>, <<15, 9, 11, 13>>>>
    BY DEF Drawn, MSG_SCHEDULE
  <2> QED
    BY <2>1, <2>2
<1>2. f = [r \in 1 .. 7 |-> L(f, r)]
  <2>1. ASSUME NEW r \in 1 .. 7 PROVE f[r] = L(f, r)
    <3>1. CASE r = 1
      BY <1>1, <3>1
    <3>2. CASE r # 1
      <4>1. r - 1 \in 1 .. 6 /\ r - 1 \in 1 .. 7 /\ (r - 1) + 1 = r
        BY <3>2
      <4>2. Further(Drawn(MSG_SCHEDULE[r - 1])) = Drawn(MSG_SCHEDULE[r])
        BY <4>1, FurtherDrawn
      <4> QED
        BY <3>2, <4>1, <4>2
    <3> QED
      BY <3>1, <3>2
  <2> QED
    BY <2>1
<1>3. Loaded = [r \in 1 .. 7 |-> L(Loaded, r)]
  <2>1. Loaded = CHOOSE g : g = [r \in 1 .. 7 |-> L(g, r)]
    BY Zenon DEF Loaded, First, Further
  <2> HIDE DEF f, L
  <2> QED
    BY <1>2, <2>1, Zenon
<1>4. \A r \in 1 .. 7 : Loaded[r] = L(Loaded, r)
  <2> HIDE DEF L
  <2> QED
    BY <1>3
<1>5. ASSUME NEW r \in 1 .. 6, Loaded[r] = Drawn(MSG_SCHEDULE[r])
      PROVE  Loaded[r + 1] = Drawn(MSG_SCHEDULE[r + 1])
  <2>1. Loaded[r + 1] = Further(Loaded[r])
    BY <1>4
  <2> QED
    BY <1>5, <2>1, FurtherDrawn
<1>6. Loaded[1] = Drawn(MSG_SCHEDULE[1])
  BY <1>1, <1>4
<1> HIDE DEF f, L
<1>7. Loaded[2] = Drawn(MSG_SCHEDULE[2])
  BY <1>5, <1>6
<1>8. Loaded[3] = Drawn(MSG_SCHEDULE[3])
  BY <1>5, <1>7
<1>9. Loaded[4] = Drawn(MSG_SCHEDULE[4])
  BY <1>5, <1>8
<1>10. Loaded[5] = Drawn(MSG_SCHEDULE[5])
  BY <1>5, <1>9
<1>11. Loaded[6] = Drawn(MSG_SCHEDULE[6])
  BY <1>5, <1>10
<1>12. Loaded[7] = Drawn(MSG_SCHEDULE[7])
  BY <1>5, <1>11
<1> QED
  BY <1>6, <1>7, <1>8, <1>9, <1>10, <1>11, <1>12

\* Four lanes, side by side.
LEMMA MeetIs ==
  ASSUME NEW a1, NEW a2, NEW a3, NEW a4, NEW b1, NEW b2, NEW b3, NEW b4,
         NEW c1, NEW c2, NEW c3, NEW c4, NEW d1, NEW d2, NEW d3, NEW d4,
         NEW rot, NEW m
  PROVE  Meet(<<<<a1, a2, a3, a4>>, <<b1, b2, b3, b4>>, <<c1, c2, c3, c4>>, <<d1, d2, d3, d4>>>>, rot, m)
           = {<<rot, <<a1, b1, c1, d1>>, m[1]>>, <<rot, <<a2, b2, c2, d2>>, m[2]>>,
              <<rot, <<a3, b3, c3, d3>>, m[3]>>, <<rot, <<a4, b4, c4, d4>>, m[4]>>}
<1> DEFINE rows == <<<<a1, a2, a3, a4>>, <<b1, b2, b3, b4>>, <<c1, c2, c3, c4>>, <<d1, d2, d3, d4>>>>
           lane(i) == <<rot, <<rows[1][i], rows[2][i], rows[3][i], rows[4][i]>>, m[i]>>
<1>1. Meet(rows, rot, m) = {lane(i) : i \in 1 .. 4}
  BY DEF Meet
<1>2. /\ lane(1) = <<rot, <<a1, b1, c1, d1>>, m[1]>> /\ lane(2) = <<rot, <<a2, b2, c2, d2>>, m[2]>>
      /\ lane(3) = <<rot, <<a3, b3, c3, d3>>, m[3]>> /\ lane(4) = <<rot, <<a4, b4, c4, d4>>, m[4]>>
  OBVIOUS
<1> HIDE DEF lane
<1>3. {lane(i) : i \in 1 .. 4} = {lane(1), lane(2), lane(3), lane(4)}
  OBVIOUS
<1> QED
  BY <1>1, <1>2, <1>3

Half(quads, s, rot, from) ==
  {<<rot, quads[1], s[from]>>, <<rot, quads[2], s[from + 2]>>,
   <<rot, quads[3], s[from + 4]>>, <<rot, quads[4], s[from + 6]>>}

\* The portable round.
LEMMA RoundIs ==
  ASSUME NEW r
  PROVE  LET s == MSG_SCHEDULE[r] IN
         round_fn(r) = <<Half(Columns, s, <<16, 12>>, 1), Half(Columns, s, <<8, 7>>, 2),
                         Half(Diagonals, s, <<16, 12>>, 9), Half(Diagonals, s, <<8, 7>>, 10)>>
<1> DEFINE s == MSG_SCHEDULE[r]
           half(quads, rot, from) == {<<rot, quads[i + 1], s[from + 2 * i]>> : i \in 0 .. 3}
<1>1. round_fn(r) = <<half(Columns, <<16, 12>>, 1), half(Columns, <<8, 7>>, 2),
                      half(Diagonals, <<16, 12>>, 9), half(Diagonals, <<8, 7>>, 10)>>
  BY Zenon DEF round_fn
<1> HIDE DEF s
<1>2. ASSUME NEW quads, NEW rot, NEW from \in Nat PROVE half(quads, rot, from) = Half(quads, s, rot, from)
  <2> DEFINE e(i) == <<rot, quads[i + 1], s[from + 2 * i]>>
  <2>1. half(quads, rot, from) = {e(i) : i \in 0 .. 3}
    OBVIOUS
  <2>2. /\ e(0) = <<rot, quads[1], s[from]>> /\ e(1) = <<rot, quads[2], s[from + 2]>>
        /\ e(2) = <<rot, quads[3], s[from + 4]>> /\ e(3) = <<rot, quads[4], s[from + 6]>>
    OBVIOUS
  <2> HIDE DEF e
  <2>3. {e(i) : i \in 0 .. 3} = {e(0), e(1), e(2), e(3)}
    OBVIOUS
  <2> QED
    BY <2>1, <2>2, <2>3 DEF Half
<1> HIDE DEF half
<1> QED
  BY <1>1, <1>2 DEF s

Mixed(rot, quads, w1, w2, w3, w4) ==
  {<<rot, quads[1], w1>>, <<rot, quads[2], w2>>, <<rot, quads[3], w3>>, <<rot, quads[4], w4>>}

\* Its halves, four mixes each.
LEMMA HalvesOfRound ==
  ASSUME NEW s, NEW rot
  PROVE  /\ Half(Columns, s, rot, 1) = Mixed(rot, Columns, s[1], s[3], s[5], s[7])
         /\ Half(Columns, s, rot, 2) = Mixed(rot, Columns, s[2], s[4], s[6], s[8])
         /\ Half(Diagonals, s, rot, 9) = Mixed(rot, Diagonals, s[9], s[11], s[13], s[15])
         /\ Half(Diagonals, s, rot, 10) = Mixed(rot, Diagonals, s[10], s[12], s[14], s[16])
<1>1. /\ 1 + 2 = 3 /\ 1 + 4 = 5 /\ 1 + 6 = 7 /\ 2 + 2 = 4 /\ 2 + 4 = 6 /\ 2 + 6 = 8
      /\ 9 + 2 = 11 /\ 9 + 4 = 13 /\ 9 + 6 = 15 /\ 10 + 2 = 12 /\ 10 + 4 = 14 /\ 10 + 6 = 16
  OBVIOUS
<1> QED
  BY <1>1 DEF Half, Mixed

\* The columns and the diagonals.
LEMMA QuadsAre ==
  /\ Columns[1] = <<0, 4, 8, 12>> /\ Columns[2] = <<1, 5, 9, 13>>
  /\ Columns[3] = <<2, 6, 10, 14>> /\ Columns[4] = <<3, 7, 11, 15>>
  /\ Diagonals[1] = <<0, 5, 10, 15>> /\ Diagonals[2] = <<1, 6, 11, 12>>
  /\ Diagonals[3] = <<2, 7, 8, 13>> /\ Diagonals[4] = <<3, 4, 9, 14>>
BY DEF Columns, Diagonals

\* Row against row, a round is the portable one.
LEMMA RoundsAgree ==
  ASSUME NEW r \in 1 .. 7
  PROVE  compress_pre(r) = round_fn(r)
<1> DEFINE s == MSG_SCHEDULE[r]
           t == Loaded[r]
<1>1. t = Drawn(s) /\ Rows[r] = Message /\ diagonalize(Rows[r]) = Turned
  BY LoadedIs, RowsAre
<1>2. compress_pre(r) = <<Meet(Message, <<16, 12>>, t[1]), Meet(Message, <<8, 7>>, t[2]),
                          Meet(Turned, <<16, 12>>, t[3]), Meet(Turned, <<8, 7>>, t[4])>>
  BY <1>1, Zenon DEF compress_pre
<1>3. /\ t[1] = <<s[1], s[3], s[5], s[7]>> /\ t[2] = <<s[2], s[4], s[6], s[8]>>
      /\ t[3] = <<s[15], s[9], s[11], s[13]>> /\ t[4] = <<s[16], s[10], s[12], s[14]>>
  <2> HIDE DEF s, t
  <2> QED
    BY <1>1 DEF Drawn
<1> HIDE DEF s, t
<1>4. Meet(Message, <<16, 12>>, t[1]) = Half(Columns, s, <<16, 12>>, 1)
      /\ Meet(Message, <<8, 7>>, t[2]) = Half(Columns, s, <<8, 7>>, 2)
  <2>1. ASSUME NEW rot, NEW m
        PROVE  Meet(Message, rot, m) = Mixed(rot, Columns, m[1], m[2], m[3], m[4])
    <3>1. Meet(Message, rot, m)
            = {<<rot, <<0, 4, 8, 12>>, m[1]>>, <<rot, <<1, 5, 9, 13>>, m[2]>>,
               <<rot, <<2, 6, 10, 14>>, m[3]>>, <<rot, <<3, 7, 11, 15>>, m[4]>>}
      BY MeetIs, MessageIs
    <3> QED
      BY <3>1, QuadsAre DEF Mixed
  <2>2. /\ t[1][1] = s[1] /\ t[1][2] = s[3] /\ t[1][3] = s[5] /\ t[1][4] = s[7]
        /\ t[2][1] = s[2] /\ t[2][2] = s[4] /\ t[2][3] = s[6] /\ t[2][4] = s[8]
    BY <1>3
  <2> QED
    BY <2>1, <2>2, HalvesOfRound
<1>5. Meet(Turned, <<16, 12>>, t[3]) = Half(Diagonals, s, <<16, 12>>, 9)
      /\ Meet(Turned, <<8, 7>>, t[4]) = Half(Diagonals, s, <<8, 7>>, 10)
  <2>1. ASSUME NEW rot, NEW m
        PROVE  Meet(Turned, rot, m) = Mixed(rot, Diagonals, m[2], m[3], m[4], m[1])
    <3>1. Meet(Turned, rot, m)
            = {<<rot, <<3, 4, 9, 14>>, m[1]>>, <<rot, <<0, 5, 10, 15>>, m[2]>>,
               <<rot, <<1, 6, 11, 12>>, m[3]>>, <<rot, <<2, 7, 8, 13>>, m[4]>>}
      BY MeetIs DEF Turned
    <3> QED
      BY <3>1, QuadsAre DEF Mixed
  <2>2. /\ t[3][1] = s[15] /\ t[3][2] = s[9] /\ t[3][3] = s[11] /\ t[3][4] = s[13]
        /\ t[4][1] = s[16] /\ t[4][2] = s[10] /\ t[4][3] = s[12] /\ t[4][4] = s[14]
    BY <1>3
  <2> QED
    BY <2>1, <2>2, HalvesOfRound
<1> QED
  BY <1>2, <1>4, <1>5, RoundIs DEF s

\* One vector per word, a round is the portable one.
LEMMA VectorRoundsAgree ==
  ASSUME NEW r \in 1 .. 7
  PROVE  round_fn_vecs(r) = round_fn(r)
<1> DEFINE s == MSG_SCHEDULE[r]
           m(first) == [i \in 1 .. 4 |-> s[first + 2 * i - 1]]
           columns == <<<<0, 1, 2, 3>>, <<4, 5, 6, 7>>, <<8, 9, 10, 11>>, <<12, 13, 14, 15>>>>
           diagonals == <<<<0, 1, 2, 3>>, <<5, 6, 7, 4>>, <<10, 11, 8, 9>>, <<15, 12, 13, 14>>>>
<1>1. round_fn_vecs(r)
        = <<Meet(columns, <<16, 12>>, m(0)), Meet(columns, <<8, 7>>, m(1)),
            Meet(diagonals, <<16, 12>>, m(8)), Meet(diagonals, <<8, 7>>, m(9))>>
  BY Zenon DEF round_fn_vecs
<1>2. /\ m(0)[1] = s[1] /\ m(0)[2] = s[3] /\ m(0)[3] = s[5] /\ m(0)[4] = s[7]
      /\ m(1)[1] = s[2] /\ m(1)[2] = s[4] /\ m(1)[3] = s[6] /\ m(1)[4] = s[8]
      /\ m(8)[1] = s[9] /\ m(8)[2] = s[11] /\ m(8)[3] = s[13] /\ m(8)[4] = s[15]
      /\ m(9)[1] = s[10] /\ m(9)[2] = s[12] /\ m(9)[3] = s[14] /\ m(9)[4] = s[16]
  <2> HIDE DEF s
  <2> QED
    OBVIOUS
<1>3. ASSUME NEW rot, NEW w
      PROVE  /\ Meet(columns, rot, w) = Mixed(rot, Columns, w[1], w[2], w[3], w[4])
             /\ Meet(diagonals, rot, w) = Mixed(rot, Diagonals, w[1], w[2], w[3], w[4])
  <2>1. Meet(columns, rot, w)
          = {<<rot, <<0, 4, 8, 12>>, w[1]>>, <<rot, <<1, 5, 9, 13>>, w[2]>>,
             <<rot, <<2, 6, 10, 14>>, w[3]>>, <<rot, <<3, 7, 11, 15>>, w[4]>>}
    BY MeetIs
  <2>2. Meet(diagonals, rot, w)
          = {<<rot, <<0, 5, 10, 15>>, w[1]>>, <<rot, <<1, 6, 11, 12>>, w[2]>>,
             <<rot, <<2, 7, 8, 13>>, w[3]>>, <<rot, <<3, 4, 9, 14>>, w[4]>>}
    BY MeetIs
  <2> QED
    BY <2>1, <2>2, QuadsAre DEF Mixed
<1> HIDE DEF s, m, columns, diagonals
<1>4. /\ Meet(columns, <<16, 12>>, m(0)) = Half(Columns, s, <<16, 12>>, 1)
      /\ Meet(columns, <<8, 7>>, m(1)) = Half(Columns, s, <<8, 7>>, 2)
  BY <1>2, <1>3, HalvesOfRound
<1>5. /\ Meet(diagonals, <<16, 12>>, m(8)) = Half(Diagonals, s, <<16, 12>>, 9)
      /\ Meet(diagonals, <<8, 7>>, m(9)) = Half(Diagonals, s, <<8, 7>>, 10)
  BY <1>2, <1>3, HalvesOfRound
<1> QED
  BY <1>1, <1>4, <1>5, RoundIs DEF s

\* What is stored has its words in order.
LEMMA StoredAgrees == compress_xof_rows = compress_xof
<1> DEFINE v(w, k) == <<"v", Rows[8][k + 1][(w % 4) + 1]>>
           c(w) == <<"cv", w - 8>>
<1>1. ASSUME NEW w \in 0 .. 15, NEW k \in 0 .. 3
      PROVE  v(w, k) = <<"v", 4 * k + (w % 4)>>
  <2>1. Rows[8] = Message /\ k + 1 \in 1 .. 4 /\ (w % 4) + 1 \in 1 .. 4
    BY RowsAre
  <2>2. Message[k + 1][(w % 4) + 1] = 4 * k + (w % 4)
    BY <2>1 DEF Message
  <2> QED
    BY <2>1, <2>2
<1>2. ASSUME NEW w \in 0 .. 15
      PROVE  (IF w \div 4 < 2 THEN {v(w, w \div 4), v(w, w \div 4 + 2)} ELSE {v(w, w \div 4), c(w)})
               = (IF w < 8 THEN {<<"v", w>>, <<"v", w + 8>>} ELSE {<<"v", w>>, c(w)})
  <2>1. w \div 4 \in 0 .. 3 /\ 4 * (w \div 4) + (w % 4) = w /\ (w \div 4 < 2 <=> w < 8)
    OBVIOUS
  <2>2. v(w, w \div 4) = <<"v", w>>
    <3> DEFINE k == w \div 4
    <3>1. k \in 0 .. 3 /\ 4 * k + (w % 4) = w
      BY <2>1
    <3> HIDE DEF k, v
    <3> QED
      BY <1>1, <3>1 DEF k
  <2>3. w < 8 => v(w, w \div 4 + 2) = <<"v", w + 8>>
    <3> DEFINE k == w \div 4 + 2
    <3>1. w < 8 => k \in 0 .. 3 /\ 4 * k + (w % 4) = w + 8
      BY <2>1
    <3> HIDE DEF k, v
    <3> QED
      BY <1>1, <3>1 DEF k
  <2> HIDE DEF v, c
  <2> QED
    BY <2>1, <2>2, <2>3
<1>3. compress_xof_rows
        = [w \in 0 .. 15 |-> IF w \div 4 < 2 THEN {v(w, w \div 4), v(w, w \div 4 + 2)}
                             ELSE {v(w, w \div 4), c(w)}]
  BY Zenon DEF compress_xof_rows
<1>4. compress_xof = [w \in 0 .. 15 |-> IF w < 8 THEN {<<"v", w>>, <<"v", w + 8>>}
                                        ELSE {<<"v", w>>, c(w)}]
  BY Zenon DEF compress_xof
<1> HIDE DEF v, c
<1> QED
  BY <1>2, <1>3, <1>4

----------------------------------------------------------------------------
(* Lanes *)

\* A lane's quarter and its place there.
LEMMA QuarterIs ==
  ASSUME NEW i \in 1 .. 16
  PROVE  /\ Quarter(i) \in {0, 4, 8, 12} /\ (i - 1) % 4 \in 0 .. 3
         /\ i = Quarter(i) + ((i - 1) % 4) + 1
BY DEF Quarter

\* The lane of a place in a quarter.
LEMMA QuarterOf ==
  ASSUME NEW q \in {0, 4, 8, 12}, NEW l \in 0 .. 3
  PROVE  /\ Quarter(q + l + 1) = q /\ (q + l + 1 - 1) % 4 = l /\ q + l + 1 \in 1 .. 16
         /\ ((q + l + 1) % 2 = 1 <=> l \in {0, 2})
BY DEF Quarter

Vector(a, n) == DOMAIN a = 1 .. n /\ n \in {4, 8, 16}

\* Unpacking keeps the width.
LEMMA UnpackVector ==
  ASSUME NEW n, NEW a, Vector(a, n), NEW b, NEW first
  PROVE  /\ Vector(unpack_epi32(a, b, first), n)
         /\ Vector(unpack_epi64(a, b, first), n)
BY DEF unpack_epi32, unpack_epi64, Vector

\* Lane i is lane l of quarter q.
Place(q, l, i, n) == q \in {0, 4, 8, 12} /\ l \in 0 .. 3 /\ i = q + l + 1 /\ i \in 1 .. n

\* Where the word in it comes from.
Even(l) == l \in {0, 2}
From32(q, l, first, k) == k = q + first + 1 + (l \div 2)
From64(q, l, first, k) == k = q + first + 1 + (l % 2)

\* What an unpack of words has in a lane.
LEMMA UnpackAt32 ==
  ASSUME NEW n, NEW a, Vector(a, n), NEW b, NEW first,
         NEW q, NEW l, NEW i, Place(q, l, i, n), NEW k, From32(q, l, first, k)
  PROVE  unpack_epi32(a, b, first)[i] = IF Even(l) THEN a[k] ELSE b[k]
<1> DEFINE u(x) == IF x % 2 = 1 THEN a[Quarter(x) + first + 1 + (((x - 1) % 4) \div 2)]
                   ELSE b[Quarter(x) + first + 1 + (((x - 1) % 4) \div 2)]
<1>1. i \in 1 .. n /\ Quarter(i) = q /\ (i - 1) % 4 = l /\ (i % 2 = 1 <=> l \in {0, 2})
  BY QuarterOf DEF Place
<1>2. unpack_epi32(a, b, first) = [x \in 1 .. n |-> u(x)]
  BY DEF unpack_epi32, Vector
<1>3. u(i) = IF Even(l) THEN a[k] ELSE b[k]
  BY <1>1 DEF From32, Even
<1> HIDE DEF u
<1> QED
  BY <1>1, <1>2, <1>3

\* What an unpack of pairs has in a lane.
LEMMA UnpackAt64 ==
  ASSUME NEW n, NEW a, Vector(a, n), NEW b, NEW first,
         NEW q, NEW l, NEW i, Place(q, l, i, n), NEW k, From64(q, l, first, k)
  PROVE  unpack_epi64(a, b, first)[i] = IF l < 2 THEN a[k] ELSE b[k]
<1> DEFINE w(x) == IF (x - 1) % 4 < 2 THEN a[Quarter(x) + first + 1 + ((x - 1) % 2)]
                   ELSE b[Quarter(x) + first + 1 + ((x - 1) % 2)]
<1>1. i \in 1 .. n /\ Quarter(i) = q /\ (i - 1) % 4 = l /\ (i - 1) % 2 = l % 2
  <2>1. i \in 1 .. n /\ Quarter(i) = q /\ (i - 1) % 4 = l
    BY QuarterOf DEF Place
  <2>2. (i - 1) % 2 = l % 2
    BY DEF Place
  <2> QED
    BY <2>1, <2>2
<1>2. unpack_epi64(a, b, first) = [x \in 1 .. n |-> w(x)]
  BY DEF unpack_epi64, Vector
<1>3. w(i) = IF l < 2 THEN a[k] ELSE b[k]
  BY <1>1 DEF From64
<1> HIDE DEF w
<1> QED
  BY <1>1, <1>2, <1>3

Fourth(a, b, c, d, l, x) ==
  CASE l = 0 -> a[x] [] l = 1 -> b[x] [] l = 2 -> c[x] [] l = 3 -> d[x]

Four(v, a, b, c, d) == v[1] = a /\ v[2] = b /\ v[3] = c /\ v[4] = d

\* Four vectors of any width, transposed within each quarter.
LEMMA TransposeAt ==
  ASSUME NEW n, NEW v, NEW a, NEW b, NEW c, NEW d, Four(v, a, b, c, d), Vector(a, n), Vector(c, n),
         NEW q, NEW l, NEW i, Place(q, l, i, n)
  PROVE  LET t == transpose_vecs4(v)
         IN /\ t[1][i] = Fourth(a, b, c, d, l, q + 1) /\ t[2][i] = Fourth(a, b, c, d, l, q + 2)
            /\ t[3][i] = Fourth(a, b, c, d, l, q + 3) /\ t[4][i] = Fourth(a, b, c, d, l, q + 4)
<1> DEFINE ab(f) == unpack_epi32(a, b, f)
           cd(f) == unpack_epi32(c, d, f)
           t == transpose_vecs4(v)
<1>1. t = <<unpack_epi64(ab(0), cd(0), 0), unpack_epi64(ab(0), cd(0), 2),
            unpack_epi64(ab(2), cd(2), 0), unpack_epi64(ab(2), cd(2), 2)>>
  BY DEF Four, transpose_vecs4, unpacklo_epi32, unpackhi_epi32, unpacklo_epi64, unpackhi_epi64
<1> HIDE DEF t
<1>2. ASSUME NEW f \in {0, 2}, NEW g \in {0, 2}
      PROVE  unpack_epi64(ab(f), cd(f), g)[i] = Fourth(a, b, c, d, l, q + f + 1 + (g \div 2))
  <2> DEFINE x == q + f + 1 + (g \div 2)
             m == g + (l % 2)
             k == q + m + 1
  <2>1. Vector(ab(f), n) /\ Vector(cd(f), n)
    BY UnpackVector
  <2>2. m \in 0 .. 3 /\ (Even(m) <=> Even(l)) /\ l \in 0 .. 3
    BY DEF Place, Even
  <2>3. Place(q, m, k, n) /\ From64(q, l, g, k) /\ From32(q, m, f, x)
    BY DEF Place, From64, From32, Vector
  <2> HIDE DEF m, k, x
  <2>4. unpack_epi64(ab(f), cd(f), g)[i] = IF l < 2 THEN ab(f)[k] ELSE cd(f)[k]
    <3> HIDE DEF ab, cd
    <3> QED
      BY <2>1, <2>3, UnpackAt64
  <2>5. ab(f)[k] = IF Even(m) THEN a[x] ELSE b[x]
    <3>1. Vector(a, n) /\ Place(q, m, k, n) /\ From32(q, m, f, x)
      BY <2>3
    <3>2. unpack_epi32(a, b, f)[k] = IF Even(m) THEN a[x] ELSE b[x]
      BY <3>1, UnpackAt32
    <3> QED
      BY <3>2
  <2>6. cd(f)[k] = IF Even(m) THEN c[x] ELSE d[x]
    <3>1. Vector(c, n) /\ Place(q, m, k, n) /\ From32(q, m, f, x)
      BY <2>3
    <3>2. unpack_epi32(c, d, f)[k] = IF Even(m) THEN c[x] ELSE d[x]
      BY <3>1, UnpackAt32
    <3> QED
      BY <3>2
  <2> HIDE DEF ab, cd
  <2>7. unpack_epi64(ab(f), cd(f), g)[i] = Fourth(a, b, c, d, l, x)
    BY <2>2, <2>4, <2>5, <2>6 DEF Fourth, Even
  <2> QED
    BY <2>7 DEF x
<1>3. /\ q + 0 + 1 + (0 \div 2) = q + 1 /\ q + 0 + 1 + (2 \div 2) = q + 2
      /\ q + 2 + 1 + (0 \div 2) = q + 3 /\ q + 2 + 1 + (2 \div 2) = q + 4
  BY DEF Place
<1> HIDE DEF ab, cd
<1>4. /\ t[1] = unpack_epi64(ab(0), cd(0), 0) /\ t[2] = unpack_epi64(ab(0), cd(0), 2)
      /\ t[3] = unpack_epi64(ab(2), cd(2), 0) /\ t[4] = unpack_epi64(ab(2), cd(2), 2)
  BY <1>1
<1>5. /\ t[1][i] = Fourth(a, b, c, d, l, q + 1) /\ t[2][i] = Fourth(a, b, c, d, l, q + 2)
      /\ t[3][i] = Fourth(a, b, c, d, l, q + 3) /\ t[4][i] = Fourth(a, b, c, d, l, q + 4)
  BY <1>2, <1>3, <1>4
<1> QED
  BY <1>5 DEF t

\* They are four vectors of that width.
LEMMA TransposeDomain ==
  ASSUME NEW n, NEW v, NEW a, NEW b, NEW c, NEW d, Four(v, a, b, c, d), Vector(a, n)
  PROVE  LET t == transpose_vecs4(v)
         IN /\ t = <<t[1], t[2], t[3], t[4]>>
            /\ \A k \in 1 .. 4 : t[k] = [i \in 1 .. n |-> t[k][i]]
<1> DEFINE t == transpose_vecs4(v)
           Row(x) == x = [i \in 1 .. n |-> x[i]]
           ab(f) == unpack_epi32(a, b, f)
           cd(f) == unpack_epi32(c, d, f)
           u(f, g) == unpack_epi64(ab(f), cd(f), g)
<1>1. t = <<u(0, 0), u(0, 2), u(2, 0), u(2, 2)>>
  BY DEF Four, transpose_vecs4, unpacklo_epi32, unpackhi_epi32, unpacklo_epi64, unpackhi_epi64
<1>2. ASSUME NEW f \in {0, 2}, NEW g \in {0, 2} PROVE Row(u(f, g))
  <2>1. Vector(ab(f), n)
    BY UnpackVector
  <2> HIDE DEF ab, cd
  <2> QED
    BY <2>1 DEF unpack_epi64, Vector
<1> HIDE DEF t, u, Row
<1>3. t[1] = u(0, 0) /\ t[2] = u(0, 2) /\ t[3] = u(2, 0) /\ t[4] = u(2, 2)
  BY <1>1
<1>4. Row(t[1]) /\ Row(t[2]) /\ Row(t[3]) /\ Row(t[4])
  BY <1>2, <1>3
<1>5. \A k \in 1 .. 4 : Row(t[k])
  BY <1>4
<1>6. t = <<t[1], t[2], t[3], t[4]>>
  BY <1>1, <1>3
<1> QED
  BY <1>5, <1>6 DEF t, Row

----------------------------------------------------------------------------
(* Transposing *)

\* One vector for each word of f, and one for each input.
Matrix(n, f) == [j \in 1 .. n |-> [i \in 1 .. n |-> f[<<j, i>>]]]
Flipped(n, f) == [i \in 1 .. n |-> [j \in 1 .. n |-> f[<<j, i>>]]]

\* Word c of each quarter, of the four vectors after k.
Group(n, f, k, c) == [i \in 1 .. n |-> f[<<k + ((i - 1) % 4) + 1, Quarter(i) + c>>]]

Groups(n, f, k, t) ==
  t = <<Group(n, f, k, 1), Group(n, f, k, 2), Group(n, f, k, 3), Group(n, f, k, 4)>>

\* Four vectors of a square, transposed, have one word of each quarter's each.
LEMMA FourTransposed ==
  ASSUME NEW n \in {4, 8, 16}, NEW f, NEW k \in {0, 4, 8, 12}, k < n, NEW v,
         Four(v, Matrix(n, f)[k + 1], Matrix(n, f)[k + 2], Matrix(n, f)[k + 3], Matrix(n, f)[k + 4])
  PROVE  Groups(n, f, k, transpose_vecs4(v))
<1> DEFINE row(j) == [i \in 1 .. n |-> f[<<j, i>>]]
           a == row(k + 1)
           b == row(k + 2)
           c == row(k + 3)
           d == row(k + 4)
           t == transpose_vecs4(v)
<1>1. Four(v, a, b, c, d)
  <2>1. \A j \in 1 .. n : Matrix(n, f)[j] = row(j)
    BY DEF Matrix
  <2>2. k + 1 \in 1 .. n /\ k + 2 \in 1 .. n /\ k + 3 \in 1 .. n /\ k + 4 \in 1 .. n
    OBVIOUS
  <2> HIDE DEF row
  <2> QED
    BY <2>1, <2>2 DEF a, b, c, d
<1>2. Vector(a, n) /\ Vector(c, n)
  BY DEF Vector
<1>3. /\ \A x \in 1 .. n : a[x] = f[<<k + 0 + 1, x>>]
      /\ \A x \in 1 .. n : b[x] = f[<<k + 1 + 1, x>>]
      /\ \A x \in 1 .. n : c[x] = f[<<k + 2 + 1, x>>]
      /\ \A x \in 1 .. n : d[x] = f[<<k + 3 + 1, x>>]
  OBVIOUS
<1> HIDE DEF a, b, c, d, t
<1>4. ASSUME NEW l \in 0 .. 3, NEW x \in 1 .. n
      PROVE  Fourth(a, b, c, d, l, x) = f[<<k + l + 1, x>>]
  <2>1. CASE l = 0
    BY <1>3, <2>1 DEF Fourth
  <2>2. CASE l = 1
    BY <1>3, <2>2 DEF Fourth
  <2>3. CASE l = 2
    BY <1>3, <2>3 DEF Fourth
  <2>4. CASE l = 3
    BY <1>3, <2>4 DEF Fourth
  <2> QED
    BY <2>1, <2>2, <2>3, <2>4
<1>5. ASSUME NEW i \in 1 .. n
      PROVE  /\ t[1][i] = Group(n, f, k, 1)[i] /\ t[2][i] = Group(n, f, k, 2)[i]
             /\ t[3][i] = Group(n, f, k, 3)[i] /\ t[4][i] = Group(n, f, k, 4)[i]
  <2> DEFINE q == Quarter(i)
             l == (i - 1) % 4
  <2>1. q \in {0, 4, 8, 12} /\ l \in 0 .. 3 /\ i = q + l + 1
    BY QuarterIs
  <2>2. \A w \in 1 .. 4 : Group(n, f, k, w)[i] = f[<<k + l + 1, q + w>>]
    BY DEF Group
  <2> HIDE DEF q, l
  <2>3. Place(q, l, i, n)
    BY <2>1 DEF Place
  <2>4. \A w \in 1 .. 4 : q + w \in 1 .. n
    BY <2>1
  <2>5. /\ t[1][i] = Fourth(a, b, c, d, l, q + 1) /\ t[2][i] = Fourth(a, b, c, d, l, q + 2)
        /\ t[3][i] = Fourth(a, b, c, d, l, q + 3) /\ t[4][i] = Fourth(a, b, c, d, l, q + 4)
    BY <1>1, <1>2, <2>3, TransposeAt DEF t
  <2>6. \A w \in 1 .. 4 : Fourth(a, b, c, d, l, q + w) = f[<<k + l + 1, q + w>>]
    BY <1>4, <2>1, <2>4
  <2> QED
    BY <2>2, <2>5, <2>6
<1>6. t = <<t[1], t[2], t[3], t[4]>> /\ \A w \in 1 .. 4 : t[w] = [i \in 1 .. n |-> t[w][i]]
  BY <1>1, <1>2, TransposeDomain DEF t
<1>7. /\ t[1] = Group(n, f, k, 1) /\ t[2] = Group(n, f, k, 2)
      /\ t[3] = Group(n, f, k, 3) /\ t[4] = Group(n, f, k, 4)
  <2> DEFINE Row(x) == x = [i \in 1 .. n |-> x[i]]
             g(w) == Group(n, f, k, w)
  <2>1. \A w \in 1 .. 4 : Row(t[w])
    BY <1>6
  <2>2. Row(t[1]) /\ Row(t[2]) /\ Row(t[3]) /\ Row(t[4])
    <3> HIDE DEF Row
    <3> QED
      BY <2>1
  <2>3. ASSUME NEW w PROVE Row(g(w))
    BY DEF Group
  <2>4. ASSUME NEW x, NEW y, Row(x), Row(y), \A i \in 1 .. n : x[i] = y[i]
        PROVE  x = y
    BY <2>4
  <2>5. /\ \A i \in 1 .. n : t[1][i] = g(1)[i]
        /\ \A i \in 1 .. n : t[2][i] = g(2)[i]
        /\ \A i \in 1 .. n : t[3][i] = g(3)[i]
        /\ \A i \in 1 .. n : t[4][i] = g(4)[i]
    BY <1>5
  <2>6. Row(g(1)) /\ Row(g(2)) /\ Row(g(3)) /\ Row(g(4))
    BY <2>3
  <2> HIDE DEF Row, g
  <2>7. t[1] = g(1) /\ t[2] = g(2) /\ t[3] = g(3) /\ t[4] = g(4)
    BY <2>2, <2>4, <2>5, <2>6
  <2> QED
    BY <2>7 DEF g
<1>8. Groups(n, f, k, t)
  BY <1>6, <1>7, Zenon DEF Groups
<1> QED
  BY <1>8 DEF t

\* Four of the vectors.
LEMMA FourOf ==
  ASSUME NEW n \in {8, 16}, NEW f, NEW k \in {0, 4, 8, 12}, k < n
  PROVE  Four(SubSeq(Matrix(n, f), k + 1, k + 4), Matrix(n, f)[k + 1], Matrix(n, f)[k + 2],
              Matrix(n, f)[k + 3], Matrix(n, f)[k + 4])
<1> DEFINE m == Matrix(n, f)
           s == SubSeq(m, k + 1, k + 4)
<1>1. s = [i \in 1 .. (1 + (k + 4) - (k + 1)) |-> m[(k + 1) + i - 1]]
  OBVIOUS
<1>2. 1 + (k + 4) - (k + 1) = 4 /\ \A i \in 1 .. 4 : (k + 1) + i - 1 = k + i
  OBVIOUS
<1> HIDE DEF m, s
<1>3. s = [i \in 1 .. 4 |-> m[k + i]]
  BY <1>1, <1>2
<1>4. s[1] = m[k + 1] /\ s[2] = m[k + 2] /\ s[3] = m[k + 3] /\ s[4] = m[k + 4]
  BY <1>3
<1>5. Four(s, m[k + 1], m[k + 2], m[k + 3], m[k + 4])
  BY <1>4 DEF Four
<1> QED
  BY <1>5 DEF m, s

\* transpose_vecs() of SSE2 and SSE4.1 transposes.
LEMMA Transpose4 ==
  ASSUME NEW f
  PROVE  transpose_vecs4(Matrix(4, f)) = Flipped(4, f)
<1> DEFINE m == Matrix(4, f)
           t == transpose_vecs4(m)
<1>1. Four(m, m[0 + 1], m[0 + 2], m[0 + 3], m[0 + 4])
  BY DEF Four
<1>2. Groups(4, f, 0, t)
  BY <1>1, FourTransposed
<1>3. ASSUME NEW c \in 1 .. 4 PROVE Group(4, f, 0, c) = Flipped(4, f)[c]
  <2>1. \A i \in 1 .. 4 : 0 + ((i - 1) % 4) + 1 = i /\ Quarter(i) + c = c
    BY DEF Quarter
  <2> QED
    BY <2>1 DEF Group, Flipped
<1>4. Flipped(4, f) = <<Flipped(4, f)[1], Flipped(4, f)[2], Flipped(4, f)[3], Flipped(4, f)[4]>>
  BY DEF Flipped
<1> HIDE DEF t
<1>5. t = <<Flipped(4, f)[1], Flipped(4, f)[2], Flipped(4, f)[3], Flipped(4, f)[4]>>
  BY <1>2, <1>3 DEF Groups
<1> QED
  BY <1>4, <1>5 DEF t

\* Two runs of lanes, one after the other.
Run(p, m) == [i \in 1 .. m |-> p[i]]

Joined(a, m, b, n) == [j \in 1 .. m + n |-> IF j <= m THEN a[j] ELSE b[j - m]]

\* Two runs make one.
LEMMA RunJoin ==
  ASSUME NEW a, NEW b, NEW m \in Nat, NEW n \in Nat
  PROVE  Run(a, m) \o Run(b, n) = Joined(a, m, b, n)
BY DEF Run, Joined

\* Two halves make an AVX2 vector.
LEMMA Permute ==
  ASSUME NEW a, NEW b, NEW first \in {0, 4}
  PROVE  permute2x128(a, b, first)
           = [j \in 1 .. 8 |-> IF j <= 4 THEN a[first + j] ELSE b[first + (j - 4)]]
<1> DEFINE s(x) == SubSeq(x, first + 1, first + 4)
<1>1. ASSUME NEW x PROVE s(x) = [i \in 1 .. 4 |-> x[first + i]]
  <2>1. s(x) = [i \in 1 .. (1 + (first + 4) - (first + 1)) |-> x[(first + 1) + i - 1]]
    OBVIOUS
  <2>2. 1 + (first + 4) - (first + 1) = 4 /\ \A i \in 1 .. 4 : (first + 1) + i - 1 = first + i
    OBVIOUS
  <2> HIDE DEF s
  <2> QED
    BY <2>1, <2>2
<1>2. permute2x128(a, b, first) = s(a) \o s(b)
  BY DEF permute2x128
<1>3. s(a) = Run(s(a), 4) /\ s(b) = Run(s(b), 4)
  <2> HIDE DEF s
  <2> QED
    BY <1>1 DEF Run
<1>4. Run(s(a), 4) \o Run(s(b), 4)
        = [j \in 1 .. 8 |-> IF j <= 4 THEN s(a)[j] ELSE s(b)[j - 4]]
  <2> DEFINE x == s(a)
             y == s(b)
             m == 4
  <2>1. m \in Nat /\ 4 + 4 = 8
    OBVIOUS
  <2> HIDE DEF m, x, y
  <2>2. Run(x, m) \o Run(y, m) = Joined(x, m, y, m)
    BY <2>1, RunJoin, Zenon
  <2>3. Run(x, 4) \o Run(y, 4) = Joined(x, 4, y, 4)
    BY <2>2, Zenon DEF m
  <2>4. Joined(x, 4, y, 4) = [j \in 1 .. 8 |-> IF j <= 4 THEN x[j] ELSE y[j - 4]]
    BY <2>1 DEF Joined
  <2> QED
    BY <2>3, <2>4, Zenon DEF x, y
<1>5. ASSUME NEW j \in 1 .. 8
      PROVE  (IF j <= 4 THEN s(a)[j] ELSE s(b)[j - 4])
               = IF j <= 4 THEN a[first + j] ELSE b[first + (j - 4)]
  <2> HIDE DEF s
  <2> QED
    BY <1>1
<1> HIDE DEF s
<1>6. s(a) \o s(b) = [j \in 1 .. 8 |-> IF j <= 4 THEN s(a)[j] ELSE s(b)[j - 4]]
  BY <1>3, <1>4
<1> QED
  BY <1>2, <1>5, <1>6

\* transpose_vecs() of AVX2 transposes.
LEMMA Transpose8 ==
  ASSUME NEW f
  PROVE  transpose_vecs8(Matrix(8, f)) = Flipped(8, f)
<1> DEFINE m == Matrix(8, f)
           t(k) == transpose_vecs4(SubSeq(m, k + 1, k + 4))
           g(k, c) == Group(8, f, k, c)
<1>1. ASSUME NEW k \in {0, 4} PROVE \A c \in 1 .. 4 : t(k)[c] = g(k, c)
  <2>1. Groups(8, f, k, t(k))
    BY FourOf, FourTransposed
  <2> HIDE DEF t, g
  <2> QED
    BY <2>1 DEF Groups, g
<1>2. ASSUME NEW k \in {0, 4}, NEW c \in 1 .. 4, NEW first \in {0, 4}, NEW j \in 1 .. 4
      PROVE  g(k, c)[first + j] = f[<<k + j, first + c>>]
  <2>1. first + j \in 1 .. 8 /\ k + ((first + j - 1) % 4) + 1 = k + j /\ Quarter(first + j) = first
    BY DEF Quarter
  <2> QED
    BY <2>1 DEF Group
<1>3. transpose_vecs8(m)
        = [i \in 1 .. 8 |-> IF i <= 4 THEN permute2x128(t(0)[i], t(4)[i], 0)
                            ELSE permute2x128(t(0)[i - 4], t(4)[i - 4], 4)]
  <2>1. 0 + 1 = 1 /\ 0 + 4 = 4 /\ 4 + 1 = 5 /\ 4 + 4 = 8
    OBVIOUS
  <2> HIDE DEF m
  <2> QED
    BY <2>1 DEF transpose_vecs8
<1> HIDE DEF t, m
<1>4. ASSUME NEW c \in 1 .. 4, NEW first \in {0, 4}
      PROVE  permute2x128(t(0)[c], t(4)[c], first) = [j \in 1 .. 8 |-> f[<<j, first + c>>]]
  <2>1. permute2x128(g(0, c), g(4, c), first)
          = [j \in 1 .. 8 |-> IF j <= 4 THEN g(0, c)[first + j] ELSE g(4, c)[first + (j - 4)]]
    BY Permute
  <2>2. ASSUME NEW j \in 1 .. 8
        PROVE  (IF j <= 4 THEN g(0, c)[first + j] ELSE g(4, c)[first + (j - 4)]) = f[<<j, first + c>>]
    <3>1. CASE j <= 4
      <4>1. j \in 1 .. 4 /\ 0 + j = j /\ 0 \in {0, 4}
        BY <3>1
      <4> HIDE DEF g
      <4>2. g(0, c)[first + j] = f[<<0 + j, first + c>>]
        BY <1>2, <4>1, Zenon
      <4> QED
        BY <3>1, <4>1, <4>2, Zenon
    <3>2. CASE ~ (j <= 4)
      <4>1. j - 4 \in 1 .. 4 /\ 4 + (j - 4) = j /\ 4 \in {0, 4}
        BY <3>2
      <4> HIDE DEF g
      <4>2. g(4, c)[first + (j - 4)] = f[<<4 + (j - 4), first + c>>]
        BY <1>2, <4>1, Zenon
      <4> QED
        BY <3>2, <4>1, <4>2, Zenon
    <3> QED
      BY <3>1, <3>2
  <2>3. t(0)[c] = g(0, c) /\ t(4)[c] = g(4, c)
    BY <1>1
  <2> HIDE DEF g
  <2> QED
    BY <2>1, <2>2, <2>3
<1>5. ASSUME NEW i \in 1 .. 8
      PROVE  (IF i <= 4 THEN permute2x128(t(0)[i], t(4)[i], 0)
              ELSE permute2x128(t(0)[i - 4], t(4)[i - 4], 4)) = [j \in 1 .. 8 |-> f[<<j, i>>]]
  <2>1. CASE i <= 4
    <3>1. i \in 1 .. 4 /\ 0 + i = i
      BY <2>1
    <3> QED
      BY <1>4, <2>1, <3>1
  <2>2. CASE ~ (i <= 4)
    <3>1. i - 4 \in 1 .. 4 /\ 4 + (i - 4) = i
      BY <2>2
    <3> QED
      BY <1>4, <2>2, <3>1
  <2> QED
    BY <2>1, <2>2
<1> QED
  BY <1>3, <1>5 DEF Flipped, m

\* Four quarters of a vector, one after the other.
Quartered(a, b, c, d) ==
  [j \in 1 .. 16 |-> IF j <= 4 THEN a[j] ELSE IF j <= 8 THEN b[j - 4]
                     ELSE IF j <= 12 THEN c[j - 8] ELSE d[j - 12]]

\* Four runs make an AVX-512 vector.
LEMMA RunsJoin ==
  ASSUME NEW a, NEW b, NEW c, NEW d
  PROVE  Run(a, 4) \o Run(b, 4) \o Run(c, 4) \o Run(d, 4) = Quartered(a, b, c, d)
<1> DEFINE m == 4
           n == 8
           p == 12
           x == Joined(a, m, b, m)
           y == Joined(x, n, c, m)
           z == Joined(y, p, d, m)
<1>1. m \in Nat /\ n \in Nat /\ p \in Nat
  OBVIOUS
<1>2. x = Run(x, n)
  BY DEF Joined, Run
<1>3. y = Run(y, p)
  <2> HIDE DEF x
  <2> QED
    BY DEF Joined, Run
<1>4. z = Quartered(a, b, c, d)
  <2>1. \A j \in 1 .. 8 : x[j] = IF j <= 4 THEN a[j] ELSE b[j - 4]
    BY DEF Joined
  <2>2. \A j \in 1 .. 12 : y[j] = IF j <= 8 THEN x[j] ELSE c[j - 8]
    <3> HIDE DEF x
    <3> QED
      BY DEF Joined
  <2>3. z = [j \in 1 .. 16 |-> IF j <= 12 THEN y[j] ELSE d[j - 12]]
    <3> HIDE DEF y
    <3> QED
      BY DEF Joined
  <2> HIDE DEF x, y, z
  <2>4. ASSUME NEW j \in 1 .. 16
        PROVE  (IF j <= 12 THEN y[j] ELSE d[j - 12])
                 = IF j <= 4 THEN a[j] ELSE IF j <= 8 THEN b[j - 4]
                   ELSE IF j <= 12 THEN c[j - 8] ELSE d[j - 12]
    BY <2>1, <2>2
  <2> QED
    BY <2>3, <2>4 DEF Quartered
<1> HIDE DEF m, n, p
<1>5. Run(a, m) \o Run(b, m) = x
  BY <1>1, RunJoin, Zenon
<1> HIDE DEF x
<1>6. Run(x, n) \o Run(c, m) = y
  BY <1>1, RunJoin, Zenon DEF y
<1> HIDE DEF y
<1>7. Run(y, p) \o Run(d, m) = z
  BY <1>1, RunJoin, Zenon DEF z
<1> HIDE DEF z
<1>8. Run(a, m) \o Run(b, m) \o Run(c, m) \o Run(d, m) = z
  BY <1>2, <1>3, <1>5, <1>6, <1>7, Zenon
<1> QED
  BY <1>4, <1>8, Zenon DEF m

\* Lane l + 1 of quarter q, after two quarters of a and two of b.
Halved(a, b, first, q, j) ==
  CASE q = 0 -> a[4 * first + j] [] q = 4 -> a[4 * (first + 2) + j]
    [] q = 8 -> b[4 * first + j] [] q = 12 -> b[4 * (first + 2) + j]

\* What unpacking quarters of two vectors has in a lane.
LEMMA Unpack128 ==
  ASSUME NEW a, NEW b, NEW first \in {0, 1}
  PROVE  /\ unpack_128(a, b, first) = [x \in 1 .. 16 |-> unpack_128(a, b, first)[x]]
         /\ \A q \in {0, 4, 8, 12}, j \in 1 .. 4 :
              unpack_128(a, b, first)[q + j] = Halved(a, b, first, q, j)
<1> DEFINE s(v, q) == SubSeq(v, 4 * q + 1, 4 * q + 4)
           u == unpack_128(a, b, first)
<1>1. ASSUME NEW v, NEW q \in 0 .. 3
      PROVE  s(v, q) = Run(s(v, q), 4) /\ \A j \in 1 .. 4 : s(v, q)[j] = v[4 * q + j]
  <2>1. s(v, q) = [i \in 1 .. (1 + (4 * q + 4) - (4 * q + 1)) |-> v[(4 * q + 1) + i - 1]]
    OBVIOUS
  <2>2. 1 + (4 * q + 4) - (4 * q + 1) = 4 /\ \A i \in 1 .. 4 : (4 * q + 1) + i - 1 = 4 * q + i
    OBVIOUS
  <2> HIDE DEF s
  <2>3. s(v, q) = [i \in 1 .. 4 |-> v[4 * q + i]]
    BY <2>1, <2>2
  <2> QED
    BY <2>3 DEF Run
<1>2. u = s(a, first) \o s(a, first + 2) \o s(b, first) \o s(b, first + 2)
  BY DEF unpack_128
<1>3. first \in 0 .. 3 /\ first + 2 \in 0 .. 3
  OBVIOUS
<1> HIDE DEF s, u
<1>4. u = Quartered(s(a, first), s(a, first + 2), s(b, first), s(b, first + 2))
  <2> DEFINE w == s(a, first)
             x == s(a, first + 2)
             y == s(b, first)
             z == s(b, first + 2)
  <2>1. w = Run(w, 4) /\ x = Run(x, 4) /\ y = Run(y, 4) /\ z = Run(z, 4)
    BY <1>1, <1>3
  <2>2. u = w \o x \o y \o z
    BY <1>2
  <2> HIDE DEF w, x, y, z
  <2>3. u = Run(w, 4) \o Run(x, 4) \o Run(y, 4) \o Run(z, 4)
    BY <2>1, <2>2, Zenon
  <2>4. u = Quartered(w, x, y, z)
    BY <2>3, RunsJoin, Zenon
  <2> QED
    BY <2>4 DEF w, x, y, z
<1>5. u = [x \in 1 .. 16 |-> u[x]]
  BY <1>4 DEF Quartered
<1>6. ASSUME NEW q \in {0, 4, 8, 12}, NEW j \in 1 .. 4
      PROVE  u[q + j] = Halved(a, b, first, q, j)
  <2> DEFINE w == s(a, first)
             x == s(a, first + 2)
             y == s(b, first)
             z == s(b, first + 2)
  <2>1. /\ w[j] = a[4 * first + j] /\ x[j] = a[4 * (first + 2) + j]
        /\ y[j] = b[4 * first + j] /\ z[j] = b[4 * (first + 2) + j]
    BY <1>1, <1>3
  <2>2. u = Quartered(w, x, y, z)
    BY <1>4
  <2> HIDE DEF w, x, y, z
  <2>3. q + j \in 1 .. 16
    OBVIOUS
  <2>4. u[q + j] = IF q + j <= 4 THEN w[q + j] ELSE IF q + j <= 8 THEN x[q + j - 4]
                   ELSE IF q + j <= 12 THEN y[q + j - 8] ELSE z[q + j - 12]
    BY <2>2, <2>3 DEF Quartered
  <2>5. CASE q = 0
    BY <2>1, <2>4, <2>5 DEF Halved
  <2>6. CASE q = 4
    BY <2>1, <2>4, <2>6 DEF Halved
  <2>7. CASE q = 8
    BY <2>1, <2>4, <2>7 DEF Halved
  <2>8. CASE q = 12
    BY <2>1, <2>4, <2>8 DEF Halved
  <2> QED
    BY <2>5, <2>6, <2>7, <2>8
<1> QED
  BY <1>5, <1>6 DEF u

\* Lanes of half an AVX-512 vector: input k + j, or k + 4 + j in the second half, and
\* word c of half h of its quarters.
Eighth(f, k, c, h, q, j) ==
  CASE q = 0 -> f[<<k + j, 4 * h + c>>] [] q = 4 -> f[<<k + j, 4 * (h + 2) + c>>]
    [] q = 8 -> f[<<k + 4 + j, 4 * h + c>>] [] q = 12 -> f[<<k + 4 + j, 4 * (h + 2) + c>>]

\* After the second step a vector has two words' quarters.
LEMMA EighthIs ==
  ASSUME NEW f, NEW k \in {0, 8}, NEW c \in 1 .. 4, NEW h \in {0, 1},
         NEW q \in {0, 4, 8, 12}, NEW j \in 1 .. 4
  PROVE  unpack_128(Group(16, f, k, c), Group(16, f, k + 4, c), h)[q + j] = Eighth(f, k, c, h, q, j)
<1> DEFINE a == Group(16, f, k, c)
           b == Group(16, f, k + 4, c)
<1>1. ASSUME NEW r \in {0, 4, 8, 12}, NEW o \in {k, k + 4}
      PROVE  Group(16, f, o, c)[r + j] = f[<<o + j, r + c>>]
  <2>1. r + j \in 1 .. 16 /\ o + ((r + j - 1) % 4) + 1 = o + j /\ Quarter(r + j) = r
    BY DEF Quarter
  <2> QED
    BY <2>1 DEF Group
<1>2. ASSUME NEW g \in 0 .. 3
      PROVE  a[4 * g + j] = f[<<k + j, 4 * g + c>>] /\ b[4 * g + j] = f[<<k + 4 + j, 4 * g + c>>]
  <2> DEFINE r == 4 * g
  <2>1. r \in {0, 4, 8, 12}
    OBVIOUS
  <2> HIDE DEF r
  <2>2. a[r + j] = f[<<k + j, r + c>>] /\ b[r + j] = f[<<k + 4 + j, r + c>>]
    BY <1>1, <2>1
  <2> QED
    BY <2>2 DEF r
<1> HIDE DEF a, b
<1>3. unpack_128(a, b, h)[q + j] = Halved(a, b, h, q, j)
  BY Unpack128
<1>4. h \in 0 .. 3 /\ h + 2 \in 0 .. 3
  OBVIOUS
<1>5. Halved(a, b, h, q, j) = Eighth(f, k, c, h, q, j)
  BY <1>2, <1>4 DEF Halved, Eighth
<1> QED
  BY <1>3, <1>5 DEF a, b

Laid(a, f, k, c, h) ==
  \A q \in {0, 4, 8, 12}, j \in 1 .. 4 : a[q + j] = Eighth(f, k, c, h, q, j)

Pieces(a, b, f, c, h) == Laid(a, f, 0, c, h) /\ Laid(b, f, 8, c, h)

\* The vector a word goes to, after the last step.
Goal(i, c, h, s) ==
  /\ c \in 1 .. 4 /\ h \in {0, 1} /\ s \in {0, 1}
  /\ i \in 1 .. 16 /\ i = 8 * s + 4 * h + c

Column(f, i) == [x \in 1 .. 16 |-> f[<<x, i>>]]

\* After the third it has one word of every input, in order.
LEMMA SixteenthIs ==
  ASSUME NEW f, NEW a, NEW b, NEW c, NEW h, NEW s, NEW i,
         Pieces(a, b, f, c, h), Goal(i, c, h, s)
  PROVE  unpack_128(a, b, s) = Column(f, i)
<1> USE DEF Pieces, Laid, Goal
<1> DEFINE u == unpack_128(a, b, s)
<1>1. u = [x \in 1 .. 16 |-> u[x]] /\ \A q \in {0, 4, 8, 12}, j \in 1 .. 4 : u[q + j] = Halved(a, b, s, q, j)
  BY Unpack128
<1> HIDE DEF u
<1>2. ASSUME NEW q \in {0, 4, 8, 12}, NEW j \in 1 .. 4 PROVE Halved(a, b, s, q, j) = f[<<q + j, i>>]
  <2>1. ASSUME NEW g \in {0, 2}
        PROVE  /\ a[4 * (s + g) + j] = f[<<2 * g + j, i>>]
               /\ b[4 * (s + g) + j] = f[<<8 + 2 * g + j, i>>]
    <3> DEFINE p == 4 * (s + g)
    <3>1. p \in {0, 4, 8, 12}
      OBVIOUS
    <3>2. Eighth(f, 0, c, h, p, j) = f[<<2 * g + j, i>>] /\ Eighth(f, 8, c, h, p, j) = f[<<8 + 2 * g + j, i>>]
      <4>1. CASE s = 0 /\ g = 0
        <5>1. p = 0 /\ 4 * h + c = i /\ 0 + j = 2 * g + j /\ 8 + j = 8 + 2 * g + j
          BY <4>1
        <5> HIDE DEF p
        <5> QED
          BY <5>1 DEF Eighth
      <4>2. CASE s = 1 /\ g = 0
        <5>1. p = 4 /\ 4 * (h + 2) + c = i /\ 0 + j = 2 * g + j /\ 8 + j = 8 + 2 * g + j
          BY <4>2
        <5> HIDE DEF p
        <5> QED
          BY <5>1 DEF Eighth
      <4>3. CASE s = 0 /\ g = 2
        <5>1. p = 8 /\ 4 * h + c = i /\ 0 + 4 + j = 2 * g + j /\ 8 + 4 + j = 8 + 2 * g + j
          BY <4>3
        <5> HIDE DEF p
        <5> QED
          BY <5>1 DEF Eighth
      <4>4. CASE s = 1 /\ g = 2
        <5>1. p = 12 /\ 4 * (h + 2) + c = i /\ 0 + 4 + j = 2 * g + j /\ 8 + 4 + j = 8 + 2 * g + j
          BY <4>4
        <5> HIDE DEF p
        <5> QED
          BY <5>1 DEF Eighth
      <4> QED
        BY <4>1, <4>2, <4>3, <4>4
    <3> HIDE DEF p
    <3>3. a[p + j] = f[<<2 * g + j, i>>] /\ b[p + j] = f[<<8 + 2 * g + j, i>>]
      BY <3>1, <3>2
    <3> QED
      BY <3>3 DEF p
  <2> DEFINE z == 0
             w == 2
  <2>2. z \in {0, 2} /\ w \in {0, 2}
    OBVIOUS
  <2> HIDE DEF z, w
  <2>3. /\ a[4 * (s + z) + j] = f[<<2 * z + j, i>>] /\ b[4 * (s + z) + j] = f[<<8 + 2 * z + j, i>>]
        /\ a[4 * (s + w) + j] = f[<<2 * w + j, i>>] /\ b[4 * (s + w) + j] = f[<<8 + 2 * w + j, i>>]
    BY <2>1, <2>2
  <2>4. /\ 4 * (s + z) + j = 4 * s + j /\ 2 * z + j = 0 + j /\ 8 + 2 * z + j = 8 + j
        /\ 4 * (s + w) + j = 4 * (s + 2) + j /\ 2 * w + j = 4 + j /\ 8 + 2 * w + j = 12 + j
    BY DEF z, w
  <2>5. /\ a[4 * s + j] = f[<<0 + j, i>>] /\ b[4 * s + j] = f[<<8 + j, i>>]
        /\ a[4 * (s + 2) + j] = f[<<4 + j, i>>] /\ b[4 * (s + 2) + j] = f[<<12 + j, i>>]
    BY <2>3, <2>4
  <2> QED
    BY <2>5 DEF Halved
<1>3. ASSUME NEW x \in 1 .. 16 PROVE u[x] = f[<<x, i>>]
  <2>1. PICK q \in {0, 4, 8, 12}, j \in 1 .. 4 : x = q + j
    <3>1. Quarter(x) \in {0, 4, 8, 12} /\ ((x - 1) % 4) + 1 \in 1 .. 4 /\ x = Quarter(x) + (((x - 1) % 4) + 1)
      BY QuarterIs
    <3> QED
      BY <3>1
  <2> QED
    BY <1>1, <1>2, <2>1
<1>4. u = [x \in 1 .. 16 |-> f[<<x, i>>]]
  BY <1>1, <1>3
<1> QED
  BY <1>4 DEF u, Column

\* transpose_vecs_512() transposes.
LEMMA Transpose16 ==
  ASSUME NEW f
  PROVE  transpose_vecs_512(Matrix(16, f)) = Flipped(16, f)
<1> DEFINE m == Matrix(16, f)
           t(k) == transpose_vecs4(SubSeq(m, k + 1, k + 4))
           e(k) == [i \in 1 .. 8 |-> IF i <= 4 THEN unpack_128(t(k)[i], t(k + 4)[i], 0)
                                     ELSE unpack_128(t(k)[i - 4], t(k + 4)[i - 4], 1)]
           r(i) == IF i <= 8 THEN unpack_128(e(0)[i], e(8)[i], 0) ELSE unpack_128(e(0)[i - 8], e(8)[i - 8], 1)
<1>1. transpose_vecs_512(m) = [i \in 1 .. 16 |-> r(i)]
  BY DEF transpose_vecs_512
<1>2. ASSUME NEW k \in {0, 4, 8, 12}, NEW c \in 1 .. 4 PROVE t(k)[c] = Group(16, f, k, c)
  <2>1. Groups(16, f, k, t(k))
    BY FourOf, FourTransposed
  <2> HIDE DEF t
  <2> QED
    BY <2>1 DEF Groups
<1> HIDE DEF t, m
<1>3. ASSUME NEW k \in {0, 8}, NEW c \in 1 .. 4, NEW h \in {0, 1}
      PROVE  e(k)[4 * h + c] = unpack_128(Group(16, f, k, c), Group(16, f, k + 4, c), h)
  <2>1. t(k)[c] = Group(16, f, k, c) /\ t(k + 4)[c] = Group(16, f, k + 4, c)
    BY <1>2
  <2>2. 4 * h + c \in 1 .. 8
    OBVIOUS
  <2>3. CASE h = 0
    <3>1. 4 * h + c = c /\ c <= 4
      BY <2>3
    <3> QED
      BY <2>1, <2>2, <2>3, <3>1
  <2>4. CASE h = 1
    <3>1. 4 * h + c - 4 = c /\ ~ (4 * h + c <= 4)
      BY <2>4
    <3> QED
      BY <2>1, <2>2, <2>4, <3>1
  <2> QED
    BY <2>3, <2>4
<1> HIDE DEF e
<1>4. ASSUME NEW c \in 1 .. 4, NEW h \in {0, 1}, NEW s \in {0, 1}, NEW p, p = 4 * h + c,
             NEW i \in 1 .. 16, i = 8 * s + p
      PROVE  unpack_128(e(0)[p], e(8)[p], s) = Column(f, i)
  <2> DEFINE a == e(0)[p]
             b == e(8)[p]
  <2>0. i = 8 * s + 4 * h + c
    BY <1>4
  <2>1. ASSUME NEW q \in {0, 4, 8, 12}, NEW j \in 1 .. 4
        PROVE  a[q + j] = Eighth(f, 0, c, h, q, j) /\ b[q + j] = Eighth(f, 8, c, h, q, j)
    BY <1>3, <1>4, EighthIs
  <2> HIDE DEF a, b
  <2>2. Pieces(a, b, f, c, h) /\ Goal(i, c, h, s)
    BY <2>0, <2>1 DEF Pieces, Laid, Goal
  <2>3. unpack_128(a, b, s) = Column(f, i)
    BY <2>2, SixteenthIs
  <2> QED
    BY <2>3, Zenon DEF a, b
<1>5. ASSUME NEW i \in 1 .. 16 PROVE r(i) = Column(f, i)
  <2>0. PICK s \in {0, 1}, h \in {0, 1}, c \in 1 .. 4 : i = 8 * s + 4 * h + c
    OBVIOUS
  <2> DEFINE p == 4 * h + c
  <2>1. p = 4 * h + c /\ i = 8 * s + p
    BY <2>0
  <2> HIDE DEF p
  <2>2. unpack_128(e(0)[p], e(8)[p], s) = Column(f, i)
    BY <1>4, <2>1
  <2>3. CASE s = 0
    <3>1. i <= 8 /\ p = i
      BY <2>1, <2>3
    <3> QED
      BY <2>2, <2>3, <3>1
  <2>4. CASE s = 1
    <3>1. ~ (i <= 8) /\ p = i - 8
      BY <2>1, <2>4
    <3> QED
      BY <2>2, <2>4, <3>1
  <2> QED
    BY <2>3, <2>4
<1> HIDE DEF r
<1>6. [i \in 1 .. 16 |-> r(i)] = Flipped(16, f)
  BY <1>5 DEF Flipped, Column
<1> QED
  BY <1>1, <1>6 DEF m

\* All three do.
LEMMA TransposeIs ==
  ASSUME NEW n \in {4, 8, 16}, NEW f
  PROVE  transpose_vecs(n, Matrix(n, f)) = Flipped(n, f)
<1>1. CASE n = 4
  BY <1>1, Transpose4 DEF transpose_vecs
<1>2. CASE n = 8
  BY <1>2, Transpose8 DEF transpose_vecs
<1>3. CASE n = 16
  BY <1>3, Transpose16 DEF transpose_vecs
<1> QED
  BY <1>1, <1>2, <1>3

\* A square of vectors, and what becomes of it.
Square(m, n) == n \in {4, 8, 16} /\ m = [j \in 1 .. n |-> [i \in 1 .. n |-> m[j][i]]]

\* For every square of vectors.
LEMMA TransposeOf ==
  ASSUME NEW n, NEW m, Square(m, n)
  PROVE  \A i \in 1 .. n, j \in 1 .. n : transpose_vecs(n, m)[i][j] = m[j][i]
<1> DEFINE f == [p \in (1 .. n) \X (1 .. n) |-> m[p[1]][p[2]]]
<1>1. \A j \in 1 .. n, i \in 1 .. n : f[<<j, i>>] = m[j][i]
  OBVIOUS
<1> HIDE DEF f
<1>2. m = Matrix(n, f)
  BY <1>1 DEF Square, Matrix
<1>3. transpose_vecs(n, m) = Flipped(n, f)
  BY <1>2, TransposeIs DEF Square
<1>4. ASSUME NEW i \in 1 .. n, NEW j \in 1 .. n PROVE Flipped(n, f)[i][j] = m[j][i]
  <2>1. Flipped(n, f)[i][j] = f[<<j, i>>]
    BY DEF Flipped
  <2> QED
    BY <1>1, <2>1
<1> QED
  BY <1>3, <1>4

\* Message words are loaded lane by lane: lane i has its input's words.
LEMMA Loading ==
  ASSUME NEW n \in {4, 8, 16}
  PROVE  transpose_msg_vecs(n) = [w \in 0 .. 15 |-> [i \in 1 .. n |-> <<i, w>>]]
<1> DEFINE m(k) == [i \in 1 .. n |-> [j \in 1 .. n |-> <<i, n * k + j - 1>>]]
           t(k) == transpose_vecs(n, m(k))
<1>1. transpose_msg_vecs(n) = [w \in 0 .. 15 |-> t(w \div n)[(w % n) + 1]]
  BY DEF transpose_msg_vecs
<1>2. ASSUME NEW w \in 0 .. 15 PROVE t(w \div n)[(w % n) + 1] = [i \in 1 .. n |-> <<i, w>>]
  <2> DEFINE k == w \div n
             j == (w % n) + 1
             f == [p \in (1 .. n) \X (1 .. n) |-> <<p[1], n * k + p[2] - 1>>]
  <2>1. j \in 1 .. n /\ n * k + j - 1 = w
    OBVIOUS
  <2>2. \A i \in 1 .. n : f[<<i, j>>] = <<i, n * k + j - 1>>
    <3> HIDE DEF k, j
    <3> QED
      BY <2>1
  <2>3. m(k) = Matrix(n, f)
    <3> HIDE DEF k
    <3> QED
      BY DEF Matrix
  <2> HIDE DEF k, j, f
  <2>4. t(k) = Flipped(n, f)
    BY <2>3, TransposeIs
  <2> HIDE DEF t, m
  <2>5. t(k)[j] = [i \in 1 .. n |-> f[<<i, j>>]]
    BY <2>1, <2>4 DEF Flipped
  <2>6. t(k)[j] = [i \in 1 .. n |-> <<i, w>>]
    BY <2>1, <2>2, <2>5
  <2> QED
    BY <2>6 DEF k, j
<1> HIDE DEF t
<1> QED
  BY <1>1, <1>2

\* Words of n inputs are stored input by input, in order.
InOrder(n, words, x) ==
  Stored(n, [w \in 1 .. words |-> [i \in 1 .. n |-> <<i, x[w - 1]>>]])
    = [i \in 1 .. n |-> [w \in 1 .. words |-> <<i, x[w - 1]>>]]

\* Whatever the width and the number of words, also where AVX-512 pads half a block.
LEMMA Storing ==
  ASSUME NEW n \in {4, 8, 16}, NEW words \in {8, 16}, NEW x
  PROVE  InOrder(n, words, x)
<1> DEFINE v == [w \in 1 .. words |-> [i \in 1 .. n |-> <<i, x[w - 1]>>]]
           zeros == [k \in 1 .. 8 |-> [i \in 1 .. 16 |-> <<"zero">>]]
           padded == IF n > Len(v) THEN v \o zeros ELSE v
           t(k) == transpose_vecs(n, SubSeq(padded, n * k + 1, n * k + n))
           all == IF n > words THEN 16 ELSE words
           lane(w, i) == IF w <= words THEN <<i, x[w - 1]>> ELSE <<"zero">>
<1>1. Len(v) = words
  OBVIOUS
<1>2. Stored(n, v) = [i \in 1 .. n |-> [w \in 1 .. Len(v) |-> t((w - 1) \div n)[i][((w - 1) % n) + 1]]]
  BY DEF Stored
<1>3. padded = [w \in 1 .. all |-> [i \in 1 .. n |-> lane(w, i)]]
  <2> DEFINE row(w) == [i \in 1 .. n |-> lane(w, i)]
  <2>1. CASE n > words
    <3> DEFINE p == 8
    <3>1. n = 16 /\ words = p /\ p \in Nat /\ all = 16
      BY <2>1
    <3>2. v = Run(v, p) /\ zeros = Run(zeros, p)
      BY <3>1 DEF Run
    <3>3. ASSUME NEW w \in 1 .. 8 PROVE v[w] = row(w)
      <4>1. v[w] = [i \in 1 .. n |-> <<i, x[w - 1]>>] /\ \A i \in 1 .. n : lane(w, i) = <<i, x[w - 1]>>
        BY <3>1
      <4> HIDE DEF v, lane
      <4> QED
        BY <4>1
    <3>4. ASSUME NEW w \in 9 .. 16 PROVE zeros[w - 8] = row(w)
      <4>1. /\ zeros[w - 8] = [i \in 1 .. 16 |-> <<"zero">>]
            /\ \A i \in 1 .. n : lane(w, i) = <<"zero">>
        BY <3>1
      <4> HIDE DEF zeros, lane
      <4> QED
        BY <3>1, <4>1
    <3>5. padded = v \o zeros
      BY <1>1, <2>1
    <3>6. Joined(v, p, zeros, p) = [w \in 1 .. 16 |-> IF w <= 8 THEN v[w] ELSE zeros[w - 8]]
      <4> HIDE DEF v, zeros
      <4> QED
        BY DEF Joined
    <3> HIDE DEF v, zeros, p, padded
    <3>7. padded = Joined(v, p, zeros, p)
      <4>1. Run(v, p) \o Run(zeros, p) = Joined(v, p, zeros, p)
        BY <3>1, RunJoin, Zenon
      <4> QED
        BY <3>2, <3>5, <4>1, Zenon
    <3> HIDE DEF row
    <3>8. \A w \in 1 .. 16 : (IF w <= 8 THEN v[w] ELSE zeros[w - 8]) = row(w)
      BY <3>3, <3>4
    <3>9. padded = [w \in 1 .. 16 |-> row(w)]
      BY <3>6, <3>7, <3>8
    <3> QED
      BY <3>1, <3>9 DEF row
  <2>2. CASE ~ (n > words)
    <3>1. padded = v /\ all = words
      BY <1>1, <2>2
    <3>2. ASSUME NEW w \in 1 .. words PROVE [i \in 1 .. n |-> <<i, x[w - 1]>>] = row(w)
      <4>1. \A i \in 1 .. n : lane(w, i) = <<i, x[w - 1]>>
        OBVIOUS
      <4> HIDE DEF lane
      <4> QED
        BY <4>1
    <3> HIDE DEF row
    <3>3. v = [w \in 1 .. words |-> row(w)]
      BY <3>2
    <3> HIDE DEF padded, v
    <3> QED
      BY <3>1, <3>3 DEF row
  <2> QED
    BY <2>1, <2>2
<1> HIDE DEF padded
<1>4. ASSUME NEW i \in 1 .. n, NEW w \in 1 .. words
      PROVE  t((w - 1) \div n)[i][((w - 1) % n) + 1] = <<i, x[w - 1]>>
  <2> DEFINE lo == n * ((w - 1) \div n)
             j == ((w - 1) % n) + 1
             s == SubSeq(padded, lo + 1, lo + n)
  <2>1. lo \in Nat /\ lo + n <= all /\ j \in 1 .. n /\ lo + j = w
    OBVIOUS
  <2> HIDE DEF lo
  <2>2. s = [k \in 1 .. (1 + (lo + n) - (lo + 1)) |-> padded[(lo + 1) + k - 1]]
    BY <2>1
  <2> HIDE DEF j, all
  <2>3. 1 + (lo + n) - (lo + 1) = n /\ \A k \in 1 .. n : (lo + 1) + k - 1 = lo + k
    BY <2>1
  <2> HIDE DEF s
  <2>4. s = [k \in 1 .. n |-> padded[lo + k]]
    BY <2>2, <2>3
  <2>5. \A k \in 1 .. n : lo + k \in 1 .. all
    BY <1>3, <2>1 DEF all
  <2>6. \A k \in 1 .. n : s[k] = [h \in 1 .. n |-> lane(lo + k, h)]
    <3> HIDE DEF lane
    <3> QED
      BY <1>3, <2>4, <2>5
  <2>7. Square(s, n)
    <3> DEFINE rows(k) == [h \in 1 .. n |-> lane(lo + k, h)]
    <3>1. \A k \in 1 .. n : padded[lo + k] = rows(k)
      <4> HIDE DEF lane
      <4> QED
        BY <1>3, <2>5
    <3>2. \A k \in 1 .. n : rows(k) = [h \in 1 .. n |-> rows(k)[h]]
      <4> HIDE DEF lane
      <4> QED
        OBVIOUS
    <3>3. \A k \in 1 .. n : s[k] = rows(k)
      BY <2>6
    <3> HIDE DEF rows
    <3>4. s = [k \in 1 .. n |-> rows(k)]
      BY <2>4, <3>1
    <3>5. \A k \in 1 .. n : rows(k) = [h \in 1 .. n |-> s[k][h]]
      BY <3>2, <3>3
    <3>6. s = [k \in 1 .. n |-> [h \in 1 .. n |-> s[k][h]]]
      BY <3>4, <3>5
    <3> QED
      BY <3>6 DEF Square
  <2>8. transpose_vecs(n, s)[i][j] = s[j][i]
    BY <2>1, <2>7, TransposeOf
  <2>9. s[j][i] = lane(w, i)
    <3> HIDE DEF lane
    <3> QED
      BY <2>1, <2>6
  <2>10. lane(w, i) = <<i, x[w - 1]>>
    OBVIOUS
  <2>11. t((w - 1) \div n)[i][((w - 1) % n) + 1] = transpose_vecs(n, s)[i][j]
    BY DEF s, lo, j
  <2> QED
    BY <2>8, <2>9, <2>10, <2>11
<1> HIDE DEF t, v
<1>5. Stored(n, v) = [i \in 1 .. n |-> [w \in 1 .. words |-> <<i, x[w - 1]>>]]
  BY <1>1, <1>2, <1>4
<1> QED
  BY <1>5 DEF v, InOrder
=============================================================================
