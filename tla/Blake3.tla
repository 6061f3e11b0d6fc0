------------------------------- MODULE Blake3 --------------------------------
(***************************************************************************)
(* The incremental BLAKE3 hasher behind crypto_blake3_kdf(): lazy merging  *)
(* of chaining values, wide subtrees, the vector back ends and seekable    *)
(* output, against the tree that defines the hash.                         *)
(*                                                                         *)
(* A compression is named by its inputs, so two values are equal only if   *)
(* the same compressions made them, for whatever message: a chaining value *)
(* is the key it starts from, followed by the compressions since.  Byte i  *)
(* of an input is i and padding is 0: a context and the message after it   *)
(* differ by their flags.  A piece of input is a stretch of bytes, lo + 1  *)
(* up to hi.  A chaining value is as long as half a block.                 *)
(***************************************************************************)
EXTENDS Integers, Sequences, Blake3Rounds

CONSTANTS BLOCK_LEN, CHUNK_LEN,  \* bytes in a block, bytes in a chunk
          Word,                  \* what half of a counter wraps at, 2^32
          MAX_DEPTH,             \* of the tree
          Hosts,                 \* kinds of processor
          Contexts,              \* lengths of contexts keys are derived from
          Lens, MaxTotal,        \* lengths of updates, and of messages
          Requests               \* what may be asked for: <<seek, out_len>>

\* round_down_to_power_of_2() and popcnt(), bit by bit.
round_down_to_power_of_2[x \in Nat] ==
  IF x <= 1 THEN 1 ELSE 2 * round_down_to_power_of_2[x \div 2]
popcnt[x \in Nat] == IF x = 0 THEN 0 ELSE (x % 2) + popcnt[x \div 2]
Pow2[k \in Nat] == IF k = 0 THEN 1 ELSE 2 * Pow2[k - 1]

ASSUME Blake3Assumption ==
  /\ BLOCK_LEN \in Nat \ {0}
  /\ CHUNK_LEN \in Nat /\ CHUNK_LEN % BLOCK_LEN = 0
  /\ round_down_to_power_of_2[CHUNK_LEN] = CHUNK_LEN
  /\ Word \in Nat /\ Word >= 32   \* a vector's lanes do not wrap it by themselves
  /\ MAX_DEPTH \in Nat /\ MaxTotal \in Nat /\ MaxTotal <= CHUNK_LEN * Pow2[MAX_DEPTH]
  /\ Contexts \subseteq 0 .. MaxTotal /\ Lens \subseteq Nat /\ Requests \subseteq Nat \X Nat

VARIABLES host,    \* the processor, seen by cpuid and xgetbv
          mode,    \* how the hasher was initialised
          hasher,  \* blake3_hasher
          total    \* bytes since the last initialisation or reset

vars == <<host, mode, hasher, total>>

IV == "IV"
ZeroBlock == [i \in 1 .. BLOCK_LEN |-> 0]
\* The block that holds bytes lo + 1 up to hi.
Block(lo, hi) == [i \in 1 .. BLOCK_LEN |-> IF lo + i <= hi THEN lo + i ELSE 0]

Largest(S) == CHOOSE x \in S : \A y \in S : y <= x
Powers == {p \in 1 .. MaxTotal : round_down_to_power_of_2[p] = p}

\* counter_low() and counter_high().
Halves(counter) == <<counter % Word, (counter \div Word) % Word>>

make_output(cv, block, len, counter, flags) ==
  [cv |-> cv, block |-> block, len |-> len, counter |-> counter, flags |-> flags]
output_chaining_value(output) ==
  Append(output.cv, <<output.flags, Halves(output.counter), output.len, output.block>>)

----------------------------------------------------------------------------
(* Defects, used by no specification *)

\* Stale bytes stay in the buffer behind the last block.
NoBuf_Kept(chunk) == [chunk EXCEPT !.buf_len = 0, !.blocks_compressed = @ + 1]

\* One value too many is left on the stack.
Merges_Late(total_chunks) == popcnt[total_chunks] + 1

\* The right half of a pair is pushed as if the whole pair came before it.
PairCount_Whole(counter, chunks) == counter + chunks

\* The operating system is not asked whether it saves the widest registers.
get_cpu_features_Unmasked ==
  IF ~host.x86 THEN {}
  ELSE {"SSE2"} \cup (host.cpuid \cap {"SSE41"})
       \cup IF {"OSXSAVE", "YMM"} \subseteq host.cpuid /\ host.max_id >= 7
            THEN host.cpuid \cap {"AVX2", "AVX512F", "AVX512VL"} ELSE {}

\* The carry is looked for in the sign bit before the addition alone.
Carry16_Before(low, delta) == IF 2 * low >= Word THEN 1 ELSE 0

----------------------------------------------------------------------------
(* Dispatch *)

\* What the processor has and the operating system saves.  The first caller
\* stores it, and whoever races it stores the same.
get_cpu_features ==
  IF ~host.x86 THEN {}
  ELSE {"SSE2"} \cup (host.cpuid \cap {"SSE41"})
       \cup IF {"OSXSAVE", "YMM"} \subseteq host.cpuid /\ host.max_id >= 7
            THEN (host.cpuid \cap {"AVX2"})
                 \cup IF "ZMM" \in host.cpuid
                      THEN host.cpuid \cap {"AVX512F", "AVX512VL"} ELSE {}
            ELSE {}

Avx512 == {"AVX512F", "AVX512VL"} \subseteq get_cpu_features

blake3_simd_degree ==
  CASE Avx512                                      -> 16
    [] ~Avx512 /\ "AVX2" \in get_cpu_features      -> 8
    [] ~Avx512 /\ "AVX2" \notin get_cpu_features /\ "SSE2" \in get_cpu_features -> 4
    [] OTHER                                       -> 1

\* The back end of blake3_hash_many(), with how many inputs it takes at once.
ManyBackEnd ==
  LET f == get_cpu_features
  IN CASE Avx512                                           -> "avx512"
       [] ~Avx512 /\ "AVX2" \in f                          -> "avx2"
       [] ~Avx512 /\ "AVX2" \notin f /\ "SSE41" \in f      -> "sse41"
       [] ~Avx512 /\ {"AVX2", "SSE41"} \cap f = {} /\ "SSE2" \in f -> "sse2"
       [] OTHER                                            -> "portable"

hash_many_portable == {1}
hash_many_sse2 == {1, 4}
hash_many_sse41 == {1, 4}
hash_many_avx2 == {8} \cup hash_many_sse41
hash_many_avx512 == {1, 4, 8, 16}
Widths == [avx512 |-> hash_many_avx512, avx2 |-> hash_many_avx2, sse41 |-> hash_many_sse41,
           sse2 |-> hash_many_sse2, portable |-> hash_many_portable][ManyBackEnd]

\* The back end of blake3_compress_in_place(), blake3_compress_xof() and
\* blake3_xof_many(); all but the portable one keep the state in rows.
RowsBackEnd ==
  LET f == get_cpu_features
  IN CASE "AVX512VL" \in f                                -> "avx512"
       [] "AVX512VL" \notin f /\ "SSE41" \in f             -> "sse41"
       [] {"AVX512VL", "SSE41"} \cap f = {} /\ "SSE2" \in f -> "sse2"
       [] OTHER                                           -> "portable"
RowsUsed == RowsBackEnd # "portable"

\* One block after the other, or many with AVX-512VL.
WidthsXof == IF RowsBackEnd = "avx512" THEN {1, 4, 8, 16} ELSE {1}

\* An instruction faults unless the processor has its extension, which brings the
\* earlier ones with it, and the operating system has switched its registers on.
Needs == [avx512 |-> {"OSXSAVE", "YMM", "ZMM", "AVX512VL"},
          avx2 |-> {"OSXSAVE", "YMM", "AVX2"}, sse41 |-> {"SSE41"}, sse2 |-> {}, portable |-> {}]
Fault == <<"fault">>
Executed(back_end, value) == IF Needs[back_end] \subseteq host.cpuid THEN value ELSE Fault

\* load_counters(): the low word wraps, and a lane that wrapped carries.
Carry(low, delta) == IF (low + delta) % Word < delta THEN 1 ELSE 0
load_counters(counter, delta) ==
  LET h == Halves(counter)
  IN <<(h[1] + delta) % Word, (h[2] + Carry(h[1], delta)) % Word>>

\* load_counters16() takes the carry from the sign bits before and after, and
\* load_counters4() and load_counters8() add in 64 bits.
Carry16(low, delta) ==
  IF 2 * low >= Word /\ 2 * ((low + delta) % Word) < Word THEN 1 ELSE 0
load_counters16(counter, delta) ==
  LET h == Halves(counter)
  IN <<(h[1] + delta) % Word, (h[2] + Carry16(h[1], delta)) % Word>>
load_counters_avx512(counter, delta, width) ==
  CASE width = 16      -> load_counters16(counter, delta)
    [] width \in {4, 8} -> Halves(counter + delta)
    [] OTHER           -> Halves(counter)

Lane(counter, delta, width) ==
  CASE Avx512      -> load_counters_avx512(counter, delta, width)
    [] ~Avx512 /\ width = 1 -> Halves(counter)
    [] OTHER       -> load_counters(counter, delta)

\* One lane of hash4(), hash8() or hash16(), or hash_one().
Blocks(key, input, halves, flags) ==
  <<key>> \o [b \in 1 .. Len(input) |->
               <<flags.all \cup (IF b = 1 THEN flags.start ELSE {})
                           \cup (IF b = Len(input) THEN flags.end ELSE {}),
                 halves, BLOCK_LEN, input[b]>>]

\* Batches of the widest back end while there is enough, then of the next: how many
\* inputs are in the batch of input i of n.
Batch(widths, i, n) == Largest({w \in widths : i <= n - (n % w)})

blake3_hash_many(inputs, key, counter, increment, flags) ==
  [i \in 1 .. Len(inputs) |->
     LET width == Batch(Widths, i, Len(inputs))
         lane == (i - 1) % width
         halves == IF increment THEN Lane(counter + i - 1 - lane, lane, width)
                   ELSE Lane(counter, 0, width)
     IN Executed(ManyBackEnd, Blocks(key, inputs[i], halves, flags))]

RootByte(output, halves, j) ==
  <<Append(output.cv, <<output.flags \cup {"ROOT"}, halves, output.len, output.block>>), j>>

blake3_xof_many(output, counter, outblocks) ==
  [k \in 1 .. BLOCK_LEN * outblocks |->
     LET i == (k - 1) \div BLOCK_LEN
         width == Batch(WidthsXof, i + 1, outblocks)
         lane == i % width
         halves == load_counters_avx512(counter + i - lane, lane, width)
     IN Executed(RowsBackEnd, RootByte(output, halves, ((k - 1) % BLOCK_LEN) + 1))]

\* Bytes seek .. seek + out_len - 1 of the root's output: the tail of a block,
\* whole blocks, the head of a block.
output_root_bytes(output, seek, out_len) ==
  LET block == seek \div BLOCK_LEN
      offset == seek % BLOCK_LEN
      available == BLOCK_LEN - offset
      bytes == CASE offset = 0                           -> 0
                 [] offset # 0 /\ out_len > available    -> available
                 [] offset # 0 /\ out_len <= available   -> out_len
      next == IF offset = 0 THEN block ELSE block + 1
      many == (out_len - bytes) \div BLOCK_LEN
      left == (out_len - bytes) % BLOCK_LEN
  IN SubSeq(blake3_xof_many(output, block, 1), offset + 1, offset + bytes)
     \o blake3_xof_many(output, next, many)
     \o SubSeq(blake3_xof_many(output, next + many, 1), 1, left)

----------------------------------------------------------------------------
(* Chunks *)

chunk_state_init(key, flags, counter) ==
  [cv |-> <<key>>, chunk_counter |-> counter, buf |-> ZeroBlock, buf_len |-> 0,
   blocks_compressed |-> 0, flags |-> flags]

chunk_state_len(chunk) == BLOCK_LEN * chunk.blocks_compressed + chunk.buf_len

chunk_state_fill_buf(chunk, lo, hi) ==
  [chunk EXCEPT !.buf = [i \in 1 .. BLOCK_LEN |->
                          IF i \in chunk.buf_len + 1 .. chunk.buf_len + (hi - lo)
                          THEN lo + i - chunk.buf_len ELSE @[i]],
                !.buf_len = @ + (hi - lo)]

chunk_state_maybe_start_flag(blocks_compressed) ==
  IF blocks_compressed = 0 THEN {"CHUNK_START"} ELSE {}

\* The compression of a block when b blocks of the chunk were compressed before.
Compression(chunk, b, block) ==
  <<chunk.flags \cup chunk_state_maybe_start_flag(b), Halves(chunk.chunk_counter),
    BLOCK_LEN, block>>

\* The buffer is cleared when its block was compressed.
NoBuf(chunk) == [chunk EXCEPT !.buf = ZeroBlock, !.buf_len = 0, !.blocks_compressed = @ + 1]

\* A block is compressed once it is known not to be the chunk's last.
WholeBlocks(chunk, lo, hi) ==
  LET n == IF hi = lo THEN 0 ELSE (hi - lo - 1) \div BLOCK_LEN
  IN chunk_state_fill_buf(
       [chunk EXCEPT
          !.cv = @ \o [b \in 1 .. n |->
                        Compression(chunk, chunk.blocks_compressed + b - 1,
                                    Block(lo + (b - 1) * BLOCK_LEN, lo + b * BLOCK_LEN))],
          !.blocks_compressed = @ + n],
       lo + n * BLOCK_LEN, hi)

chunk_state_update(chunk, lo, hi) ==
  LET space == BLOCK_LEN - chunk.buf_len
      take == CASE chunk.buf_len = 0                       -> 0
                [] chunk.buf_len > 0 /\ hi - lo > space    -> space
                [] chunk.buf_len > 0 /\ hi - lo <= space   -> hi - lo
      filled == chunk_state_fill_buf(chunk, lo, lo + take)
      compressed == [filled EXCEPT !.cv = Append(@, Compression(filled, filled.blocks_compressed,
                                                                filled.buf))]
  IN WholeBlocks(IF chunk.buf_len > 0 /\ lo + take < hi THEN NoBuf(compressed) ELSE filled,
                 lo + take, hi)

chunk_state_output(chunk) ==
  make_output(chunk.cv, chunk.buf, chunk.buf_len, chunk.chunk_counter,
              chunk.flags \cup chunk_state_maybe_start_flag(chunk.blocks_compressed)
                          \cup {"CHUNK_END"})

ChunkValue(lo, hi, key, counter, flags) ==
  output_chaining_value(
    chunk_state_output(chunk_state_update(chunk_state_init(key, flags, counter), lo, hi)))

----------------------------------------------------------------------------
(* Subtrees *)

parent_output(left, right, key, flags) ==
  make_output(<<key>>, <<left, right>>, BLOCK_LEN, 0, flags \cup {"PARENT"})

left_subtree_len(n) == round_down_to_power_of_2[(n - 1) \div CHUNK_LEN] * CHUNK_LEN

\* Whole chunks side by side, and a partial one after them.
compress_chunks_parallel(lo, hi, key, counter, flags) ==
  LET n == (hi - lo) \div CHUNK_LEN
      whole == [i \in 1 .. n |->
                 [b \in 1 .. CHUNK_LEN \div BLOCK_LEN |->
                   LET at == lo + (i - 1) * CHUNK_LEN + (b - 1) * BLOCK_LEN
                   IN Block(at, at + BLOCK_LEN)]]
  IN blake3_hash_many(whole, key, counter, TRUE,
                      [all |-> flags, start |-> {"CHUNK_START"}, end |-> {"CHUNK_END"}])
     \o IF lo + n * CHUNK_LEN = hi THEN <<>>
        ELSE <<ChunkValue(lo + n * CHUNK_LEN, hi, key, counter + n, flags)>>

\* Pairs side by side, and an odd value as it is.
compress_parents_parallel(cvs, key, flags) ==
  LET n == Len(cvs) \div 2
  IN blake3_hash_many([i \in 1 .. n |-> <<<<cvs[2 * i - 1], cvs[2 * i]>>>>], key, 0, FALSE,
                      [all |-> flags \cup {"PARENT"}, start |-> {}, end |-> {}])
     \o SubSeq(cvs, 2 * n + 1, Len(cvs))

\* The right half's values are written behind room for as many as the degree, and
\* the whole is read from the front.
Garbage == <<"garbage">>
Side(left, right, degree) ==
  [i \in 1 .. Len(left) + Len(right) |->
     CASE i \in degree + 1 .. degree + Len(right) -> right[i - degree]
       [] i <= Len(left) /\ i <= degree           -> left[i]
       [] OTHER                                   -> Garbage]

\* By first and last byte and counter of the first chunk.
blake3_compress_subtree_wide(lo, hi, key, counter, flags) ==
  LET wide[s \in (lo .. hi) \X (lo .. hi) \X Nat] ==
        LET len == s[2] - s[1]
            n == left_subtree_len(len)
            left == wide[<<s[1], s[1] + n, s[3]>>]
            right == wide[<<s[1] + n, s[2], s[3] + n \div CHUNK_LEN>>]
            degree == IF n > CHUNK_LEN /\ blake3_simd_degree = 1 THEN 2 ELSE blake3_simd_degree
        IN IF len <= blake3_simd_degree * CHUNK_LEN
           THEN compress_chunks_parallel(s[1], s[2], key, s[3], flags)
           ELSE IF Len(left) = 1 THEN Side(left, right, degree)
                ELSE compress_parents_parallel(Side(left, right, degree), key, flags)
  IN wide[<<lo, hi, counter>>]

\* Down to the two topmost values, whose parent may be the root: there are at most 16.
compress_subtree_to_parent_node(lo, hi, key, counter, flags) ==
  LET condensed(cvs) == IF Len(cvs) <= 2 THEN cvs ELSE compress_parents_parallel(cvs, key, flags)
  IN condensed(condensed(condensed(blake3_compress_subtree_wide(lo, hi, key, counter, flags))))

----------------------------------------------------------------------------
(* The hasher *)

hasher_init_base(key, flags) ==
  [key |-> key, chunk |-> chunk_state_init(key, flags, 0), cv_stack |-> <<>>]

\* Entries n down to stop + 1 of the stack, each with all that is above it.
RollUp(h, output, n, stop) ==
  LET rolled[k \in 0 .. n - stop] ==
        IF k = 0 THEN output
        ELSE parent_output(h.cv_stack[n + 1 - k], output_chaining_value(rolled[k - 1]),
                           h.key, h.chunk.flags)
  IN rolled[n - stop]

\* The parent of the two topmost entries.
TopPair(h) ==
  LET n == Len(h.cv_stack)
  IN parent_output(h.cv_stack[n - 1], h.cv_stack[n], h.key, h.chunk.flags)

\* How many values stay when so many chunks are known not to be the last.
Merges(total_chunks) == popcnt[total_chunks]
hasher_merge_cv_stack(h, total_chunks) ==
  LET n == Len(h.cv_stack)
      stay == Merges(total_chunks)
  IN IF n <= stay THEN h
     ELSE [h EXCEPT !.cv_stack =
             Append(SubSeq(@, 1, stay - 1),
                    output_chaining_value(RollUp(h, TopPair(h), n - 2, stay - 1)))]

hasher_push_cv(h, cv, counter) ==
  LET merged == hasher_merge_cv_stack(h, counter)
  IN [merged EXCEPT !.cv_stack = Append(@, cv)]

\* The right half of a pair comes after the left one's chunks.
PairCount(counter, chunks) == counter + chunks \div 2

\* The largest subtree that fits what is left and what is there.
subtree_len(h, n) ==
  Largest({p \in Powers : /\ p <= round_down_to_power_of_2[n]
                          /\ (h.chunk.chunk_counter * CHUNK_LEN) % p = 0})

\* One value, or a pair of values.
PushValues(h, cvs, lo, hi) ==
  LET counter == h.chunk.chunk_counter
      chunks == (hi - lo) \div CHUNK_LEN
      pushed == hasher_push_cv(h, cvs[1], counter)
      both == IF hi - lo <= CHUNK_LEN THEN pushed
              ELSE hasher_push_cv(pushed, cvs[2], PairCount(counter, chunks))
  IN [both EXCEPT !.chunk.chunk_counter = @ + chunks]

PushSubtree(h, lo, hi) ==
  LET counter == h.chunk.chunk_counter
      cvs == IF hi - lo <= CHUNK_LEN THEN <<ChunkValue(lo, hi, h.key, counter, h.chunk.flags)>>
             ELSE compress_subtree_to_parent_node(lo, hi, h.key, counter, h.chunk.flags)
  IN PushValues(h, cvs, lo, hi)

\* The hasher, and where in the input it is, after so many turns of the loop.
Subtrees(h, lo, hi) ==
  LET turns[k \in 0 .. (hi - lo) \div CHUNK_LEN] ==
        IF k = 0 THEN <<h, lo>>
        ELSE LET s == turns[k - 1]
                 to == s[2] + subtree_len(s[1], hi - s[2])
             IN IF hi - s[2] <= CHUNK_LEN THEN s ELSE <<PushSubtree(s[1], s[2], to), to>>
  IN turns[(hi - lo) \div CHUNK_LEN]

\* Begin a chunk with what is left.
Finished(done, hi) ==
  IF done[2] = hi THEN done[1]
  ELSE hasher_merge_cv_stack([done[1] EXCEPT !.chunk = chunk_state_update(@, done[2], hi)],
                             done[1].chunk.chunk_counter)

\* Finish the chunk begun, hash subtrees, begin a chunk with the rest.
blake3_hasher_update(h, lo, hi) ==
  LET begun == chunk_state_len(h.chunk)
      space == CHUNK_LEN - begun
      take == CASE begun = 0                       -> 0
                [] begun > 0 /\ hi - lo > space    -> space
                [] begun > 0 /\ hi - lo <= space   -> hi - lo
      chunk == chunk_state_update(h.chunk, lo, lo + take)
      ready == IF begun = 0 THEN h
               ELSE [hasher_push_cv(h, output_chaining_value(chunk_state_output(chunk)),
                                    chunk.chunk_counter)
                     EXCEPT !.chunk = chunk_state_init(h.key, h.chunk.flags,
                                                       chunk.chunk_counter + 1)]
  IN CASE hi = lo                      -> h
       [] hi # lo /\ lo + take = hi    -> [h EXCEPT !.chunk = chunk]
       [] hi # lo /\ lo + take # hi    ->
            Finished(Subtrees(ready, lo + take, hi), hi)

\* From the last chunk, or the two topmost values, up to the root.
RootOutput(h) ==
  LET n == Len(h.cv_stack) IN
  IF n = 0 \/ chunk_state_len(h.chunk) > 0 THEN RollUp(h, chunk_state_output(h.chunk), n, 0)
  ELSE RollUp(h, TopPair(h), n - 2, 0)

blake3_hasher_finalize_seek(h, seek, out_len) == output_root_bytes(RootOutput(h), seek, out_len)

----------------------------------------------------------------------------
KEY_LEN == BLOCK_LEN \div 2
NoHasher == hasher_init_base(IV, {})

Init == host \in Hosts /\ mode = "none" /\ hasher = NoHasher /\ total = 0

\* A defect, used by no specification: a hasher that was reset hashes without a mode.
blake3_hasher_reset_Plain ==
  /\ mode # "none"
  /\ hasher' = hasher_init_base(hasher.key, {})
  /\ total' = 0
  /\ UNCHANGED <<host, mode>>

blake3_hasher_init ==
  /\ mode = "none" /\ mode' = "hash"
  /\ hasher' = hasher_init_base(IV, {})
  /\ UNCHANGED <<host, total>>

blake3_hasher_init_keyed ==
  /\ mode = "none" /\ mode' = "keyed"
  /\ hasher' = hasher_init_base("key", {"KEYED_HASH"})
  /\ UNCHANGED <<host, total>>

\* The key is the hash of a context.
blake3_hasher_init_derive_key ==
  /\ mode = "none" /\ mode' = "derive"
  /\ \E n \in Contexts :
       LET context == blake3_hasher_update(hasher_init_base(IV, {"DERIVE_KEY_CONTEXT"}),
                                           0, n)
       IN hasher' = hasher_init_base(blake3_hasher_finalize_seek(context, 0, KEY_LEN),
                                     {"DERIVE_KEY_MATERIAL"})
  /\ UNCHANGED <<host, total>>

Update ==
  /\ mode # "none"
  /\ \E n \in Lens :
       /\ total + n <= MaxTotal
       /\ hasher' = blake3_hasher_update(hasher, total, total + n)
       /\ total' = total + n
  /\ UNCHANGED <<host, mode>>

blake3_hasher_reset ==
  /\ mode # "none"
  /\ hasher' = [hasher EXCEPT !.chunk = chunk_state_init(hasher.key, @.flags, 0),
                              !.cv_stack = <<>>]
  /\ total' = 0
  /\ UNCHANGED <<host, mode>>

Next == \/ blake3_hasher_init \/ blake3_hasher_init_keyed
        \/ blake3_hasher_init_derive_key \/ Update \/ blake3_hasher_reset

Spec == Init /\ [][Next]_vars

----------------------------------------------------------------------------
(* The hash, as a tree over the whole message *)

\* A chunk block by block, or the parent of the largest complete left subtree and the
\* rest: the last compression of a stretch of the message, with what leads up to it.
RefChunk(key, flags, lo, hi) ==
  LET counter == lo \div CHUNK_LEN
      whole == IF hi = lo THEN 0 ELSE (hi - lo - 1) \div BLOCK_LEN
      start(b) == IF b = 0 THEN {"CHUNK_START"} ELSE {}
      at(b) == lo + b * BLOCK_LEN
  IN [cv |-> <<key>> \o [b \in 1 .. whole |->
                          <<flags \cup start(b - 1), Halves(counter), BLOCK_LEN,
                            Block(at(b - 1), at(b))>>],
      block |-> Block(at(whole), hi), len |-> hi - at(whole), counter |-> counter,
      flags |-> flags \cup start(whole) \cup {"CHUNK_END"}]

RefTree(key, flags) ==
  LET node[s \in (0 .. MaxTotal) \X (0 .. MaxTotal)] ==
        LET mid == s[1] + Largest({p \in Powers : CHUNK_LEN <= p /\ p < s[2] - s[1]})
            value(lo, hi) == output_chaining_value(node[<<lo, hi>>])
        IN IF s[2] - s[1] <= CHUNK_LEN THEN RefChunk(key, flags, s[1], s[2])
           ELSE [cv |-> <<key>>, block |-> <<value(s[1], mid), value(mid, s[2])>>,
                 len |-> BLOCK_LEN, counter |-> 0, flags |-> flags \cup {"PARENT"}]
  IN node

RefNode(lo, hi) == RefTree(hasher.key, hasher.chunk.flags)[<<lo, hi>>]
RefByte(root, i) == RootByte(root, Halves(i \div BLOCK_LEN), (i % BLOCK_LEN) + 1)

\* The subtrees of so many chunks, by the binary digits of their number.
LowBit(count) == Largest({p \in Powers : count % p = 0})
Complete(key, flags) ==
  LET stack[count \in 0 .. MaxTotal \div CHUNK_LEN] ==
        LET before == count - LowBit(count)
        IN IF count = 0 THEN <<>>
           ELSE Append(stack[before],
                       output_chaining_value(
                         RefTree(key, flags)[<<before * CHUNK_LEN, count * CHUNK_LEN>>]))
  IN stack

----------------------------------------------------------------------------
(* Properties *)

\* The hasher accounts for every byte, and its stack has room.
Blake3TypeOK ==
  /\ mode \in {"none", "hash", "keyed", "derive"}
  /\ total \in 0 .. MaxTotal
  /\ hasher.chunk.buf_len \in 0 .. BLOCK_LEN
  /\ chunk_state_len(hasher.chunk) <= CHUNK_LEN
  /\ hasher.chunk.chunk_counter * CHUNK_LEN + chunk_state_len(hasher.chunk) = total
  /\ Len(hasher.cv_stack) <= MAX_DEPTH + 1

\* Whatever was hashed and reset since, a hasher has the key and the flags of the mode it
\* was initialised for, and a derived key is the tree hash of its context.
KeyIsModes ==
  LET keyed == <<hasher.key, hasher.chunk.flags>>
      root(n) == RefTree(IV, {"DERIVE_KEY_CONTEXT"})[<<0, n>>]
  IN /\ mode = "hash" => keyed = <<IV, {}>>
     /\ mode = "keyed" => keyed = <<"key", {"KEYED_HASH"}>>
     /\ mode = "derive" => \E n \in Contexts :
          keyed = <<[i \in 1 .. KEY_LEN |-> RefByte(root(n), i - 1)], {"DERIVE_KEY_MATERIAL"}>>

\* However a message is cut into updates, and whatever the processor, any stretch of the
\* output is that of the tree's root over the whole message, with the mode's key; no
\* instruction faults that the processor lacks, or the operating system has not enabled.
HashIsTree ==
  LET root == RefNode(0, total)
  IN /\ KeyIsModes
     /\ mode # "none" => \A r \in Requests :
          blake3_hasher_finalize_seek(hasher, r[1], r[2])
            = [i \in 1 .. r[2] |-> RefByte(root, r[1] + i - 1)]

\* Up to the last merges, the stack is the binary expansion of the number of chunks:
\* complete subtrees, the larger below the smaller.  With a chunk begun none is left to
\* merge, and without one there is a pair to make the root of, or nothing.  The stack has
\* room for one value more than the tree is deep.
StackIsBinary ==
  LET count == hasher.chunk.chunk_counter IN
  /\ Blake3TypeOK
  /\ hasher_merge_cv_stack(hasher, count).cv_stack
       = Complete(hasher.key, hasher.chunk.flags)[count]
  /\ IF chunk_state_len(hasher.chunk) > 0 THEN Len(hasher.cv_stack) = popcnt[count]
     ELSE Len(hasher.cv_stack) # 1

\* Whichever processor, every round mixes what the portable one mixes, in its order; a
\* lane holds its own input's words; and what is stored, chaining value or output block,
\* has its words in order, each input's in its place.  (The processor stays what it is.)
BackEndsAgree == mode = "none" =>
  /\ RowsUsed => \A r \in 1 .. 7 : compress_pre(r) = round_fn(r)
  /\ RowsUsed => compress_xof_rows = compress_xof
  /\ \A width \in Widths \ {1} :
       /\ \A r \in 1 .. 7 : round_fn_vecs(r) = round_fn(r)
       /\ transpose_msg_vecs(width) = [w \in 0 .. 15 |-> [i \in 1 .. width |-> <<i, w>>]]
       /\ \A words \in {8, 16} :
            Stored(width, [w \in 1 .. words |-> [i \in 1 .. width |-> <<i, compress_xof[w - 1]>>]])
              = [i \in 1 .. width |-> [w \in 1 .. words |-> <<i, compress_xof[w - 1]>>]]
=============================================================================
