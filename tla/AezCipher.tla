----------------------------- MODULE AezCipher -----------------------------
(***************************************************************************)
(* The AEZ v5 wide-block cipher of btcrecover/aezeed.py, byte for byte.    *)
(* A byte is an integer in 0..255 and a block a sequence of 16 bytes, so  *)
(* index k of a block here is index k-1 of the Python bytearray.          *)
(*                                                                         *)
(* The AES round is the real one: the four T-tables are derived from the  *)
(* S-box exactly as TE0..TE3 of the source are (TE0 = <<2s, s, s, 3s>>,    *)
(* TE1..TE3 its rotations), so every value computed here is the value the *)
(* Python code computes.  Key extraction (BLAKE2b of a key that is not 48 *)
(* bytes long) is not modelled: the key given to AezInit is the extracted *)
(* 48-byte key.                                                            *)
(***************************************************************************)
EXTENDS Integers, Sequences, Bitwise

BLOCK_SIZE == 16
Byte == 0..255

\* Byte XOR: the bits of a and b added modulo 2, from the low bit up.
RECURSIVE BitXor(_, _)
BitXor(a, b) ==
    IF a = 0 \/ b = 0 THEN a + b
    ELSE 2 * BitXor(a \div 2, b \div 2) + ((a + b) % 2)

\* The 256 x 256 table of BitXor, computed once; Bitwise's ^^ confirms it.
XorTable == [a \in Byte |-> [b \in Byte |-> BitXor(a, b)]]
ASSUME \A a, b \in 0..15 : BitXor(a, b) = a ^^ b

XorByte(a, b) == XorTable[a][b]

Zeros(n) == [k \in 1..n |-> 0]
ZERO_BLOCK == Zeros(BLOCK_SIZE)

\* The block whose byte k is f(k), built as a tuple so that TLC computes
\* its bytes once.
Block(f(_)) == <<f(1), f(2), f(3), f(4), f(5), f(6), f(7), f(8),
                 f(9), f(10), f(11), f(12), f(13), f(14), f(15), f(16)>>

\* A byte string copied into the front of a zeroed 16-byte block.
Pad16(s) == s \o Zeros(BLOCK_SIZE - Len(s))

\* _xor_bytes1x16 and _xor_bytes4x16
XorBlock(a, b) == Block(LAMBDA k : XorByte(a[k], b[k]))
Xor4Block(a, b, c, d) == XorBlock(XorBlock(a, b), XorBlock(c, d))

\* _double_block: multiplication by x in GF(2^128), big-endian bit order.
DoubleBlock(p) ==
    Block(LAMBDA k :
        IF k < BLOCK_SIZE
        THEN ((2 * p[k]) % 256) + (p[k + 1] \div 128)
        ELSE XorByte((2 * p[k]) % 256, IF p[1] >= 128 THEN 135 ELSE 0))

\* _mult_block: double-and-add over the bits of x, least significant first.
RECURSIVE MultLoop(_, _, _)
MultLoop(x, t, r) ==
    IF x = 0 THEN r
    ELSE MultLoop(x \div 2, DoubleBlock(t), IF x % 2 = 1 THEN XorBlock(r, t) ELSE r)

MultBlock(x, src) == MultLoop(x, src, ZERO_BLOCK)

\* _one_zero_pad: the first size bytes of src, then 0x80, then zeros.
OneZeroPad(src, size) ==
    Block(LAMBDA k : IF k <= size THEN src[k] ELSE IF k = size + 1 THEN 128 ELSE 0)

-----------------------------------------------------------------------------
(* _AESRound.  A 32-bit word is kept as its four big-endian bytes.         *)

SBox == <<
    99, 124, 119, 123, 242, 107, 111, 197, 48, 1, 103, 43, 254, 215, 171, 118,
    202, 130, 201, 125, 250, 89, 71, 240, 173, 212, 162, 175, 156, 164, 114, 192,
    183, 253, 147, 38, 54, 63, 247, 204, 52, 165, 229, 241, 113, 216, 49, 21,
    4, 199, 35, 195, 24, 150, 5, 154, 7, 18, 128, 226, 235, 39, 178, 117,
    9, 131, 44, 26, 27, 110, 90, 160, 82, 59, 214, 179, 41, 227, 47, 132,
    83, 209, 0, 237, 32, 252, 177, 91, 106, 203, 190, 57, 74, 76, 88, 207,
    208, 239, 170, 251, 67, 77, 51, 133, 69, 249, 2, 127, 80, 60, 159, 168,
    81, 163, 64, 143, 146, 157, 56, 245, 188, 182, 218, 33, 16, 255, 243, 210,
    205, 12, 19, 236, 95, 151, 68, 23, 196, 167, 126, 61, 100, 93, 25, 115,
    96, 129, 79, 220, 34, 42, 144, 136, 70, 238, 184, 20, 222, 94, 11, 219,
    224, 50, 58, 10, 73, 6, 36, 92, 194, 211, 172, 98, 145, 149, 228, 121,
    231, 200, 55, 109, 141, 213, 78, 169, 108, 86, 244, 234, 101, 122, 174, 8,
    186, 120, 37, 46, 28, 166, 180, 198, 232, 221, 116, 31, 75, 189, 139, 138,
    112, 62, 181, 102, 72, 3, 246, 14, 97, 53, 87, 185, 134, 193, 29, 158,
    225, 248, 152, 17, 105, 217, 142, 148, 155, 30, 135, 233, 206, 85, 40, 223,
    140, 161, 137, 13, 191, 230, 66, 104, 65, 153, 45, 15, 176, 84, 187, 22 >>

XTime(b) == IF b >= 128 THEN XorByte((2 * b) % 256, 27) ELSE 2 * b

\* TE0[x] = <<2s, s, s, 3s>> for s = SBox[x]; TE[t][x] is TE0[x] rotated
\* right by 8*t bits.
TeWord(s) == <<XTime(s), s, s, XorByte(XTime(s), s)>>
TE == [t \in 0..3 |-> [x \in Byte |-> LET w == TeWord(SBox[x + 1])
                                       IN [j \in 1..4 |-> w[((j - 1 - t + 4) % 4) + 1]]]]

\* The 12 words of the extracted key and the two round-key schedules of
\* _AESRound.__init__: AES10 uses words 0..11 three times then 0..3, AES4
\* uses words 4..7, 0..3, 8..11 and a zero fourth round key.
KeyWords(key) == [w \in 0..11 |-> SubSeq(key, 4 * w + 1, 4 * w + 4)]
Aes10Key(key) == [r \in 0..39 |-> KeyWords(key)[IF r < 36 THEN r % 12 ELSE r - 36]]
Aes4Key(key) ==
    [r \in 0..15 |-> CASE r < 4  -> KeyWords(key)[r + 4]
                       [] r < 8  -> KeyWords(key)[r - 4]
                       [] r < 12 -> KeyWords(key)[r]
                       [] OTHER  -> <<0, 0, 0, 0>>]

\* The XOR of the bytes of a sequence onto acc.
RECURSIVE XorAll(_, _)
XorAll(bytes, acc) == IF bytes = <<>> THEN acc ELSE XorAll(Tail(bytes), XorByte(acc, Head(bytes)))

\* One round of _AESRound.rounds: output word i, byte j, XORs TE0..TE3 of
\* byte t of input word (i + t) % 4, and the round key word.
AesRound(s, keys, r) ==
    Block(LAMBDA k :
        LET i == (k - 1) \div 4
            j == ((k - 1) % 4) + 1
        IN XorAll([t \in 1..4 |-> TE[t - 1][s[4 * ((i + t - 1) % 4) + t]][j]], keys[4 * r + i][j]))

\* Rounds r..n-1.  The test of s (always a block) makes TLC evaluate each
\* round's state before the next round instead of all of them at the end.
RECURSIVE Rounds(_, _, _, _)
Rounds(s, keys, r, n) == IF r = n \/ Len(s) # BLOCK_SIZE THEN s ELSE Rounds(AesRound(s, keys, r), keys, r + 1, n)

\* _AESRound.AES4 and _AESRound.AES10, given the AEZ state st.
AES4(st, j, i, l, src) == Rounds(Xor4Block(j, i, l, src), st.aes4, 0, 4)
AES10(st, l, src) == Rounds(XorBlock(src, l), st.aes10, 0, 10)

-----------------------------------------------------------------------------
(* _AEZState.init: the I, J, L tweak bases (L[0] stays the zero block).    *)
AezInit(key) ==
    LET I0 == SubSeq(key, 1, 16)
        J0 == SubSeq(key, 17, 32)
        L1 == SubSeq(key, 33, 48)
        L2 == MultBlock(2, L1)
        L3 == XorBlock(L2, L1)
        L4 == MultBlock(2, L2)
        L6 == MultBlock(2, L3)
    IN [I |-> <<I0, MultBlock(2, I0)>>,
        J |-> <<J0, MultBlock(2, J0), MultBlock(2, MultBlock(2, J0))>>,
        L |-> <<ZERO_BLOCK, L1, L2, L3, L4, XorBlock(L4, L1), L6, XorBlock(L6, L1)>>,
        aes10 |-> Aes10Key(key),
        aes4 |-> Aes4Key(key)]

\* The Python lists I, J and L are indexed from 0.
Ib(st, k) == st.I[k + 1]
Jb(st, k) == st.J[k + 1]
Lb(st, k) == st.L[k + 1]
-----------------------------------------------------------------------------
(* _AEZState.aez_hash.  One string (the nonce, or one associated-data      *)
(* string): its full blocks i = 1, 2, ... under Jx, the running I and       *)
(* L[i % 8], I doubled after every block i that is a multiple of 8; then   *)
(* the 10*-padded remainder, or the padded empty string, under I[0], L[0]. *)
RECURSIVE HashBlocks(_, _, _, _, _, _, _)
HashBlocks(st, Jx, str, offset, i, Itmp, sum) ==
    IF Len(str) - offset >= BLOCK_SIZE
    THEN HashBlocks(st, Jx, str, offset + BLOCK_SIZE, i + 1,
                    IF i % 8 = 0 THEN DoubleBlock(Itmp) ELSE Itmp,
                    XorBlock(sum, AES4(st, Jx, Itmp, Lb(st, i % 8),
                                       SubSeq(str, offset + 1, offset + BLOCK_SIZE))))
    ELSE LET rest == Len(str) - offset IN
         IF rest > 0 \/ str = <<>>
         THEN XorBlock(sum, AES4(st, Jx, Ib(st, 0), Lb(st, 0),
                                 OneZeroPad(SubSeq(str, offset + 1, Len(str)), rest)))
         ELSE sum

AbsorbString(st, Jx, str, sum) == HashBlocks(st, Jx, str, 0, 1, Ib(st, 1), sum)

\* tau as a big-endian 32-bit integer in the last four bytes of a block.
TauBlock(tau) ==
    Zeros(12) \o <<(tau \div 16777216) % 256, (tau \div 65536) % 256,
                   (tau \div 256) % 256, tau % 256>>

\* Associated-data string k (from 0) is absorbed under J = (5 + k) * J[0].
RECURSIVE HashAd(_, _, _, _)
HashAd(st, ad, k, sum) ==
    IF k = Len(ad) THEN sum
    ELSE HashAd(st, ad, k + 1, AbsorbString(st, MultBlock(5 + k, Jb(st, 0)), ad[k + 1], sum))

\* A None nonce is the empty sequence: the code treats both as empty.
AezHash(st, nonce, ad, tau) ==
    LET sum0 == AES4(st, XorBlock(Jb(st, 0), Jb(st, 1)), Ib(st, 1), Lb(st, 1), TauBlock(tau))
    IN HashAd(st, ad, 0, AbsorbString(st, Jb(st, 2), nonce, sum0))

(* _AEZState.aez_prf: AES10(L[3], delta XOR ctr) for ctr = 0, 1, ... as a  *)
(* 16-byte big-endian counter, the last block cut to the bytes needed.     *)
CtrIncrement(ctr) ==
    Block(LAMBDA k : IF \A m \in (k + 1)..BLOCK_SIZE : ctr[m] = 255
                     THEN (ctr[k] + 1) % 256 ELSE ctr[k])

RECURSIVE PrfBlocks(_, _, _, _)
PrfBlocks(st, delta, ctr, remaining) ==
    IF remaining >= BLOCK_SIZE
    THEN AES10(st, Lb(st, 3), XorBlock(delta, ctr))
            \o PrfBlocks(st, delta, CtrIncrement(ctr), remaining - BLOCK_SIZE)
    ELSE IF remaining > 0
         THEN SubSeq(AES10(st, Lb(st, 3), XorBlock(delta, ctr)), 1, remaining)
         ELSE <<>>

AezPrf(st, delta, tau) == PrfBlocks(st, delta, ZERO_BLOCK, tau)

-----------------------------------------------------------------------------
(* _AEZState.aez_tiny, for 1 <= n < 32 bytes: a Feistel network on two     *)
(* halves of ceil(n/2) bytes that share a nibble when n is odd.            *)

\* The whitening bit: the top bit of AES4(0, I[1], L[3], delta XOR s
\* zero-padded to a block with its top bit set).
TinyWhitenBit(st, delta, data) ==
    LET buf == Pad16(data)
        top == [buf EXCEPT ![1] = IF @ >= 128 THEN @ ELSE @ + 128]
    IN (AES4(st, ZERO_BLOCK, Ib(st, 1), Lb(st, 3), XorBlock(delta, top))[1] \div 128) * 128

\* For odd n, the right half moves up one nibble.
TinyShiftIn(R, half) ==
    Block(LAMBDA k : IF k <= half THEN ((16 * R[k]) % 256) + (R[k + 1] \div 16)
                     ELSE IF k = half + 1 THEN (16 * R[k]) % 256
                     ELSE R[k])

\* A round input: the half H in a zero block, byte n/2 masked and padded,
\* XOR delta, and the round counter j in the last byte.
TinyRoundInput(delta, H, prm, j) ==
    LET b == Pad16(SubSeq(H, 1, prm.leftLen))
        m == [b EXCEPT ![prm.half + 1] =
                  (IF prm.mask = 0 THEN 0 ELSE (@ \div 16) * 16) + prm.pad]
        d == XorBlock(m, delta)
    IN [d EXCEPT ![BLOCK_SIZE] = XorByte(@, j % 256)]

\* The round function: AES4(0, I[1], L[idx]) of a round input.
TinyF(st, delta, prm, H, j) ==
    AES4(st, ZERO_BLOCK, Ib(st, 1), Lb(st, prm.idx), TinyRoundInput(delta, H, prm, j))

\* The second half of a round pair: R ^= E(L, j2), with L already updated.
TinyHalf(st, delta, prm, L, R, j2) == <<L, XorBlock(R, TinyF(st, delta, prm, L, j2))>>

\* One Feistel round pair of the loop: L ^= E(R, j), then R ^= E(L, j+step).
TinyRound(st, delta, prm, LR, j) ==
    TinyHalf(st, delta, prm, XorBlock(LR[1], TinyF(st, delta, prm, LR[2], j)), LR[2], j + prm.step)

\* The rounds // 2 round pairs.  (The length test makes TLC evaluate each
\* pair before the next, not all of them at the end.)
RECURSIVE TinyRounds(_, _, _, _, _, _)
TinyRounds(st, delta, prm, LR, j, count) ==
    IF count = 0 \/ Len(LR[1]) # BLOCK_SIZE THEN LR
    ELSE TinyRounds(st, delta, prm, TinyRound(st, delta, prm, LR, j),
                    j + 2 * prm.step, count - 1)

\* Mutant: the shared nibble is rebuilt with the halves' nibbles swapped.
TinyJoinSwapped(LR, n, leftLen, half) ==
    LET c == SubSeq(LR[2], 1, half) \o SubSeq(LR[1], 1, leftLen)
    IN IF n % 2 = 0 THEN c
       ELSE [k \in 1..n |-> CASE k <= half     -> c[k]
                              [] k = half + 1 -> (LR[2][half + 1] \div 16) + (LR[1][1] \div 16) * 16
                              [] OTHER        -> (c[k] \div 16) + ((16 * c[k - 1]) % 256)]

\* Mutant: the odd-length output loses its last byte.
TinyJoinShort(LR, n, leftLen, half) ==
    LET c == SubSeq(LR[2], 1, half) \o SubSeq(LR[1], 1, leftLen)
    IN IF n % 2 = 0 THEN c
       ELSE [k \in 1..(n - 1) |-> CASE k <= half     -> c[k]
                                    [] k = half + 1 -> (LR[1][1] \div 16) + (LR[2][half + 1] \div 16) * 16
                                    [] OTHER        -> (c[k] \div 16) + ((16 * c[k - 1]) % 256)]

\* Output R[:n/2] || L[:ceil(n/2)] of the final pair LR = <<L, R>>, for odd
\* n shifted back by a nibble.
TinyJoin(LR, n, leftLen, half) ==
    LET c == SubSeq(LR[2], 1, half) \o SubSeq(LR[1], 1, leftLen)
    IN IF n % 2 = 0 THEN c
       ELSE [k \in 1..n |-> CASE k <= half     -> c[k]
                              [] k = half + 1 -> (LR[1][1] \div 16) + (LR[2][half + 1] \div 16) * 16
                              [] OTHER        -> (c[k] \div 16) + ((16 * c[k - 1]) % 256)]

\* Enciphering a block shorter than 16 bytes flips the top bit of its
\* output by the whitening bit of that output.
TinyWhitenOut(st, delta, out, direction) ==
    IF Len(out) < BLOCK_SIZE /\ direction = 0
    THEN [out EXCEPT ![1] = XorByte(@, TinyWhitenBit(st, delta, out))]
    ELSE out

AezTiny(st, delta, data, direction) ==
    LET n == Len(data)
        rounds == CASE n = 1 -> 24 [] n = 2 -> 16 [] n < BLOCK_SIZE -> 10 [] OTHER -> 8
        leftLen == (n + 1) \div 2
        half == n \div 2
        odd == n % 2 = 1
        prm == [idx |-> IF n < BLOCK_SIZE THEN 7 ELSE 6, leftLen |-> leftLen, half |-> half,
                mask |-> IF odd THEN 240 ELSE 0, pad |-> IF odd THEN 8 ELSE 128,
                step |-> IF direction # 0 THEN -1 ELSE 1]
        L0 == Pad16(SubSeq(data, 1, leftLen))
        R0 == LET r == Pad16(SubSeq(data, half + 1, half + leftLen))
              IN IF odd THEN TinyShiftIn(r, half) ELSE r
        L1 == IF direction # 0 /\ n < BLOCK_SIZE
              THEN [L0 EXCEPT ![1] = XorByte(@, TinyWhitenBit(st, delta, data))]
              ELSE L0
    IN TinyWhitenOut(st, delta,
                     TinyJoin(TinyRounds(st, delta, prm, <<L1, R0>>,
                                         IF direction # 0 THEN rounds - 1 ELSE 0, rounds \div 2),
                              n, leftLen, half),
                     direction)

-----------------------------------------------------------------------------
(* _AEZState.aez_core, for n >= 32 bytes.                                  *)

\* output[offset:offset+Len(b)] = b
WriteAt(s, offset, b) == SubSeq(s, 1, offset) \o b \o SubSeq(s, offset + Len(b) + 1, Len(s))

\* aez_core_pass1: pair i = 1, 2, ... while 64 bytes remain; I is doubled
\* once i has been incremented to a multiple of 8.
RECURSIVE Pass1(_, _, _, _, _, _, _)
Pass1(st, input, out, X, offset, i, Itmp) ==
    IF Len(input) - offset >= 64
    THEN LET m1 == SubSeq(input, offset + 1, offset + 16)
             m2 == SubSeq(input, offset + 17, offset + 32)
             first == XorBlock(m1, AES4(st, Jb(st, 0), Itmp, Lb(st, i % 8), m2))
             second == XorBlock(m2, AES4(st, ZERO_BLOCK, Ib(st, 0), Lb(st, 0), first))
         IN Pass1(st, input, WriteAt(out, offset, first \o second), XorBlock(second, X),
                  offset + 32, i + 1, IF (i + 1) % 8 = 0 THEN DoubleBlock(Itmp) ELSE Itmp)
    ELSE [out |-> out, X |-> X]

\* aez_core_pass2: the same walk, rewriting pass 1's output with S.
RECURSIVE Pass2(_, _, _, _, _, _, _, _)
Pass2(st, input, out, Y, S, offset, i, Itmp) ==
    IF Len(input) - offset >= 64
    THEN LET w == AES4(st, Jb(st, 1), Itmp, Lb(st, i % 8), S)
             f1 == XorBlock(SubSeq(out, offset + 1, offset + 16), w)
             s1 == XorBlock(SubSeq(out, offset + 17, offset + 32), w)
             f2 == XorBlock(f1, AES4(st, ZERO_BLOCK, Ib(st, 0), Lb(st, 0), s1))
             s2 == XorBlock(s1, AES4(st, Jb(st, 0), Itmp, Lb(st, i % 8), f2))
         IN Pass2(st, input, WriteAt(out, offset, s2 \o f2), XorBlock(f1, Y), S,
                  offset + 32, i + 1, IF (i + 1) % 8 = 0 THEN DoubleBlock(Itmp) ELSE Itmp)
    ELSE [out |-> out, Y |-> Y]

\* The fragment's share of X.  With 16 or more fragment bytes the code
\* absorbs tail[16:32] under L[4] and the 10*-padded tail[16:frag] under
\* L[5]; with fewer, the padded fragment under L[4].
CoreFragmentX(st, tail, frag, X) ==
    IF frag >= BLOCK_SIZE
    THEN XorBlock(XorBlock(X, AES4(st, ZERO_BLOCK, Ib(st, 1), Lb(st, 4), SubSeq(tail, 17, 32))),
                  AES4(st, ZERO_BLOCK, Ib(st, 1), Lb(st, 5),
                       OneZeroPad(SubSeq(tail, 17, Len(tail)), frag - BLOCK_SIZE)))
    ELSE IF frag > 0
         THEN XorBlock(X, AES4(st, ZERO_BLOCK, Ib(st, 1), Lb(st, 4), OneZeroPad(tail, frag)))
         ELSE X

\* S from X, delta and the last 32 input bytes, with L[(1 + direction) % 8].
CoreS(st, delta, data, X, direction) ==
    LET n == Len(data)
        block1 == SubSeq(data, n - 31, n - 16)
        block2 == SubSeq(data, n - 15, n)
        l == Lb(st, (1 + direction) % 8)
        firstDst == Xor4Block(X, block1, delta, AES4(st, ZERO_BLOCK, Ib(st, 1), l, block2))
        secondDst == XorBlock(block2, AES10(st, l, firstDst))
    IN XorBlock(firstDst, secondDst)

\* What aez_core does after pass 1 (p1: its output and X): X gets the
\* fragment's share, S is computed, and pass 2 runs.  dst_tail =
\* dst[n-32:n] and dst_fragment = dst[initial:] are slices of a bytearray,
\* that is copies: the last pair, the fragment and the Y finish are
\* written into the copies and never reach dst, which keeps what pass 2
\* wrote over the initial pairs and its zeros elsewhere.
CoreAfterPass1(st, delta, data, direction, p1) ==
    LET n == Len(data)
        frag == n % 32
        S == CoreS(st, delta, data,
                   CoreFragmentX(st, SubSeq(data, n - frag - 31, n), frag, p1.X), direction)
    IN IF n >= 64 THEN Pass2(st, data, p1.out, ZERO_BLOCK, S, 0, 1, Ib(st, 1)).out
       ELSE p1.out

AezCore(st, delta, data, direction, dst) ==
    CoreAfterPass1(st, delta, data, direction,
                   IF Len(data) >= 64 THEN Pass1(st, data, dst, ZERO_BLOCK, 0, 1, Ib(st, 1))
                   ELSE [out |-> dst, X |-> ZERO_BLOCK])

-----------------------------------------------------------------------------
\* encipher and decipher: nothing for empty data, aez_tiny below 32 bytes,
\* aez_core from 32 on, into a zeroed buffer of the data's length.
Encipher(st, delta, data) ==
    IF data = <<>> THEN <<>>
    ELSE IF Len(data) < 32 THEN AezTiny(st, delta, data, 0)
    ELSE AezCore(st, delta, data, 0, Zeros(Len(data)))

Decipher(st, delta, data) ==
    IF data = <<>> THEN <<>>
    ELSE IF Len(data) < 32 THEN AezTiny(st, delta, data, 1)
    ELSE AezCore(st, delta, data, 1, Zeros(Len(data)))

\* The end of _aez_decrypt once x = decipher(ciphertext) (n bytes): the
\* last tau bytes must all be zero, and the plaintext is the rest.
\* ok = FALSE stands for the None result.
\* Mutant: mismatch = x[...] instead of mismatch |= x[...], so only the
\* last tag byte is checked.
OpenLastByte(x, n, tau) ==
    IF x[n] # 0
    THEN [ok |-> FALSE, plaintext |-> <<>>]
    ELSE [ok |-> TRUE, plaintext |-> SubSeq(x, 1, n - tau)]

Open(x, n, tau) ==
    IF \E k \in (n - tau + 1)..n : x[k] # 0
    THEN [ok |-> FALSE, plaintext |-> <<>>]
    ELSE [ok |-> TRUE, plaintext |-> SubSeq(x, 1, n - tau)]

\* _aez_decrypt under the state st and delta = aez_hash(None, ad, 8 tau):
\* the PRF branch for exactly tau bytes, otherwise decipher and Open.
AezDecryptWith(st, delta, tau, ciphertext) ==
    IF Len(ciphertext) = tau
    THEN [ok |-> AezPrf(st, delta, tau) = ciphertext, plaintext |-> <<>>]
    ELSE Open(Decipher(st, delta, ciphertext), Len(ciphertext), tau)

AezDecryptState(st, ad, tau, ciphertext) ==
    AezDecryptWith(st, AezHash(st, <<>>, ad, tau * 8), tau, ciphertext)

\* _aez_decrypt(key, ad_list, tau, ciphertext), key already extracted.
AezDecrypt(key, ad, tau, ciphertext) == AezDecryptState(AezInit(key), ad, tau, ciphertext)
=============================================================================
