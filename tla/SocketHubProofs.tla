-------------------------- MODULE SocketHubProofs ---------------------------
(***************************************************************************)
(* Theorems about a connection, for every byte size, all messages that the *)
(* format carries, any number of them and any division into reads: what is *)
(* written is read back, and no packet is lost, cut or stays behind.       *)
(***************************************************************************)
EXTENDS SocketHub, SequenceTheorems, WellFoundedInduction, TLAPS

-----------------------------------------------------------------------------
(* Induction along a sequence                                               *)

\* A set of natural numbers has a least one.
LEMMA LeastNumber ==
    ASSUME NEW T \in SUBSET Nat, T # {}
    PROVE  \E m \in T : \A n \in T : m <= n
<1>1. PICK m \in T : \A n \in T : ~(<<n, m>> \in OpToRel(<, Nat))
  BY WFMin, NatLessThanWellFounded
<1>2. ASSUME NEW n \in T, n < m PROVE FALSE
  <2>1. <<n, m>> \in Nat \X Nat /\ <<n, m>>[1] < <<n, m>>[2]
    BY <1>2
  <2>2. <<n, m>> \in OpToRel(<, Nat)
    BY <2>1, Zenon DEF OpToRel
  <2> QED BY <1>1, <2>2
<1> QED
  BY <1>2

\* What holds of 0 and of the next number after each that it holds of, holds up to n.
LEMMA Climb ==
    ASSUME NEW n \in Nat, NEW Good, 0 \in Good,
           \A i \in 1..n : i - 1 \in Good => i \in Good
    PROVE  \A i \in 0..n : i \in Good
<1> DEFINE Bad == {i \in 0..n : i \notin Good}
<1> SUFFICES ASSUME Bad # {} PROVE FALSE
  OBVIOUS
<1>1. Bad \in SUBSET Nat
  OBVIOUS
<1>2. PICK m \in Bad : \A i \in Bad : m <= i
  <2> HIDE DEF Bad
  <2> QED BY <1>1, LeastNumber
<1>3. m \in 1..n /\ m - 1 \notin Bad /\ m - 1 \in 0..n
  BY <1>2
<1> QED
  BY <1>2, <1>3

\* The same, downwards.
LEMMA Descend ==
    ASSUME NEW n \in Nat, NEW Good, n \in Good,
           \A i \in 1..n : i \in Good => i - 1 \in Good
    PROVE  \A i \in 0..n : i \in Good
<1> DEFINE Mirror == {i \in 0..n : n - i \in Good}
<1>1. 0 \in Mirror
  OBVIOUS
<1>2. ASSUME NEW i \in 1..n, i - 1 \in Mirror PROVE i \in Mirror
  <2>1. n - (i - 1) \in Good /\ n - (i - 1) \in 1..n /\ (n - (i - 1)) - 1 = n - i
    BY <1>2
  <2> QED BY <2>1
<1>3. \A i \in 0..n : i \in Mirror
  <2> HIDE DEF Mirror
  <2> QED BY <1>1, <1>2, Climb
<1>4. ASSUME NEW i \in 0..n PROVE i \in Good
  <2>1. n - i \in 0..n /\ n - (n - i) = i
    OBVIOUS
  <2> QED BY <1>3, <2>1
<1> QED
  BY <1>4

-----------------------------------------------------------------------------
(* Numbers                                                                  *)

LEMMA Sizes ==
    /\ Base \in Nat /\ Base >= 7
    /\ Word16 \in Nat /\ Word16 >= 49 /\ Word32 \in Nat /\ Word32 >= 49
    /\ 0 \in Bytes /\ 1 \in Bytes /\ Bytes \subseteq Nat
<1>1. Base \in Nat /\ Base >= 7
  BY FormatAssumption
<1>2. Base * Base >= 7 * 7 /\ Base * Base \in Nat
  BY <1>1
<1>3. ASSUME NEW w \in Nat, w >= 49 PROVE w * w >= 49 /\ w * w \in Nat
  BY <1>3
<1> QED
  BY <1>1, <1>2, <1>3 DEF Word16, Word32, Bytes

LEMMA Division ==
    ASSUME NEW b \in Nat \ {0}, NEW c \in Nat, NEW x \in Nat, x < c * b
    PROVE  /\ x \div b \in 0..(c - 1) /\ x % b \in 0..(b - 1)
           /\ x = ((x \div b) * b) + (x % b)
<1> DEFINE q == x \div b
<1>1. q \in Nat /\ x % b \in 0..(b - 1) /\ x = (q * b) + (x % b)
  OBVIOUS
<1> HIDE DEF q
<1>2. ASSUME q >= c PROVE FALSE
  <2>1. q * b >= c * b
    BY <1>1, <1>2
  <2>2. q * b \in Nat /\ c * b \in Nat
    BY <1>1
  <2> QED BY <1>1, <2>1, <2>2
<1> QED
  BY <1>1, <1>2 DEF q

LEMMA UInt16RoundTrip ==
    ASSUME NEW x \in Nat, x < Word16, NEW more \in Seq(Bytes)
    PROVE  /\ WriteUInt16(x) \in Seq(Bytes) /\ Len(WriteUInt16(x)) = 2
           /\ ReadUInt16(WriteUInt16(x) \o more) = x
<1> DEFINE s == WriteUInt16(x)
<1>1. x \div Base \in Bytes /\ x % Base \in Bytes /\ x = ((x \div Base) * Base) + (x % Base)
  <2>1. Base \in Nat \ {0} /\ x < Base * Base
    BY Sizes DEF Word16
  <2>2. x \div Base \in 0..(Base - 1) /\ x % Base \in 0..(Base - 1)
    BY <2>1, Division
  <2>3. x = ((x \div Base) * Base) + (x % Base)
    BY <2>1, Division
  <2> QED BY <2>2, <2>3 DEF Bytes
<1>2. (x \div Base) % Base = x \div Base
  <2> DEFINE q == x \div Base
  <2>1. q \in 0..(Base - 1) /\ Base \in Nat \ {0}
    BY <1>1, Sizes DEF Bytes
  <2> HIDE DEF q
  <2>2. q % Base = q
    BY <2>1
  <2> QED BY <2>2 DEF q
<1>3. s = <<x \div Base, x % Base>>
  BY <1>2 DEF WriteUInt16
<1>4. s \in Seq(Bytes) /\ Len(s) = 2 /\ s[1] = x \div Base /\ s[2] = x % Base
  BY <1>1, <1>3
<1> HIDE DEF s
<1>5. (s \o more)[1] = s[1] /\ (s \o more)[2] = s[2]
  <2>1. 1 \in 1..(Len(s) + Len(more)) /\ 2 \in 1..(Len(s) + Len(more))
    BY <1>4, LenProperties
  <2>2. \A i \in 1..(Len(s) + Len(more)) :
            (s \o more)[i] = IF i <= Len(s) THEN s[i] ELSE more[i - Len(s)]
    BY <1>4, ConcatProperties
  <2>3. 1 <= Len(s) /\ 2 <= Len(s)
    BY <1>4
  <2>4. (s \o more)[1] = s[1]
    BY <2>1, <2>2, <2>3, Zenon
  <2>5. (s \o more)[2] = s[2]
    BY <2>1, <2>2, <2>3, Zenon
  <2> QED BY <2>4, <2>5
<1>6. ReadUInt16(s \o more) = x
  BY <1>1, <1>4, <1>5 DEF ReadUInt16
<1> QED
  BY <1>4, <1>6 DEF s

LEMMA UInt32RoundTrip ==
    ASSUME NEW x \in Nat, x < Word32, NEW more \in Seq(Bytes)
    PROVE  /\ WriteUInt32(x) \in Seq(Bytes) /\ Len(WriteUInt32(x)) = 4
           /\ ReadUInt32(WriteUInt32(x) \o more) = x
<1> DEFINE hi == x \div Word16
           lo == x % Word16
           h == WriteUInt16(hi)
           l == WriteUInt16(lo)
           s == h \o l
<1>1. hi \in Nat /\ hi < Word16 /\ lo \in Nat /\ lo < Word16 /\ x = (hi * Word16) + lo
  <2>1. Word16 \in Nat \ {0} /\ x < Word16 * Word16
    BY Sizes DEF Word32
  <2>2. hi \in 0..(Word16 - 1) /\ lo \in 0..(Word16 - 1) /\ x = (hi * Word16) + lo
    BY <2>1, Division
  <2> HIDE DEF hi, lo
  <2> QED BY <2>1, <2>2
<1>2. WriteUInt32(x) = s
  BY DEF WriteUInt32
<1> HIDE DEF hi, lo
<1>3. h \in Seq(Bytes) /\ Len(h) = 2 /\ l \in Seq(Bytes) /\ Len(l) = 2
  BY <1>1, UInt16RoundTrip, EmptySeq
<1>4. \A rest \in Seq(Bytes) : ReadUInt16(h \o rest) = hi /\ ReadUInt16(l \o rest) = lo
  BY <1>1, UInt16RoundTrip
<1> HIDE DEF h, l
<1>5. s \in Seq(Bytes) /\ Len(s) = 4 /\ s \o more = h \o (l \o more) /\ l \o more \in Seq(Bytes)
  <2>1. s \in Seq(Bytes) /\ Len(s) = Len(h) + Len(l) /\ l \o more \in Seq(Bytes)
    BY <1>3, ConcatProperties
  <2>2. s \o more = h \o (l \o more)
    BY <1>3, ConcatAssociative
  <2> QED BY <1>3, <2>1, <2>2
<1>6. s \o more \in Seq(Bytes) /\ Len(s \o more) = 4 + Len(more)
  BY <1>5, ConcatProperties
<1>7. SubSeq(s \o more, 3, 4) = l \o <<>>
  <2>1. SubSeq(s \o more, 3, 4) = SubSeq(s, 3, 4)
    BY <1>5, SubSeqOfConcat1
  <2>2. \A i \in 1..4 : s[i] = IF i <= 2 THEN h[i] ELSE l[i - 2]
    <3>1. \A i \in 1..(Len(h) + Len(l)) : s[i] = IF i <= Len(h) THEN h[i] ELSE l[i - Len(h)]
      BY <1>3, ConcatProperties
    <3> HIDE DEF s
    <3> QED BY <1>3, <3>1
  <2> DEFINE part == SubSeq(s, 3, 4)
  <2>3. /\ part \in Seq(Bytes) /\ Len(part) = 2
        /\ \A i \in 1..2 : part[i] = s[3 + i - 1]
    <3>1. s \in [1..4 -> Bytes]
      BY <1>5, LenProperties
    <3> HIDE DEF s
    <3>2. \A i \in 3..4 : s[i] \in Bytes
      BY <3>1
    <3>3. /\ part \in Seq(Bytes) /\ Len(part) = IF 3 <= 4 THEN 4 - 3 + 1 ELSE 0
          /\ \A i \in 1..(4 - 3 + 1) : part[i] = s[3 + i - 1]
      BY <3>2, SubSeqProperties
    <3> HIDE DEF part
    <3> QED BY <3>3
  <2>4. part = l
    <3> HIDE DEF part, s
    <3>1. \A i \in 1..2 : 3 + i - 1 \in 1..4 /\ ~(3 + i - 1 <= 2) /\ (3 + i - 1) - 2 = i
      OBVIOUS
    <3>2. \A i \in 1..Len(part) : part[i] = l[i]
      BY <2>2, <2>3, <3>1
    <3> QED BY <1>3, <2>3, <3>2, SeqEqual
  <2>5. l \o <<>> = l
    BY <1>3, ConcatEmptySeq
  <2> QED BY <2>1, <2>4, <2>5
<1>8. ReadUInt16(s \o more) = hi /\ ReadUInt16(SubSeq(s \o more, 3, 4)) = lo
  <2>1. <<>> \in Seq(Bytes)
    BY EmptySeq
  <2>2. ReadUInt16(l \o <<>>) = lo
    BY <1>4, <2>1
  <2> QED BY <1>4, <1>5, <1>7, <2>2
<1>9. ReadUInt32(s \o more) = x
  <2> HIDE DEF s
  <2> QED BY <1>1, <1>8 DEF ReadUInt32
<1> QED
  BY <1>2, <1>5, <1>9

-----------------------------------------------------------------------------
(* Bytes put one after the other                                            *)

Parts == Seq(Seq(Bytes))

\* The bytes are the parts, one after the other: rest[i] follows the first i.
Divided(bytes, parts) ==
    \E rest \in [0..Len(parts) -> Seq(Bytes)] :
        /\ rest[0] = bytes /\ rest[Len(parts)] = <<>>
        /\ \A i \in 1..Len(parts) : rest[i - 1] = parts[i] \o rest[i]

LEMMA DividedIsBytes ==
    ASSUME NEW bytes, NEW parts \in Parts, Divided(bytes, parts)
    PROVE  bytes \in Seq(Bytes)
  BY LenProperties DEF Divided, Parts

LEMMA NothingDivided == Divided(<<>>, <<>>)
<1> DEFINE rest == [i \in 0..0 |-> <<>>]
<1>1. rest \in [0..0 -> Seq(Bytes)]
  BY EmptySeq
<1>2. rest[0] = <<>> /\ Len(<<>>) = 0
  OBVIOUS
<1> HIDE DEF rest
<1> QED
  BY <1>1, <1>2 DEF Divided

LEMMA DividedAppend ==
    ASSUME NEW bytes, NEW parts \in Parts, Divided(bytes, parts), NEW part \in Seq(Bytes)
    PROVE  /\ Append(parts, part) \in Parts
           /\ bytes \o part \in Seq(Bytes) /\ Divided(bytes \o part, Append(parts, part))
<1> DEFINE n == Len(parts)
           more == Append(parts, part)
<1>1. PICK rest \in [0..n -> Seq(Bytes)] :
        /\ rest[0] = bytes /\ rest[n] = <<>>
        /\ \A i \in 1..n : rest[i - 1] = parts[i] \o rest[i]
  BY DEF Divided
<1>2. n \in Nat /\ parts \in [1..n -> Seq(Bytes)]
  BY LenProperties DEF Parts
<1>3. /\ more \in Parts /\ Len(more) = n + 1
      /\ \A i \in 1..n : more[i] = parts[i]
      /\ more[n + 1] = part
  BY AppendProperties DEF Parts
<1> HIDE DEF n, more
<1> DEFINE longer == [i \in 0..(n + 1) |-> IF i <= n THEN rest[i] \o part ELSE <<>>]
<1>4. \A i \in 0..n : i \in 0..(n + 1) /\ i <= n /\ rest[i] \in Seq(Bytes)
  BY <1>1, <1>2
<1>5. \A i \in 0..n : longer[i] = rest[i] \o part
  BY <1>4
<1>6. longer[n + 1] = <<>>
  BY <1>2
<1>7. longer \in [0..(n + 1) -> Seq(Bytes)]
  <2>1. \A i \in 0..n : rest[i] \o part \in Seq(Bytes)
    BY <1>4, ConcatProperties
  <2>2. \A i \in 0..(n + 1) : (IF i <= n THEN rest[i] \o part ELSE <<>>) \in Seq(Bytes)
    BY <1>2, <2>1, EmptySeq
  <2> QED BY <2>2
<1> HIDE DEF longer
<1>8. ASSUME NEW i \in 1..(n + 1) PROVE longer[i - 1] = more[i] \o longer[i]
  <2>1. CASE i <= n
    <3>1. i \in 1..n /\ i - 1 \in 0..n /\ i \in 0..n
      BY <1>2, <2>1
    <3>2. (parts[i] \o rest[i]) \o part = parts[i] \o (rest[i] \o part)
      <4>1. parts[i] \in Seq(Bytes) /\ rest[i] \in Seq(Bytes)
        BY <1>2, <1>4, <3>1
      <4> DEFINE p == parts[i]
                 r == rest[i]
      <4>2. p \in Seq(Bytes) /\ r \in Seq(Bytes)
        BY <4>1
      <4> HIDE DEF p, r
      <4>3. (p \o r) \o part = p \o (r \o part)
        BY <4>2, ConcatAssociative
      <4> QED BY <4>3 DEF p, r
    <3> QED BY <1>1, <1>3, <1>5, <3>1, <3>2
  <2>2. CASE i = n + 1
    <3>1. longer[i - 1] = <<>> \o part
      <4>1. i - 1 = n /\ n \in 0..n
        BY <1>2, <2>2
      <4> QED BY <1>1, <1>5, <4>1
    <3>2. <<>> \o part = part /\ part \o <<>> = part
      BY ConcatEmptySeq
    <3> QED BY <1>3, <1>6, <2>2, <3>1, <3>2
  <2>3. i <= n \/ i = n + 1
    BY <1>2
  <2> QED BY <2>1, <2>2, <2>3
<1>9. bytes \o part = longer[0] /\ bytes \o part \in Seq(Bytes)
  <2>1. 0 \in 0..n /\ 0 \in 0..(n + 1)
    BY <1>2
  <2> QED BY <1>1, <1>5, <1>7, <2>1
<1>10. Divided(bytes \o part, more)
  BY <1>3, <1>6, <1>7, <1>8, <1>9 DEF Divided
<1> QED
  BY <1>3, <1>9, <1>10 DEF more

LEMMA DividedFirst ==
    ASSUME NEW bytes, NEW parts \in Parts, Divided(bytes, parts), parts # <<>>
    PROVE  \E rest \in Seq(Bytes) : bytes = parts[1] \o rest /\ Divided(rest, Tail(parts))
<1> DEFINE n == Len(parts)
           fewer == Tail(parts)
<1>1. PICK rest \in [0..n -> Seq(Bytes)] :
        /\ rest[0] = bytes /\ rest[n] = <<>>
        /\ \A i \in 1..n : rest[i - 1] = parts[i] \o rest[i]
  BY DEF Divided
<1>2. n \in Nat \ {0} /\ Len(fewer) = n - 1 /\ \A i \in 1..(n - 1) : fewer[i] = parts[i + 1]
  BY EmptySeq, HeadTailProperties DEF Parts
<1> HIDE DEF n, fewer
<1> DEFINE shifted == [i \in 0..(n - 1) |-> rest[i + 1]]
<1>3. \A i \in 0..(n - 1) : i + 1 \in 0..n /\ shifted[i] = rest[i + 1]
  BY <1>2
<1>4. shifted \in [0..(n - 1) -> Seq(Bytes)]
  BY <1>1, <1>3
<1> HIDE DEF shifted
<1>5. shifted[0] = rest[1] /\ shifted[n - 1] = <<>>
  BY <1>1, <1>2, <1>3
<1>6. ASSUME NEW i \in 1..(n - 1) PROVE shifted[i - 1] = fewer[i] \o shifted[i]
  <2>1. i + 1 \in 1..n /\ (i + 1) - 1 = i /\ i - 1 \in 0..(n - 1) /\ (i - 1) + 1 = i
        /\ i \in 0..(n - 1)
    BY <1>2
  <2> QED BY <1>1, <1>2, <1>3, <2>1
<1>7. Divided(rest[1], fewer)
  BY <1>2, <1>4, <1>5, <1>6 DEF Divided
<1>8. rest[1] \in Seq(Bytes) /\ rest[0] = parts[1] \o rest[1]
  <2>1. 1 \in 1..n /\ 1 \in 0..n /\ 1 - 1 = 0
    BY <1>2
  <2> QED BY <1>1, <2>1
<1> QED
  BY <1>1, <1>7, <1>8 DEF fewer

\* The parts up to k.
UpTo(parts, k) == [i \in 1..k |-> parts[i]]

FlattenIter(parts) ==
    CHOOSE f : f = [i \in 1..Len(parts) |-> IF i = 1 THEN parts[i] ELSE f[i - 1] \o parts[i]]

LEMMA FlattenDivided ==
    ASSUME NEW parts \in Parts
    PROVE  FlattenSeq(parts) \in Seq(Bytes) /\ Divided(FlattenSeq(parts), parts)
<1> DEFINE n == Len(parts)
           Body(f, i) == IF i = 1 THEN parts[i] ELSE f[i - 1] \o parts[i]
           Works(f, k) == /\ \A i \in 1..k : f[i] = Body(f, i)
                          /\ k > 0 => Divided(f[k], UpTo(parts, k))
           Good == {k \in 0..n : \E f \in [1..k -> Seq(Bytes)] : Works(f, k)}
<1>1. n \in Nat /\ parts \in [1..n -> Seq(Bytes)]
  BY LenProperties DEF Parts
<1>2. \A k \in 0..n : UpTo(parts, k) \in Parts /\ Len(UpTo(parts, k)) = k
  <2> SUFFICES ASSUME NEW k \in 0..n PROVE UpTo(parts, k) \in Parts /\ Len(UpTo(parts, k)) = k
    OBVIOUS
  <2>1. UpTo(parts, k) \in [1..k -> Seq(Bytes)] /\ k \in Nat
    BY <1>1 DEF UpTo
  <2> QED BY <2>1 DEF Parts
<1> HIDE DEF n
<1>3. 0 \in Good
  <2> DEFINE f == [i \in 1..0 |-> <<>>]
  <2>1. f \in [1..0 -> Seq(Bytes)] /\ Works(f, 0)
    OBVIOUS
  <2> HIDE DEF f, Works
  <2>2. 0 \in 0..n
    BY <1>1
  <2> QED BY <2>1, <2>2
<1>4. ASSUME NEW k \in 1..n, k - 1 \in Good PROVE k \in Good
  <2>1. PICK f \in [1..(k - 1) -> Seq(Bytes)] : Works(f, k - 1)
    BY <1>4
  <2> DEFINE new == Body(f, k)
             g == [i \in 1..k |-> IF i < k THEN f[i] ELSE new]
  <2>2. parts[k] \in Seq(Bytes) /\ k \in 1..n
    BY <1>1
  <2>3. new \in Seq(Bytes) /\ Divided(new, UpTo(parts, k))
    <3>1. CASE k = 1
      <4>1. new = parts[1]
        BY <3>1
      <4>2. UpTo(parts, k) = Append(<<>>, parts[1])
        BY <3>1 DEF UpTo
      <4>3. <<>> \o parts[1] = parts[1]
        BY <2>2, <3>1, ConcatEmptySeq
      <4>4. <<>> \in Parts
        BY EmptySeq DEF Parts
      <4> QED BY <2>2, <3>1, <4>1, <4>2, <4>3, <4>4, NothingDivided, DividedAppend
    <3>2. CASE k # 1
      <4>1. k - 1 \in 1..n /\ k - 1 > 0 /\ k - 1 \in 0..n /\ k - 1 \in 1..(k - 1)
        BY <1>1, <3>2
      <4>2. new = f[k - 1] \o parts[k]
        BY <3>2
      <4>3. Divided(f[k - 1], UpTo(parts, k - 1))
        BY <2>1, <4>1
      <4>4. UpTo(parts, k) = Append(UpTo(parts, k - 1), parts[k])
        <5>1. UpTo(parts, k - 1) \in Seq(Seq(Bytes)) /\ Len(UpTo(parts, k - 1)) = k - 1
          BY <1>2, <4>1 DEF Parts
        <5> DEFINE s == UpTo(parts, k - 1)
        <5>2. \A i \in 1..(k - 1) : s[i] = parts[i]
          BY DEF UpTo
        <5>3. /\ Append(s, parts[k]) \in Seq(Seq(Bytes)) /\ Len(Append(s, parts[k])) = k
              /\ \A i \in 1..(k - 1) : Append(s, parts[k])[i] = s[i]
              /\ Append(s, parts[k])[k] = parts[k]
          <6> HIDE DEF s
          <6>1. (k - 1) + 1 = k
            OBVIOUS
          <6> QED BY <2>2, <5>1, <6>1, AppendProperties DEF s
        <5>4. UpTo(parts, k) \in Seq(Seq(Bytes)) /\ Len(UpTo(parts, k)) = k
          BY <1>1, <1>2 DEF Parts
        <5>5. \A i \in 1..k : UpTo(parts, k)[i] = Append(s, parts[k])[i]
          <6> HIDE DEF s
          <6>1. \A i \in 1..k : i \in 1..(k - 1) \/ i = k
            OBVIOUS
          <6>2. \A i \in 1..k : UpTo(parts, k)[i] = parts[i]
            BY DEF UpTo
          <6> QED BY <5>2, <5>3, <6>1, <6>2
        <5> HIDE DEF s
        <5> QED BY <5>3, <5>4, <5>5, SeqEqual DEF s
      <4>5. f[k - 1] \in Seq(Bytes) /\ UpTo(parts, k - 1) \in Parts
        BY <1>2, <4>1
      <4> HIDE DEF new
      <4> QED BY <2>2, <4>2, <4>3, <4>4, <4>5, DividedAppend
    <3> QED BY <3>1, <3>2
  <2>4. \A i \in 1..(k - 1) : g[i] = f[i] /\ g[i] = Body(f, i)
    <3>1. \A i \in 1..(k - 1) : i \in 1..k /\ i < k
      OBVIOUS
    <3>2. \A i \in 1..(k - 1) : g[i] = f[i]
      <4> HIDE DEF new
      <4> QED BY <3>1
    <3>3. \A i \in 1..(k - 1) : f[i] = Body(f, i)
      BY <2>1
    <3> HIDE DEF g, Body
    <3> QED BY <3>2, <3>3
  <2>5. g[k] = new
    OBVIOUS
  <2>6. g \in [1..k -> Seq(Bytes)]
    <3> HIDE DEF new
    <3> QED BY <2>3
  <2> HIDE DEF g
  <2>7. ASSUME NEW i \in 1..k PROVE g[i] = Body(g, i)
    <3>1. Body(g, i) = Body(f, i)
      <4>1. i # 1 => i - 1 \in 1..(k - 1)
        OBVIOUS
      <4> QED BY <2>4, <4>1
    <3>2. g[i] = Body(f, i)
      BY <2>4, <2>5
    <3> QED BY <3>1, <3>2
  <2>8. Works(g, k)
    <3> HIDE DEF Body
    <3> QED BY <2>3, <2>5, <2>7
  <2>9. k \in 0..n
    OBVIOUS
  <2> HIDE DEF Works
  <2> QED BY <2>6, <2>8, <2>9
<1>5. n \in Good
  <2> HIDE DEF Good
  <2>1. \A k \in 0..n : k \in Good
    BY <1>1, <1>3, <1>4, Climb
  <2> QED BY <1>1, <2>1
<1>6. PICK f \in [1..n -> Seq(Bytes)] : Works(f, n)
  BY <1>5
<1>7. UpTo(parts, n) = parts
  BY <1>1 DEF UpTo
<1>8. CASE n = 0
  <2>1. parts = <<>>
    BY <1>8, EmptySeq DEF n, Parts
  <2>2. FlattenSeq(parts) = <<>>
    BY <1>8, <2>1 DEF FlattenSeq, n
  <2> QED BY <2>1, <2>2, NothingDivided, EmptySeq
<1>9. CASE n > 0
  <2> DEFINE P(g) == g = [i \in 1..n |-> Body(g, i)]
  <2>1. P(f)
    BY <1>6
  <2>2. P(CHOOSE g : P(g))
    <3> HIDE DEF P
    <3> QED BY <2>1
  <2> DEFINE h == CHOOSE g : P(g)
  <2>3. h = [i \in 1..n |-> Body(h, i)]
    <3> HIDE DEF Body
    <3> QED BY <2>2
  <2>4. FlattenIter(parts) = h
    BY Zenon DEF FlattenIter, n
  <2> HIDE DEF h
  <2>5. \A i \in 1..n : h[i] = Body(h, i)
    <3> HIDE DEF Body
    <3> QED BY <2>3
  <2> DEFINE Same == {i \in 0..n : i = 0 \/ h[i] = f[i]}
  <2>6. 0 \in Same
    BY <1>1
  <2>7. ASSUME NEW i \in 1..n, i - 1 \in Same PROVE i \in Same
    <3>1. h[i] = Body(h, i) /\ f[i] = Body(f, i)
      BY <1>6, <2>5
    <3>2. i = 1 \/ h[i - 1] = f[i - 1]
      BY <2>7
    <3>3. h[i] = f[i] /\ i \in 0..n
      BY <3>1, <3>2
    <3> QED BY <3>3
  <2>8. n \in Same
    <3> HIDE DEF Same
    <3>1. \A i \in 0..n : i \in Same
      BY <1>1, <2>6, <2>7, Climb
    <3> QED BY <1>1, <3>1
  <2>9. FlattenSeq(parts) = FlattenIter(parts)[n]
    <3>1. Len(parts) # 0
      BY <1>9 DEF n
    <3> QED BY <3>1, Zenon DEF FlattenSeq, FlattenIter, n
  <2>10. FlattenSeq(parts) = f[n] /\ n \in 1..n
    BY <1>1, <1>9, <2>4, <2>8, <2>9
  <2> QED BY <1>6, <1>7, <1>9, <2>10
<1> QED
  BY <1>1, <1>8, <1>9

-----------------------------------------------------------------------------
(* A value                                                                  *)

\* A reader that has read `values' and has `left' before it.
At(left, values) == [left |-> left, values |-> values, ok |-> TRUE]

LEMMA Ends ==
    ASSUME NEW a \in Seq(Bytes), NEW b \in Seq(Bytes)
    PROVE  /\ a \o b \in Seq(Bytes) /\ Len(a \o b) = Len(a) + Len(b)
           /\ SubSeq(a \o b, 1, Len(a)) = a
           /\ SubSeq(a \o b, Len(a) + 1, Len(a \o b)) = b
<1> DEFINE s == a \o b
           p == SubSeq(s, 1, Len(a))
           q == SubSeq(s, Len(a) + 1, Len(s))
<1>1. /\ s \in Seq(Bytes) /\ Len(s) = Len(a) + Len(b)
      /\ \A i \in 1..(Len(a) + Len(b)) : s[i] = IF i <= Len(a) THEN a[i] ELSE b[i - Len(a)]
  BY ConcatProperties
<1>2. Len(a) \in Nat /\ Len(b) \in Nat
  BY LenProperties
<1>3. \A i \in 1..Len(s) : s[i] \in Bytes
  BY <1>1, ElementOfSeq
<1> HIDE DEF s
<1>4. p \in Seq(Bytes) /\ Len(p) = Len(a) /\ \A i \in 1..Len(a) : p[i] = a[i]
  <2>1. \A i \in 1..Len(a) : s[i] \in Bytes /\ s[i] = a[i]
    BY <1>1, <1>2, <1>3
  <2>2. /\ p \in Seq(Bytes) /\ Len(p) = (IF 1 <= Len(a) THEN Len(a) - 1 + 1 ELSE 0)
        /\ \A i \in 1..(Len(a) - 1 + 1) : p[i] = s[1 + i - 1]
    BY <1>2, <2>1, SubSeqProperties
  <2>3. \A i \in 1..Len(a) : i \in 1..(Len(a) - 1 + 1) /\ 1 + i - 1 = i
    BY <1>2
  <2> HIDE DEF p
  <2> QED BY <1>2, <2>1, <2>2, <2>3
<1>5. q \in Seq(Bytes) /\ Len(q) = Len(b) /\ \A i \in 1..Len(b) : q[i] = b[i]
  <2>1. \A i \in (Len(a) + 1)..Len(s) : s[i] \in Bytes /\ s[i] = b[i - Len(a)]
    BY <1>1, <1>2, <1>3
  <2> DEFINE m == Len(a) + 1
             n == Len(s)
  <2>2. m \in Int /\ n \in Int /\ \A i \in m..n : s[i] \in Bytes
    BY <1>1, <1>2, <2>1
  <2>3. m - 1 = Len(a) /\ n = Len(a) + Len(b) /\ (m <= n <=> Len(b) > 0) /\ n - m + 1 = Len(b)
    BY <1>1, <1>2
  <2>4. \A i \in m..n : s[i] = b[i - Len(a)]
    BY <2>1
  <2>5. q = SubSeq(s, m, n)
    OBVIOUS
  <2> HIDE DEF m, n, q
  <2>6. /\ q \in Seq(Bytes) /\ Len(q) = (IF m <= n THEN n - m + 1 ELSE 0)
        /\ \A i \in 1..(n - m + 1) : q[i] = s[m + i - 1]
    BY <2>2, <2>5, SubSeqProperties
  <2>7. Len(q) = Len(b)
    <3>1. m <= n => Len(q) = n - m + 1
      BY <2>6
    <3>2. ~(m <= n) => Len(q) = 0 /\ Len(b) = 0
      BY <1>2, <2>3, <2>6
    <3> QED BY <2>3, <3>1, <3>2
  <2>8. ASSUME NEW i \in 1..Len(b) PROVE q[i] = b[i]
    <3>1. i \in 1..(n - m + 1) /\ m + i - 1 \in m..n /\ (m + i - 1) - Len(a) = i
      BY <1>1, <1>2, <2>8 DEF m, n
    <3> QED BY <2>4, <2>6, <3>1
  <2> QED BY <2>6, <2>7, <2>8
<1>6. p = a /\ q = b
  <2> HIDE DEF p, q
  <2> QED BY <1>4, <1>5, SeqEqual
<1> QED
  BY <1>1, <1>6 DEF s

\* What stands between two parts.
LEMMA Between ==
    ASSUME NEW a \in Seq(Bytes), NEW b \in Seq(Bytes), NEW c \in Seq(Bytes)
    PROVE  SubSeq((a \o b) \o c, Len(a) + 1, Len(a) + Len(b)) = b
<1> DEFINE w == a \o b
<1>1. Len(a) \in Nat /\ Len(b) \in Nat
  BY LenProperties
<1>2. w \in Seq(Bytes) /\ Len(w) = Len(a) + Len(b) /\ SubSeq(w, Len(a) + 1, Len(w)) = b
  BY Ends
<1> HIDE DEF w
<1>3. CASE Len(b) = 0
  <2>1. Len(a) + Len(b) < Len(a) + 1 /\ b = <<>>
    BY <1>1, <1>3, EmptySeq
  <2>2. SubSeq(w \o c, Len(a) + 1, Len(a) + Len(b)) = <<>>
    BY <1>1, <2>1, SubSeqEmpty
  <2> QED BY <2>1, <2>2 DEF w
<1>4. CASE Len(b) > 0
  <2>1. Len(a) + 1 \in 1..Len(w) /\ Len(a) + Len(b) \in 1..Len(w)
    BY <1>1, <1>2, <1>4
  <2>2. SubSeq(w \o c, Len(a) + 1, Len(a) + Len(b)) = SubSeq(w, Len(a) + 1, Len(a) + Len(b))
    BY <1>2, <2>1, SubSeqOfConcat1
  <2> QED BY <1>2, <2>2 DEF w
<1> QED
  BY <1>1, <1>3, <1>4

LEMMA Replaced ==
    ASSUME NEW left, NEW values, NEW new
    PROVE  /\ [At(left, values) EXCEPT !.left = new] = At(new, values)
           /\ [At(left, values) EXCEPT !.values = new] = At(left, new)
<1> DEFINE names == {"left", "values", "ok"}
           a == At(left, values)
           l == [a EXCEPT !.left = new]
           v == [a EXCEPT !.values = new]
<1>1. /\ a = [x \in names |-> a[x]] /\ DOMAIN a = names
      /\ a.left = left /\ a.values = values /\ a.ok = TRUE
  BY DEF At
<1>2. /\ l = [x \in names |-> l[x]] /\ l.left = new /\ l.values = values /\ l.ok = TRUE
      /\ v = [x \in names |-> v[x]] /\ v.left = left /\ v.values = new /\ v.ok = TRUE
  <2> HIDE DEF a
  <2> QED BY <1>1
<1>3. [x \in names |-> l[x]] = At(new, values) /\ [x \in names |-> v[x]] = At(left, new)
  <2> HIDE DEF l, v
  <2> QED BY <1>2 DEF At
<1> QED
  BY <1>2, <1>3

LEMMA TookFrom ==
    ASSUME NEW a \in Seq(Bytes), NEW b \in Seq(Bytes), NEW values, NEW value
    PROVE  Took(At(a \o b, values), Len(a), value) = At(b, Append(values, value))
<1> DEFINE s == a \o b
           l == SubSeq(s, Len(a) + 1, Len(s))
           v == Append(values, value)
<1>1. Took(At(s, values), Len(a), value) = [At(s, values) EXCEPT !.left = l, !.values = v]
  BY DEF Took, At
<1>2. l = b
  BY Ends
<1> HIDE DEF l, v, s
<1>3. [At(s, values) EXCEPT !.left = l] = At(l, values)
  BY Replaced
<1>4. [At(l, values) EXCEPT !.values = v] = At(l, v)
  BY Replaced
<1>5. [At(s, values) EXCEPT !.left = l, !.values = v]
        = [[At(s, values) EXCEPT !.left = l] EXCEPT !.values = v]
  OBVIOUS
<1> QED
  BY <1>1, <1>2, <1>3, <1>4, <1>5 DEF s, v

LEMMA ByteRoundTrip ==
    ASSUME NEW x \in Bytes, NEW more \in Seq(Bytes)
    PROVE  /\ <<x>> \in Seq(Bytes) /\ Len(<<x>>) = 1
           /\ Len(<<x>> \o more) >= 1 /\ (<<x>> \o more)[1] = x
<1>1. <<x>> \in Seq(Bytes) /\ Len(<<x>>) = 1 /\ <<x>>[1] = x
  OBVIOUS
<1> DEFINE s == <<x>>
<1>2. s \in Seq(Bytes) /\ Len(s) = 1 /\ s[1] = x
  BY <1>1
<1> HIDE DEF s
<1>3. Len(more) \in Nat /\ 1 \in 1..(Len(s) + Len(more)) /\ 1 <= Len(s)
  BY <1>2, LenProperties
<1>4. Len(s \o more) = Len(s) + Len(more) /\ (s \o more)[1] = s[1]
  BY <1>2, <1>3, ConcatProperties
<1>5. Len(s \o more) >= 1 /\ (s \o more)[1] = x
  BY <1>2, <1>3, <1>4
<1> QED
  BY <1>1, <1>5 DEF s

\* What Signed makes of the bits of a number is the number.
LEMMA SignedRoundTrip ==
    ASSUME NEW x \in (Word32 \div 2 - Word32)..(Word32 \div 2 - 1)
    PROVE  x % Word32 \in Nat /\ x % Word32 < Word32 /\ Signed(x % Word32) = x
<1> DEFINE w == Word32
           h == w \div 2
<1>1. w \in Nat /\ w >= 49 /\ h \in Nat /\ h <= w /\ x \in (h - w)..(h - 1)
  BY Sizes
<1>2. Signed(x % w) = IF x % w < h THEN x % w ELSE (x % w) - w
  BY DEF Signed
<1> HIDE DEF w, h
<1>3. x \in Int
  BY <1>1
<1>4. CASE x >= 0
  <2>1. x % w = x
    BY <1>1, <1>4
  <2> QED BY <1>1, <1>2, <1>4, <2>1 DEF w
<1>5. CASE x < 0
  <2>1. x + w \in 0..(w - 1)
    BY <1>1, <1>5
  <2>2. x % w = x + w
    BY <1>1, <1>5, <2>1
  <2>3. ~(x + w < h) /\ (x + w) - w = x
    BY <1>1, <1>5
  <2> QED BY <1>1, <1>2, <2>1, <2>2, <2>3 DEF w
<1> QED
  BY <1>3, <1>4, <1>5

\* A value is read back by the function of its type, and no byte beyond it.
LEMMA ValueRoundTrip ==
    ASSUME NEW type, NEW value, IsValue(type, value), NEW more \in Seq(Bytes), NEW values
    PROVE  /\ WriteValue(type, value) \in Seq(Bytes) /\ Len(WriteValue(type, value)) >= 1
           /\ ReadValue(At(WriteValue(type, value) \o more, values), type)
                = At(more, Append(values, value))
<1> DEFINE w == WriteValue(type, value)
           bytes == w \o more
           reader == At(bytes, values)
<1>1. reader.ok /\ reader.left = bytes
  BY DEF At
<1> DEFINE after == At(more, Append(values, value))
<1>0. \A a \in Seq(Bytes) : Took(At(a \o more, values), Len(a), value) = after
  BY TookFrom
<1> HIDE DEF after
<1>2. CASE type \in {"bool", "uint8"}
  <2>1. value \in Bytes /\ (type = "bool" => value \in {0, 1})
    BY <1>2, Sizes DEF IsValue
  <2>2. w = <<value>>
    BY <1>2 DEF WriteValue
  <2>3. w \in Seq(Bytes) /\ Len(w) = 1 /\ Len(bytes) >= 1 /\ bytes[1] = value
    BY <2>1, <2>2, ByteRoundTrip
  <2>4. (IF type = "bool" /\ bytes[1] # 0 THEN 1 ELSE bytes[1]) = value
    BY <2>1, <2>3
  <2> HIDE DEF w
  <2>5. Took(reader, Len(w), value) = after
    BY <1>0, <2>3
  <2> HIDE DEF reader, bytes
  <2>6. ReadValue(reader, type)
            = Took(reader, 1, IF type = "bool" /\ bytes[1] # 0 THEN 1 ELSE bytes[1])
    BY <1>1, <1>2, <2>3 DEF ReadValue
  <2>7. ReadValue(reader, type) = after
    BY <2>3, <2>4, <2>5, <2>6
  <2> QED BY <2>3, <2>7 DEF reader, bytes, w, after
<1>3. CASE type = "int32"
  <2> DEFINE bits == value % Word32
  <2>1. bits \in Nat /\ bits < Word32 /\ Signed(bits) = value
    BY <1>3, SignedRoundTrip DEF IsValue
  <2>2. w = WriteUInt32(bits)
    BY <1>3 DEF WriteValue
  <2> HIDE DEF bits
  <2>3. w \in Seq(Bytes) /\ Len(w) = 4 /\ ReadUInt32(bytes) = bits
    BY <2>1, <2>2, UInt32RoundTrip
  <2> HIDE DEF w
  <2>4. Len(bytes) >= 4
    <3>1. Len(bytes) = Len(w) + Len(more) /\ Len(more) \in Nat
      BY <2>3, ConcatProperties, LenProperties
    <3> QED BY <2>3, <3>1
  <2>5. Took(reader, Len(w), value) = after
    BY <1>0, <2>3
  <2> HIDE DEF reader, bytes
  <2>6. ReadValue(reader, type) = Took(reader, 4, Signed(ReadUInt32(bytes)))
    BY <1>1, <1>3, <2>4 DEF ReadValue
  <2>7. ReadValue(reader, type) = after
    BY <2>1, <2>3, <2>5, <2>6
  <2> QED BY <2>3, <2>7 DEF reader, bytes, w, after
<1>4. CASE type = "string"
  <2> DEFINE head == WriteUInt32(Len(value))
  <2>1. value \in Seq(Bytes) /\ Len(value) \in Nat /\ Len(value) < Word32
    BY <1>4, LenProperties DEF IsValue
  <2>2. w = head \o value
    BY <1>4 DEF WriteValue
  <2>3. head \in Seq(Bytes) /\ Len(head) = 4
    BY <2>1, UInt32RoundTrip
  <2>4. \A rest \in Seq(Bytes) : ReadUInt32(head \o rest) = Len(value)
    BY <2>1, UInt32RoundTrip
  <2> HIDE DEF head
  <2>5. w \in Seq(Bytes) /\ Len(w) = 4 + Len(value)
    <3> HIDE DEF w
    <3>1. w \in Seq(Bytes) /\ Len(w) = Len(head) + Len(value)
      BY <2>1, <2>2, <2>3, ConcatProperties
    <3> QED BY <2>3, <3>1
  <2>6. value \o more \in Seq(Bytes) /\ bytes = head \o (value \o more)
    BY <2>1, <2>2, <2>3, ConcatProperties, ConcatAssociative
  <2>7. ReadUInt32(bytes) = Len(value)
    BY <2>4, <2>6
  <2>8. bytes \in Seq(Bytes) /\ Len(bytes) >= 4 + Len(value)
    BY <2>1, <2>5, ConcatProperties, LenProperties
  <2>9. StringSize(bytes) = Len(w)
    BY <2>5, <2>7 DEF StringSize
  <2>10. SubSeq(bytes, 5, Len(w)) = value
    <3>1. SubSeq((head \o value) \o more, Len(head) + 1, Len(head) + Len(value)) = value
      BY <2>1, <2>3, Between
    <3> QED BY <2>2, <2>3, <2>5, <3>1
  <2>11. Took(reader, Len(w), value) = after
    BY <1>0, <2>5
  <2> HIDE DEF reader, bytes
  <2>12. Len(bytes) >= 4 /\ Len(bytes) >= StringSize(bytes)
    BY <2>1, <2>5, <2>8, <2>9
  <2>13. ReadValue(reader, type)
            = Took(reader, StringSize(bytes), SubSeq(bytes, 5, StringSize(bytes)))
    BY <1>1, <1>4, <2>12 DEF ReadValue
  <2>14. ReadValue(reader, type) = after
    BY <2>9, <2>10, <2>11, <2>13
  <2> QED BY <2>1, <2>5, <2>14 DEF reader, bytes, w, after
<1> QED
  BY <1>2, <1>3, <1>4 DEF IsValue

-----------------------------------------------------------------------------
(* Values, items and fields one after the other                             *)

\* Two runs that begin alike and go on alike end alike.
LEMMA SameRun ==
    ASSUME NEW n \in Nat, NEW f, NEW g, f[0] = g[0],
           \A i \in 1..n : f[i - 1] = g[i - 1] => f[i] = g[i]
    PROVE  f[n] = g[n]
<1> DEFINE Good == {i \in 0..n : f[i] = g[i]}
<1>1. 0 \in Good
  OBVIOUS
<1>2. ASSUME NEW i \in 1..n, i - 1 \in Good PROVE i \in Good
  BY <1>2
<1>3. \A i \in 0..n : i \in Good
  <2> HIDE DEF Good
  <2> QED BY <1>1, <1>2, Climb
<1> QED
  BY <1>3

LEMMA UpToNext ==
    ASSUME NEW s, NEW k \in Nat \ {0}
    PROVE  Append(UpTo(s, k - 1), s[k]) = UpTo(s, k)
<1> DEFINE S == {s[i] : i \in 1..k}
           a == UpTo(s, k - 1)
           b == UpTo(s, k)
<1>1. k - 1 \in Nat /\ (k - 1) + 1 = k /\ \A i \in 1..k : s[i] \in S
  OBVIOUS
<1>2. s[k] \in S
  BY <1>1
<1> HIDE DEF S
<1>3. a \in Seq(S) /\ Len(a) = k - 1 /\ \A i \in 1..(k - 1) : a[i] = s[i]
  <2>1. a \in [1..(k - 1) -> S]
    BY <1>1 DEF UpTo
  <2> QED BY <1>1, <2>1 DEF UpTo
<1>4. b \in Seq(S) /\ Len(b) = k /\ \A i \in 1..k : b[i] = s[i]
  <2>1. b \in [1..k -> S]
    BY <1>1 DEF UpTo
  <2> QED BY <1>1, <2>1 DEF UpTo
<1> HIDE DEF a, b
<1>5. /\ Append(a, s[k]) \in Seq(S) /\ Len(Append(a, s[k])) = k
      /\ \A i \in 1..(k - 1) : Append(a, s[k])[i] = a[i]
      /\ Append(a, s[k])[k] = s[k]
  BY <1>1, <1>2, <1>3, AppendProperties
<1>6. \A i \in 1..k : i \in 1..(k - 1) \/ i = k
  OBVIOUS
<1>7. \A i \in 1..k : Append(a, s[k])[i] = b[i]
  BY <1>3, <1>4, <1>5, <1>6
<1>8. Append(a, s[k]) = b
  BY <1>4, <1>5, <1>7, SeqEqual
<1> QED
  BY <1>8 DEF a, b

LEMMA UpToEnds ==
    ASSUME NEW s, IsSeq(s)
    PROVE  UpTo(s, 0) = <<>> /\ UpTo(s, Len(s)) = s
  BY DEF UpTo, IsSeq

\* Parts that are not empty have as many bytes as there are parts, or more.
LEMMA DividedLength ==
    ASSUME NEW bytes, NEW parts \in Parts, Divided(bytes, parts),
           \A i \in 1..Len(parts) : Len(parts[i]) >= 1
    PROVE  Len(bytes) \in Nat /\ Len(bytes) >= Len(parts)
<1> DEFINE n == Len(parts)
<1>1. PICK rest \in [0..n -> Seq(Bytes)] :
        /\ rest[0] = bytes /\ rest[n] = <<>>
        /\ \A i \in 1..n : rest[i - 1] = parts[i] \o rest[i]
  BY DEF Divided
<1>2. n \in Nat /\ parts \in [1..n -> Seq(Bytes)] /\ \A i \in 1..n : Len(parts[i]) >= 1
  BY LenProperties DEF Parts
<1> HIDE DEF n
<1> DEFINE Good == {i \in 0..n : Len(rest[i]) >= n - i}
<1>3. n \in Good
  BY <1>1, <1>2
<1>4. ASSUME NEW i \in 1..n, i \in Good PROVE i - 1 \in Good
  <2>1. i - 1 \in 0..n /\ i \in 0..n
    BY <1>2
  <2>2. parts[i] \in Seq(Bytes)
    BY <1>2
  <2>3. rest[i] \in Seq(Bytes)
    BY <2>1
  <2> DEFINE p == parts[i]
             r == rest[i]
  <2>4. p \in Seq(Bytes) /\ r \in Seq(Bytes) /\ Len(p) >= 1 /\ Len(r) >= n - i
    BY <1>2, <1>4, <2>2, <2>3
  <2>5. rest[i - 1] = p \o r
    BY <1>1
  <2> HIDE DEF p, r
  <2>6. Len(p \o r) = Len(p) + Len(r) /\ Len(p) \in Nat /\ Len(r) \in Nat
    BY <2>4, ConcatProperties, LenProperties
  <2>7. Len(rest[i - 1]) >= n - (i - 1)
    BY <1>2, <2>4, <2>5, <2>6
  <2> QED BY <2>1, <2>7
<1>5. 0 \in Good
  <2> HIDE DEF Good
  <2>1. \A i \in 0..n : i \in Good
    BY <1>2, <1>3, <1>4, Descend
  <2> QED BY <1>2, <2>1
<1>6. bytes \in Seq(Bytes)
  BY DividedIsBytes
<1> QED
  BY <1>1, <1>2, <1>5, <1>6, LenProperties DEF n

LEMMA ReadValuesRun ==
    ASSUME NEW types, Len(types) \in Nat, NEW reader, NEW t, t[0] = reader,
           \A i \in 1..Len(types) : t[i] = ReadValue(t[i - 1], types[i])
    PROVE  ReadValues(reader, types) = t[Len(types)]
<1> DEFINE n == Len(types)
           Step(f, i) == IF i = 0 THEN reader ELSE ReadValue(f[i - 1], types[i])
           Runs(f) == f = [i \in 0..n |-> Step(f, i)]
           run == [i \in 0..n |-> t[i]]
           h == CHOOSE f : Runs(f)
<1>1. Runs(run)
  <2>1. \A i \in 0..n : t[i] = Step(run, i)
    <3>1. \A i \in 0..n : i # 0 => i \in 1..n /\ i - 1 \in 0..n
      OBVIOUS
    <3> QED BY <3>1
  <2> HIDE DEF Step
  <2> QED BY <2>1
<1>2. Runs(h)
  <2> HIDE DEF Runs
  <2> QED BY <1>1
<1>3. ReadValues(reader, types) = h[n]
  BY Zenon DEF ReadValues
<1> HIDE DEF h
<1>4. \A i \in 0..n : h[i] = Step(h, i)
  <2> HIDE DEF Step
  <2> QED BY <1>2
<1>5. h[0] = t[0]
  BY <1>4
<1>6. ASSUME NEW i \in 1..n, h[i - 1] = t[i - 1] PROVE h[i] = t[i]
  <2>1. i \in 0..n /\ i # 0
    OBVIOUS
  <2> QED BY <1>4, <1>6, <2>1
<1>7. h[n] = t[n]
  <2> HIDE DEF n
  <2> QED BY <1>5, <1>6, SameRun DEF n
<1> QED
  BY <1>3, <1>7

LEMMA ReadItemsRun ==
    ASSUME NEW types, NEW n \in Nat, NEW reader, NEW t, t[0] = reader,
           \A i \in 1..n : t[i] = ReadItem(t[i - 1], types)
    PROVE  ReadItems(reader, n, types) = t[n]
<1> DEFINE Step(f, i) == IF i = 0 THEN reader ELSE ReadItem(f[i - 1], types)
           Runs(f) == f = [i \in 0..n |-> Step(f, i)]
           run == [i \in 0..n |-> t[i]]
           h == CHOOSE f : Runs(f)
<1>1. Runs(run)
  <2>1. \A i \in 0..n : t[i] = Step(run, i)
    <3>1. \A i \in 0..n : i # 0 => i \in 1..n /\ i - 1 \in 0..n
      OBVIOUS
    <3> QED BY <3>1
  <2> HIDE DEF Step
  <2> QED BY <2>1
<1>2. Runs(h)
  <2> HIDE DEF Runs
  <2> QED BY <1>1
<1>3. ReadItems(reader, n, types) = h[n]
  BY Zenon DEF ReadItems
<1> HIDE DEF h
<1>4. \A i \in 0..n : h[i] = Step(h, i)
  <2> HIDE DEF Step
  <2> QED BY <1>2
<1>5. h[0] = t[0]
  BY <1>4
<1>6. ASSUME NEW i \in 1..n, h[i - 1] = t[i - 1] PROVE h[i] = t[i]
  <2>1. i \in 0..n /\ i # 0
    OBVIOUS
  <2> QED BY <1>4, <1>6, <2>1
<1> QED
  BY <1>3, <1>5, <1>6, SameRun

LEMMA ReadFieldsRun ==
    ASSUME NEW types, Len(types) \in Nat, NEW reader, NEW t, t[0] = reader,
           \A i \in 1..Len(types) : t[i] = ReadField(t[i - 1], types[i])
    PROVE  ReadFields(reader, types) = t[Len(types)]
<1> DEFINE n == Len(types)
           Step(f, i) == IF i = 0 THEN reader ELSE ReadField(f[i - 1], types[i])
           Runs(f) == f = [i \in 0..n |-> Step(f, i)]
           run == [i \in 0..n |-> t[i]]
           h == CHOOSE f : Runs(f)
<1>1. Runs(run)
  <2>1. \A i \in 0..n : t[i] = Step(run, i)
    <3>1. \A i \in 0..n : i # 0 => i \in 1..n /\ i - 1 \in 0..n
      OBVIOUS
    <3> QED BY <3>1
  <2> HIDE DEF Step
  <2> QED BY <2>1
<1>2. Runs(h)
  <2> HIDE DEF Runs
  <2> QED BY <1>1
<1>3. ReadFields(reader, types) = h[n]
  BY Zenon DEF ReadFields
<1> HIDE DEF h
<1>4. \A i \in 0..n : h[i] = Step(h, i)
  <2> HIDE DEF Step
  <2> QED BY <1>2
<1>5. h[0] = t[0]
  BY <1>4
<1>6. ASSUME NEW i \in 1..n, h[i - 1] = t[i - 1] PROVE h[i] = t[i]
  <2>1. i \in 0..n /\ i # 0
    OBVIOUS
  <2> QED BY <1>4, <1>6, <2>1
<1>7. h[n] = t[n]
  <2> HIDE DEF n
  <2> QED BY <1>5, <1>6, SameRun DEF n
<1> QED
  BY <1>3, <1>7

\* The readers before and after each part when the parts carry the values.
Carries(t, bytes, parts, more, values) ==
    /\ t[0] = At(bytes \o more, <<>>)
    /\ t[Len(parts)] = At(more, values)
    /\ \A i \in 1..Len(parts) : \E left \in Seq(Bytes) : \E vs :
            /\ t[i - 1] = At(parts[i] \o left, vs)
            /\ t[i] = At(left, Append(vs, values[i]))

LEMMA Readers ==
    ASSUME NEW bytes, NEW parts \in Parts, Divided(bytes, parts), NEW more \in Seq(Bytes),
           NEW values, IsSeq(values), Len(values) = Len(parts)
    PROVE  \E t : Carries(t, bytes, parts, more, values)
<1> DEFINE n == Len(parts)
<1>1. PICK rest \in [0..n -> Seq(Bytes)] :
        /\ rest[0] = bytes /\ rest[n] = <<>>
        /\ \A i \in 1..n : rest[i - 1] = parts[i] \o rest[i]
  BY DEF Divided
<1>2. n \in Nat /\ parts \in [1..n -> Seq(Bytes)] /\ Len(values) = n
  BY LenProperties DEF Parts
<1>3. UpTo(values, 0) = <<>> /\ UpTo(values, n) = values
  BY UpToEnds
<1> HIDE DEF n
<1> DEFINE t == [i \in 0..n |-> At(rest[i] \o more, UpTo(values, i))]
<1>4. \A i \in 0..n : t[i] = At(rest[i] \o more, UpTo(values, i))
  OBVIOUS
<1> HIDE DEF t
<1>5. t[0] = At(bytes \o more, <<>>)
  <2>1. 0 \in 0..n
    BY <1>2
  <2> QED BY <1>1, <1>3, <1>4, <2>1
<1>6. t[n] = At(more, values)
  <2>1. n \in 0..n /\ <<>> \o more = more
    BY <1>2, ConcatEmptySeq
  <2> QED BY <1>1, <1>3, <1>4, <2>1
<1>7. ASSUME NEW i \in 1..n
      PROVE  \E left \in Seq(Bytes) : \E vs :
                /\ t[i - 1] = At(parts[i] \o left, vs)
                /\ t[i] = At(left, Append(vs, values[i]))
  <2>1. i - 1 \in 0..n /\ i \in 0..n /\ i \in Nat \ {0}
    BY <1>2
  <2> DEFINE p == parts[i]
             r == rest[i]
             left == r \o more
  <2>2. p \in Seq(Bytes)
    BY <1>2
  <2>3. r \in Seq(Bytes)
    BY <2>1
  <2>4. rest[i - 1] = p \o r
    BY <1>1
  <2> HIDE DEF p, r
  <2>5. (p \o r) \o more = p \o left /\ left \in Seq(Bytes)
    BY <2>2, <2>3, ConcatAssociative, ConcatProperties
  <2>6. t[i - 1] = At(p \o left, UpTo(values, i - 1))
    BY <1>4, <2>1, <2>4, <2>5
  <2>7. t[i] = At(left, Append(UpTo(values, i - 1), values[i]))
    <3>1. Append(UpTo(values, i - 1), values[i]) = UpTo(values, i)
      BY <2>1, UpToNext
    <3> QED BY <1>4, <2>1, <3>1 DEF r
  <2> HIDE DEF left
  <2> QED BY <2>5, <2>6, <2>7 DEF p
<1> QED
  BY <1>5, <1>6, <1>7 DEF n, Carries

\* A list of the types of fields.
IsNames(types) == Len(types) \in Nat /\ DOMAIN types = 1..Len(types)

LEMMA ValuesRoundTrip ==
    ASSUME NEW types, IsNames(types), NEW values, AreValues(types, values),
           NEW more \in Seq(Bytes)
    PROVE  /\ WriteValues(types, values) \in Seq(Bytes)
           /\ Len(types) >= 1 => Len(WriteValues(types, values)) >= 1
           /\ ReadValues(At(WriteValues(types, values) \o more, <<>>), types) = At(more, values)
<1> DEFINE n == Len(types)
           parts == [i \in DOMAIN types |-> WriteValue(types[i], values[i])]
           bytes == FlattenSeq(parts)
<1>1. n \in Nat /\ DOMAIN types = 1..n /\ IsSeq(values) /\ Len(values) = n
  BY DEF AreValues, IsNames
<1>2. \A i \in 1..n : IsValue(types[i], values[i])
  BY <1>1 DEF AreValues
<1> HIDE DEF n
<1>3. \A i \in 1..n : /\ WriteValue(types[i], values[i]) \in Seq(Bytes)
                      /\ Len(WriteValue(types[i], values[i])) >= 1
  BY <1>2, ValueRoundTrip
<1>4. /\ parts \in Parts /\ Len(parts) = n
      /\ \A i \in 1..n : parts[i] = WriteValue(types[i], values[i])
  <2>1. parts \in [1..n -> Seq(Bytes)]
    BY <1>1, <1>3
  <2> QED BY <1>1, <2>1 DEF Parts
<1>5. WriteValues(types, values) = bytes
  BY DEF WriteValues
<1> HIDE DEF parts
<1>6. bytes \in Seq(Bytes) /\ Divided(bytes, parts)
  BY <1>4, FlattenDivided
<1> HIDE DEF bytes
<1>7. Len(bytes) \in Nat /\ Len(bytes) >= n
  BY <1>3, <1>4, <1>6, DividedLength
<1>8. PICK t : Carries(t, bytes, parts, more, values)
  <2>1. parts \in Parts /\ Divided(bytes, parts) /\ IsSeq(values) /\ Len(values) = Len(parts)
    BY <1>1, <1>4, <1>6
  <2> QED BY <2>1, Readers
<1>9. ASSUME NEW i \in 1..n PROVE t[i] = ReadValue(t[i - 1], types[i])
  <2>0. PICK left \in Seq(Bytes) : \E vs : /\ t[i - 1] = At(parts[i] \o left, vs)
                                           /\ t[i] = At(left, Append(vs, values[i]))
    BY <1>4, <1>8 DEF Carries
  <2>1. PICK vs : /\ t[i - 1] = At(parts[i] \o left, vs)
                  /\ t[i] = At(left, Append(vs, values[i]))
    BY <2>0
  <2>2. ReadValue(At(WriteValue(types[i], values[i]) \o left, vs), types[i])
            = At(left, Append(vs, values[i]))
    BY <1>2, ValueRoundTrip
  <2> QED BY <1>4, <2>1, <2>2
<1>10. ReadValues(At(bytes \o more, <<>>), types) = t[n]
  <2>1. t[0] = At(bytes \o more, <<>>)
    BY <1>8 DEF Carries
  <2> QED BY <1>1, <1>9, <2>1, ReadValuesRun DEF n
<1>11. t[n] = At(more, values)
  BY <1>4, <1>8 DEF Carries
<1> QED
  BY <1>1, <1>5, <1>6, <1>7, <1>10, <1>11 DEF n

\* What Write... and Read... name of a structure is the same, and it is something.
LEMMA Structures ==
    /\ ReadStruct = WriteStruct
    /\ \A type \in DOMAIN ItemOf : /\ IsNames(WriteStruct[ItemOf[type]])
                                   /\ Len(WriteStruct[ItemOf[type]]) >= 1
<1> DEFINE Something(types) == IsNames(types) /\ Len(types) >= 1
<1>1. ReadStruct = WriteStruct
  BY Zenon DEF ReadStruct, WriteStruct
<1>2. /\ Something(WriteStruct.FriendInfo) /\ Something(WriteStruct.PublicRoomInfo)
      /\ Something(WriteStruct.MatchHistoryRow) /\ Something(WriteStruct.PlayerScoreInfo)
  BY DEF WriteStruct, IsNames
<1>3. /\ DOMAIN ItemOf = {"FriendList", "PublicRoomList", "MatchHistory", "PlayerScoreList"}
      /\ ItemOf["FriendList"] = "FriendInfo" /\ ItemOf["PublicRoomList"] = "PublicRoomInfo"
      /\ ItemOf["MatchHistory"] = "MatchHistoryRow"
      /\ ItemOf["PlayerScoreList"] = "PlayerScoreInfo"
  BY DEF ItemOf
<1> HIDE DEF Something
<1>4. \A type \in DOMAIN ItemOf : Something(WriteStruct[ItemOf[type]])
  BY <1>2, <1>3
<1> QED
  BY <1>1, <1>4 DEF Something

\* An item of a list.
LEMMA ItemRoundTrip ==
    ASSUME NEW types, IsNames(types), NEW values, AreValues(types, values),
           NEW more \in Seq(Bytes), NEW vs
    PROVE  ReadItem(At(WriteValues(types, values) \o more, vs), types)
                = At(more, Append(vs, values))
<1> DEFINE bytes == WriteValues(types, values) \o more
           list == At(bytes, vs)
           item == ReadValues([list EXCEPT !.values = <<>>], types)
<1>1. ReadItem(list, types) = [item EXCEPT !.values = Append(list.values, item.values)]
  BY DEF ReadItem
<1>2. ReadValues(At(bytes, <<>>), types) = At(more, values)
  BY ValuesRoundTrip
<1> HIDE DEF bytes
<1>3. [list EXCEPT !.values = <<>>] = At(bytes, <<>>) /\ list.values = vs
  BY Replaced DEF At
<1> HIDE DEF list
<1>4. item = At(more, values)
  BY <1>2, <1>3
<1> HIDE DEF item
<1>5. item.values = values /\ [At(more, values) EXCEPT !.values = Append(vs, values)]
                                = At(more, Append(vs, values))
  BY <1>4, Replaced DEF At
<1>6. ReadItem(list, types) = At(more, Append(vs, values))
  BY <1>1, <1>3, <1>4, <1>5
<1> QED
  BY <1>6 DEF list, bytes

\* The items of a list.
Items(types, value) == [i \in DOMAIN value |-> WriteValues(types, value[i])]

LEMMA ItemsRoundTrip ==
    ASSUME NEW types, IsNames(types), Len(types) >= 1, NEW value, IsSeq(value),
           \A i \in DOMAIN value : AreValues(types, value[i]), NEW more \in Seq(Bytes)
    PROVE  /\ FlattenSeq(Items(types, value)) \in Seq(Bytes)
           /\ Len(FlattenSeq(Items(types, value))) >= Len(value)
           /\ ReadItems(At(FlattenSeq(Items(types, value)) \o more, <<>>), Len(value), types)
                = At(more, value)
<1> DEFINE n == Len(value)
           parts == Items(types, value)
           bytes == FlattenSeq(parts)
<1>1. n \in Nat /\ DOMAIN value = 1..n
  BY DEF IsSeq
<1> HIDE DEF n
<1>2. \A i \in 1..n : AreValues(types, value[i])
  BY <1>1
<1>3. \A i \in 1..n : /\ WriteValues(types, value[i]) \in Seq(Bytes)
                      /\ Len(WriteValues(types, value[i])) >= 1
  BY <1>2, ValuesRoundTrip
<1>4. /\ parts \in Parts /\ Len(parts) = n
      /\ \A i \in 1..n : parts[i] = WriteValues(types, value[i])
  <2>1. parts \in [1..n -> Seq(Bytes)]
    BY <1>1, <1>3 DEF Items
  <2> QED BY <1>1, <2>1 DEF Parts, Items
<1> HIDE DEF parts
<1>5. bytes \in Seq(Bytes) /\ Divided(bytes, parts)
  BY <1>4, FlattenDivided
<1> HIDE DEF bytes
<1>6. Len(bytes) \in Nat /\ Len(bytes) >= n
  BY <1>3, <1>4, <1>5, DividedLength
<1>7. PICK t : Carries(t, bytes, parts, more, value)
  <2>1. parts \in Parts /\ Divided(bytes, parts) /\ IsSeq(value) /\ Len(value) = Len(parts)
    BY <1>4, <1>5 DEF n
  <2> QED BY <2>1, Readers
<1>8. ASSUME NEW i \in 1..n PROVE t[i] = ReadItem(t[i - 1], types)
  <2>0. PICK left \in Seq(Bytes) : \E vs : /\ t[i - 1] = At(parts[i] \o left, vs)
                                           /\ t[i] = At(left, Append(vs, value[i]))
    BY <1>4, <1>7 DEF Carries
  <2>1. PICK vs : /\ t[i - 1] = At(parts[i] \o left, vs)
                  /\ t[i] = At(left, Append(vs, value[i]))
    BY <2>0
  <2>2. ReadItem(At(WriteValues(types, value[i]) \o left, vs), types)
            = At(left, Append(vs, value[i]))
    BY <1>2, ItemRoundTrip
  <2> QED BY <1>4, <2>1, <2>2
<1>9. ReadItems(At(bytes \o more, <<>>), n, types) = t[n]
  <2> DEFINE start == At(bytes \o more, <<>>)
  <2>1. t[0] = start
    BY <1>7 DEF Carries
  <2> HIDE DEF start
  <2>2. ReadItems(start, n, types) = t[n]
    BY <1>1, <1>8, <2>1, ReadItemsRun
  <2> QED BY <2>2 DEF start
<1>10. t[n] = At(more, value)
  BY <1>4, <1>7 DEF Carries
<1> QED
  BY <1>5, <1>6, <1>9, <1>10 DEF n, bytes, parts

\* A list is read back with the count before it.
LEMMA ListRoundTrip ==
    ASSUME NEW types, IsNames(types), Len(types) >= 1, NEW value, IsSeq(value),
           Len(value) < Word32, \A i \in DOMAIN value : AreValues(types, value[i]),
           NEW more \in Seq(Bytes), NEW vs
    PROVE  LET bytes == WriteUInt32(Len(value)) \o FlattenSeq(Items(types, value)) IN
           /\ bytes \in Seq(Bytes)
           /\ ReadList(At(bytes \o more, vs), types) = At(more, Append(vs, value))
<1> DEFINE n == Len(value)
           head == WriteUInt32(n)
           items == FlattenSeq(Items(types, value))
           left == items \o more
           bytes == (head \o items) \o more
           reader == At(bytes, vs)
<1>1. n \in Nat /\ n < Word32
  BY DEF IsSeq
<1>2. items \in Seq(Bytes) /\ Len(items) >= n
  BY EmptySeq, ItemsRoundTrip
<1>3. ReadItems(At(left, <<>>), n, types) = At(more, value)
  BY ItemsRoundTrip
<1> HIDE DEF items, n
<1>4. head \in Seq(Bytes) /\ Len(head) = 4
  BY <1>1, EmptySeq, UInt32RoundTrip
<1>5. \A rest \in Seq(Bytes) : ReadUInt32(head \o rest) = n
  BY <1>1, UInt32RoundTrip
<1> HIDE DEF head
<1>6. left \in Seq(Bytes) /\ Len(left) = Len(items) + Len(more) /\ head \o items \in Seq(Bytes)
  BY <1>2, <1>4, ConcatProperties
<1>7. bytes = head \o left
  BY <1>2, <1>4, ConcatAssociative
<1> HIDE DEF left, bytes
<1>8. Len(bytes) = 4 + Len(left) /\ SubSeq(bytes, 5, Len(bytes)) = left
  <2>1. Len(head \o left) = Len(head) + Len(left)
        /\ SubSeq(head \o left, Len(head) + 1, Len(head \o left)) = left
    BY <1>4, <1>6, Ends
  <2>2. Len(head) + 1 = 5
    BY <1>4
  <2> QED BY <1>4, <1>7, <2>1, <2>2
<1>9. ReadUInt32(bytes) = n
  BY <1>5, <1>6, <1>7
<1>10. Len(bytes) >= 4 /\ ~(n > Len(bytes))
  BY <1>1, <1>2, <1>6, <1>8, LenProperties
<1> DEFINE start == [reader EXCEPT !.left = SubSeq(@, 5, Len(@)), !.values = <<>>]
           list == ReadItems(start, n, types)
<1>11. reader.ok /\ reader.left = bytes /\ reader.values = vs
  BY DEF At
<1>12. start = At(left, <<>>)
  <2>1. start = [[reader EXCEPT !.left = left] EXCEPT !.values = <<>>]
    <3> HIDE DEF reader
    <3> QED BY <1>8, <1>11
  <2>2. [At(bytes, vs) EXCEPT !.left = left] = At(left, vs)
    BY Replaced
  <2>3. [At(left, vs) EXCEPT !.values = <<>>] = At(left, <<>>)
    BY Replaced
  <2> QED BY <2>1, <2>2, <2>3
<1> HIDE DEF start
<1>13. list = At(more, value)
  BY <1>3, <1>12
<1>14. ReadList(reader, types) = [list EXCEPT !.values = Append(reader.values, list.values)]
  <2> HIDE DEF reader, list
  <2> QED BY <1>9, <1>10, <1>11 DEF ReadList, start, list
<1> HIDE DEF reader, list
<1>15. list.values = value
  BY <1>13 DEF At
<1>16. [At(more, value) EXCEPT !.values = Append(vs, value)] = At(more, Append(vs, value))
  <2> DEFINE new == Append(vs, value)
  <2> HIDE DEF new
  <2>1. [At(more, value) EXCEPT !.values = new] = At(more, new)
    BY Replaced
  <2> QED BY <2>1 DEF new
<1>17. ReadList(reader, types) = At(more, Append(vs, value))
  BY <1>11, <1>13, <1>14, <1>15, <1>16
<1> QED
  BY <1>6, <1>17 DEF reader, bytes, head, items, n

LEMMA FieldRoundTrip ==
    ASSUME NEW type, NEW value, IsField(type, value), NEW more \in Seq(Bytes), NEW vs
    PROVE  /\ WriteField(type, value) \in Seq(Bytes)
           /\ ReadField(At(WriteField(type, value) \o more, vs), type)
                = At(more, Append(vs, value))
<1>1. CASE type \in DOMAIN ItemOf
  <2> DEFINE types == WriteStruct[ItemOf[type]]
  <2>1. IsNames(types) /\ Len(types) >= 1 /\ ReadStruct[ItemOf[type]] = types
    BY <1>1, Structures
  <2>2. IsSeq(value) /\ Len(value) < Word32 /\ \A i \in DOMAIN value : AreValues(types, value[i])
    BY <1>1 DEF IsField
  <2>3. WriteField(type, value) = WriteUInt32(Len(value)) \o FlattenSeq(Items(types, value))
    BY <1>1, Zenon DEF WriteField, Items
  <2> HIDE DEF types
  <2>4. \A reader : ReadField(reader, type) = ReadList(reader, types)
    BY <1>1, <2>1 DEF ReadField
  <2>5. LET bytes == WriteUInt32(Len(value)) \o FlattenSeq(Items(types, value)) IN
        /\ bytes \in Seq(Bytes)
        /\ ReadList(At(bytes \o more, vs), types) = At(more, Append(vs, value))
    BY <2>1, <2>2, ListRoundTrip
  <2> QED BY <2>3, <2>4, <2>5
<1>2. CASE type \notin DOMAIN ItemOf
  <2>1. IsValue(type, value) /\ WriteField(type, value) = WriteValue(type, value)
        /\ \A reader : ReadField(reader, type) = ReadValue(reader, type)
    BY <1>2 DEF IsField, WriteField, ReadField
  <2> QED BY <2>1, ValueRoundTrip
<1> QED
  BY <1>1, <1>2

Fields(types, values) == FlattenSeq([i \in DOMAIN types |-> WriteField(types[i], values[i])])

LEMMA FieldsRoundTrip ==
    ASSUME NEW types, IsNames(types), NEW values, IsSeq(values), Len(values) = Len(types),
           \A i \in DOMAIN types : IsField(types[i], values[i])
    PROVE  /\ Fields(types, values) \in Seq(Bytes)
           /\ ReadFields(At(Fields(types, values), <<>>), types) = At(<<>>, values)
<1> DEFINE n == Len(types)
           parts == [i \in DOMAIN types |-> WriteField(types[i], values[i])]
           bytes == FlattenSeq(parts)
<1>1. n \in Nat /\ DOMAIN types = 1..n /\ Len(values) = n
  BY DEF IsNames
<1>2. \A i \in 1..n : IsField(types[i], values[i])
  BY <1>1
<1> HIDE DEF n
<1>3. \A i \in 1..n : WriteField(types[i], values[i]) \in Seq(Bytes)
  BY <1>2, EmptySeq, FieldRoundTrip
<1>4. /\ parts \in Parts /\ Len(parts) = n
      /\ \A i \in 1..n : parts[i] = WriteField(types[i], values[i])
  <2>1. parts \in [1..n -> Seq(Bytes)]
    BY <1>1, <1>3
  <2> QED BY <1>1, <2>1 DEF Parts
<1>5. Fields(types, values) = bytes
  BY DEF Fields
<1> HIDE DEF parts
<1>6. bytes \in Seq(Bytes) /\ Divided(bytes, parts)
  BY <1>4, FlattenDivided
<1> HIDE DEF bytes
<1>7. PICK t : Carries(t, bytes, parts, <<>>, values)
  <2>1. parts \in Parts /\ Divided(bytes, parts) /\ IsSeq(values) /\ Len(values) = Len(parts)
    BY <1>1, <1>4, <1>6
  <2> QED BY <2>1, EmptySeq, Readers
<1>8. ASSUME NEW i \in 1..n PROVE t[i] = ReadField(t[i - 1], types[i])
  <2>0. PICK left \in Seq(Bytes) : \E vs : /\ t[i - 1] = At(parts[i] \o left, vs)
                                           /\ t[i] = At(left, Append(vs, values[i]))
    BY <1>4, <1>7 DEF Carries
  <2>1. PICK vs : /\ t[i - 1] = At(parts[i] \o left, vs)
                  /\ t[i] = At(left, Append(vs, values[i]))
    BY <2>0
  <2>2. ReadField(At(WriteField(types[i], values[i]) \o left, vs), types[i])
            = At(left, Append(vs, values[i]))
    BY <1>2, FieldRoundTrip
  <2> QED BY <1>4, <2>1, <2>2
<1>9. ReadFields(At(bytes \o <<>>, <<>>), types) = t[n]
  <2>1. t[0] = At(bytes \o <<>>, <<>>)
    BY <1>7 DEF Carries
  <2> QED BY <1>1, <1>8, <2>1, ReadFieldsRun DEF n
<1>10. t[n] = At(<<>>, values) /\ bytes \o <<>> = bytes
  BY <1>4, <1>6, <1>7, ConcatEmptySeq DEF Carries
<1> QED
  BY <1>5, <1>6, <1>9, <1>10

-----------------------------------------------------------------------------
(* A message                                                                *)

\* A message that is read is one that is written, and the body is the same.
LEMMA Bodies ==
    /\ \A kind \in DOMAIN RequestRead \cap DOMAIN BodySent : RequestRead[kind] = BodySent[kind]
    /\ \A kind \in DOMAIN NoticeRead \cap DOMAIN BodySent : NoticeRead[kind] = BodySent[kind]
<1>1. \A kind \in DOMAIN RequestRead \cap DOMAIN BodySent : RequestRead[kind] = BodySent[kind]
  BY DEF RequestRead, BodySent
<1>2. \A kind \in DOMAIN NoticeRead \cap DOMAIN BodySent : NoticeRead[kind] = BodySent[kind]
  BY DEF NoticeRead, BodySent
<1> QED
  BY <1>1, <1>2

\* The number of a kind is that of no other kind, and two bytes hold it.
LEMMA Kinds ==
    ASSUME NEW kind \in DOMAIN BodySent
    PROVE  /\ KindNumber(kind) \in DOMAIN PacketKinds /\ PacketKinds[KindNumber(kind)] = kind
           /\ KindNumber(kind) \in Nat /\ KindNumber(kind) < Word16
<1>1. \E i \in DOMAIN PacketKinds : PacketKinds[i] = kind
  BY DEF BodySent, PacketKinds
<1>2. KindNumber(kind) \in DOMAIN PacketKinds /\ PacketKinds[KindNumber(kind)] = kind
  BY <1>1, Zenon DEF KindNumber
<1>3. DOMAIN PacketKinds = 1..43
  BY DEF PacketKinds
<1>4. Word16 >= 49 /\ Word16 \in Nat
  BY Sizes
<1> QED
  BY <1>2, <1>3, <1>4

LEMMA FieldLists ==
    ASSUME NEW body
    PROVE  IsNames(FieldsOf(body, WriteStruct))
<1>1. CASE body = "none"
  BY <1>1 DEF FieldsOf, IsNames
<1>2. CASE body = "PuzzleData"
  <2>1. FieldsOf(body, WriteStruct) = Puzzle
    <3>1. body # "none" /\ body \notin DOMAIN WriteStruct
      BY <1>2 DEF WriteStruct
    <3> QED BY <1>2, <3>1, Zenon DEF FieldsOf
  <2> DEFINE n == 2 * BoardSize * BoardSize
  <2>2. BoardSize * BoardSize \in Nat
    BY FormatAssumption
  <2>3. n \in Nat
    BY <2>2, FormatAssumption
  <2>4. Puzzle = [i \in 1..n |-> "int32"]
    BY DEF Puzzle
  <2> HIDE DEF n
  <2> QED BY <2>1, <2>3, <2>4 DEF IsNames
<1>3. CASE body # "none" /\ body # "PuzzleData" /\ body \in DOMAIN WriteStruct
  <2>1. FieldsOf(body, WriteStruct) = WriteStruct[body]
    BY <1>3, Zenon DEF FieldsOf
  <2>2. \A name \in DOMAIN WriteStruct : IsNames(WriteStruct[name])
    BY DEF WriteStruct, IsNames
  <2> QED BY <1>3, <2>1, <2>2
<1>4. CASE body # "none" /\ body # "PuzzleData" /\ body \notin DOMAIN WriteStruct
  <2>1. FieldsOf(body, WriteStruct) = <<body>>
    BY <1>4, Zenon DEF FieldsOf
  <2> QED BY <2>1 DEF IsNames
<1> QED
  BY <1>1, <1>2, <1>3, <1>4

\* What is left of a payload after its kind is what was written of the fields, so
\* the reader of the kind that the number stands for finds the message.
LEMMA MessageRoundTrip ==
    ASSUME NEW bodies, bodies \in {RequestRead, NoticeRead}, NEW m, IsMessage(m, bodies)
    PROVE  MakePacket(m) \in Seq(Bytes) /\ ReadPacket(MakePacket(m), bodies) = m
<1> DEFINE body == BodySent[m.kind]
           types == FieldsOf(body, WriteStruct)
           number == KindNumber(m.kind)
           head == WriteUInt16(number)
           fields == Fields(types, m.fields)
           payload == head \o fields
<1>1. /\ m = [kind |-> m.kind, fields |-> m.fields]
      /\ m.kind \in DOMAIN bodies /\ m.kind \in DOMAIN BodySent
      /\ IsSeq(m.fields) /\ Len(m.fields) = Len(types)
      /\ \A i \in DOMAIN types : IsField(types[i], m.fields[i])
  BY DEF IsMessage
<1>2. MakePacket(m) = payload
  BY Zenon DEF MakePacket, Fields
<1>3. bodies[m.kind] = body
  BY <1>1, Bodies
<1>4. IsNames(types)
  BY FieldLists
<1>5. FieldsOf(body, ReadStruct) = types
  BY Structures
<1>6. /\ number \in DOMAIN PacketKinds /\ PacketKinds[number] = m.kind
      /\ number \in Nat /\ number < Word16
  BY <1>1, Kinds
<1> HIDE DEF body, types, number
<1>7. fields \in Seq(Bytes) /\ ReadFields(At(fields, <<>>), types) = At(<<>>, m.fields)
  BY <1>1, <1>4, FieldsRoundTrip
<1> HIDE DEF fields
<1>8. head \in Seq(Bytes) /\ Len(head) = 2 /\ ReadUInt16(payload) = number
  BY <1>6, <1>7, UInt16RoundTrip
<1> HIDE DEF head
<1>9. /\ payload \in Seq(Bytes) /\ Len(payload) >= 2
      /\ SubSeq(payload, 3, Len(payload)) = fields
  <2>1. /\ head \o fields \in Seq(Bytes) /\ Len(head \o fields) = Len(head) + Len(fields)
        /\ SubSeq(head \o fields, Len(head) + 1, Len(head \o fields)) = fields
    BY <1>7, <1>8, Ends
  <2>2. Len(head) + 1 = 3 /\ Len(fields) \in Nat
    BY <1>7, <1>8, LenProperties
  <2> QED BY <1>8, <2>1, <2>2
<1> HIDE DEF payload
<1> DEFINE reader == ReadFields(Reader(SubSeq(payload, 3, Len(payload))), types)
<1>10. reader.ok /\ reader.values = m.fields
  <2>1. Reader(fields) = At(fields, <<>>)
    BY DEF Reader, At
  <2>2. reader = At(<<>>, m.fields)
    BY <1>7, <1>9, <2>1
  <2> HIDE DEF reader
  <2> QED BY <2>2 DEF At
<1>11. ReadPacket(payload, bodies) = [kind |-> m.kind, fields |-> reader.values]
  <2>1. ReadUInt16(payload) \in DOMAIN PacketKinds
        /\ PacketKinds[ReadUInt16(payload)] = m.kind
    BY <1>6, <1>8
  <2>2. FieldsOf(bodies[m.kind], ReadStruct) = types
    BY <1>3, <1>5
  <2>3. ~(Len(payload) < 2 \/ ~reader.ok)
    BY <1>9, <1>10, LenProperties
  <2> QED BY <1>1, <2>1, <2>2, <2>3 DEF ReadPacket
<1> QED
  BY <1>1, <1>2, <1>9, <1>10, <1>11

-----------------------------------------------------------------------------
(* Packets                                                                  *)

LEMMA FramedRoundTrip ==
    ASSUME NEW payload \in Seq(Bytes), Len(payload) < Word32, NEW more \in Seq(Bytes)
    PROVE  LET frame == Framed(payload)
               buffer == frame \o more IN
           /\ frame \in Seq(Bytes) /\ Len(frame) = 4 + Len(payload)
           /\ buffer \in Seq(Bytes) /\ HasPacket(buffer) /\ PacketSize(buffer) = Len(frame)
           /\ Payload(buffer) = payload /\ WithoutPacket(buffer) = more
<1> DEFINE head == WriteUInt32(Len(payload))
           frame == head \o payload
           buffer == frame \o more
<1>1. Framed(payload) = frame /\ Len(payload) \in Nat
  BY LenProperties DEF Framed
<1>2. head \in Seq(Bytes) /\ Len(head) = 4
  BY <1>1, EmptySeq, UInt32RoundTrip
<1>3. \A rest \in Seq(Bytes) : ReadUInt32(head \o rest) = Len(payload)
  BY <1>1, UInt32RoundTrip
<1> HIDE DEF head
<1>4. frame \in Seq(Bytes) /\ Len(frame) = Len(head) + Len(payload)
  BY <1>2, ConcatProperties
<1>5. buffer = head \o (payload \o more) /\ payload \o more \in Seq(Bytes)
  BY <1>2, ConcatAssociative, ConcatProperties
<1>6. SubSeq(buffer, Len(head) + 1, Len(head) + Len(payload)) = payload
  BY <1>2, Between
<1> HIDE DEF frame
<1>7. /\ buffer \in Seq(Bytes) /\ Len(buffer) = Len(frame) + Len(more)
      /\ SubSeq(buffer, Len(frame) + 1, Len(buffer)) = more
  BY <1>4, Ends
<1> HIDE DEF buffer
<1>8. PacketSize(buffer) = Len(frame) /\ Len(frame) = 4 + Len(payload)
  BY <1>2, <1>3, <1>4, <1>5 DEF PacketSize, HeaderSize
<1>9. Len(more) \in Nat
  BY LenProperties
<1>10. HasPacket(buffer)
  BY <1>1, <1>7, <1>8, <1>9 DEF HasPacket, HeaderSize
<1>11. Payload(buffer) = payload
  BY <1>2, <1>6, <1>8 DEF Payload, HeaderSize
<1>12. WithoutPacket(buffer) = more
  BY <1>7, <1>8 DEF WithoutPacket
<1> QED
  BY <1>1, <1>4, <1>7, <1>8, <1>10, <1>11, <1>12 DEF buffer

\* The size of a packet stands in its first four bytes.
LEMMA SameSize ==
    ASSUME NEW r \in Seq(Bytes), NEW t \in Seq(Bytes), Len(r) >= 4
    PROVE  PacketSize(r \o t) = PacketSize(r)
<1>1. Len(r) \in Nat /\ Len(t) \in Nat
  BY LenProperties
<1>2. \A i \in 1..(Len(r) + Len(t)) : (r \o t)[i] = IF i <= Len(r) THEN r[i] ELSE t[i - Len(r)]
  BY ConcatProperties
<1>3. \A i \in {1, 2} : i \in 1..(Len(r) + Len(t)) /\ i <= Len(r)
  BY <1>1
<1>4. (r \o t)[1] = r[1]
  BY <1>2, <1>3, Zenon
<1>5. (r \o t)[2] = r[2]
  BY <1>2, <1>3, Zenon
<1>6. SubSeq(r \o t, 3, 4) = SubSeq(r, 3, 4)
  <2>1. 3 \in 1..Len(r) /\ 4 \in 1..Len(r)
    BY <1>1
  <2> QED BY <2>1, SubSeqOfConcat1
<1> DEFINE b == r \o t
<1>7. b[1] = r[1] /\ b[2] = r[2] /\ SubSeq(b, 3, 4) = SubSeq(r, 3, 4)
  BY <1>4, <1>5, <1>6
<1> HIDE DEF b
<1>8. PacketSize(b) = PacketSize(r)
  BY <1>7 DEF PacketSize, ReadUInt32, ReadUInt16
<1> QED
  BY <1>8 DEF b

\* The bytes that r begins are those that f begins, and all of f is in r.
BeginsWith(r, t, f, more) == r \o t = f \o more /\ Len(f) <= Len(r)

LEMMA PrefixCut ==
    ASSUME NEW r \in Seq(Bytes), NEW t \in Seq(Bytes), NEW f \in Seq(Bytes),
           NEW more \in Seq(Bytes), BeginsWith(r, t, f, more)
    PROVE  LET u == SubSeq(r, Len(f) + 1, Len(r)) IN
           u \in Seq(Bytes) /\ r = f \o u /\ u \o t = more
<1> DEFINE u == SubSeq(r, Len(f) + 1, Len(r))
<1>1. Len(f) \in Nat /\ Len(r) \in Nat /\ r \o t = f \o more /\ Len(f) <= Len(r)
  BY LenProperties DEF BeginsWith
<1>2. SubSeq(f \o more, 1, Len(f)) = f
  BY Ends
<1>3. SubSeq(r, 1, Len(f)) = f
  <2>1. CASE Len(f) = 0
    <3>1. f = <<>>
      BY <2>1, EmptySeq
    <3>2. SubSeq(r, 1, 0) = <<>>
      BY SubSeqEmpty
    <3> QED BY <2>1, <3>1, <3>2
  <2>2. CASE Len(f) > 0
    <3>1. 1 \in 1..Len(r) /\ Len(f) \in 1..Len(r)
      BY <1>1, <2>2
    <3>2. SubSeq(r \o t, 1, Len(f)) = SubSeq(r, 1, Len(f))
      BY <3>1, SubSeqOfConcat1
    <3> QED BY <1>1, <1>2, <3>2
  <2> QED BY <1>1, <2>1, <2>2
<1>4. r = f \o u
  <2>1. 1 \in 1..(Len(r) + 1) /\ Len(f) \in (1 - 1)..Len(r) /\ Len(r) \in Len(f)..Len(r)
    BY <1>1
  <2>2. SubSeq(r, 1, Len(f)) \o SubSeq(r, Len(f) + 1, Len(r)) = SubSeq(r, 1, Len(r))
    BY <2>1, ConcatAdjacentSubSeq
  <2>3. SubSeq(r, 1, Len(r)) = r
    BY SubSeqFull
  <2> QED BY <1>3, <2>2, <2>3
<1>5. u \in Seq(Bytes)
  <2>1. \A i \in (Len(f) + 1)..Len(r) : r[i] \in Bytes
    BY <1>1, ElementOfSeq
  <2>2. Len(f) + 1 \in Int /\ Len(r) \in Int
    BY <1>1
  <2> QED BY <2>1, <2>2, SubSeqProperties
<1> HIDE DEF u
<1>6. f \o (u \o t) = f \o more /\ u \o t \in Seq(Bytes)
  <2>1. (f \o u) \o t = f \o (u \o t)
    BY <1>5, ConcatAssociative
  <2>2. u \o t \in Seq(Bytes)
    BY <1>5, ConcatProperties
  <2> QED BY <1>1, <1>4, <2>1, <2>2
<1>7. u \o t = more
  <2> DEFINE v == u \o t
  <2>1. v \in Seq(Bytes) /\ f \o v = f \o more
    BY <1>6
  <2> HIDE DEF v
  <2>2. SubSeq(f \o v, Len(f) + 1, Len(f \o v)) = v
    BY <2>1, Ends
  <2>3. SubSeq(f \o more, Len(f) + 1, Len(f \o more)) = more
    BY Ends
  <2>4. v = more
    BY <2>1, <2>2, <2>3
  <2> QED BY <2>4 DEF v
<1> QED
  BY <1>4, <1>5, <1>7 DEF u

\* The messages as they are sent.
Frames(ms) == [i \in 1..Len(ms) |-> Framed(MakePacket(ms[i]))]

\* What the messages of a direction are.
AreMessages(M, bodies) ==
    bodies \in {RequestRead, NoticeRead} /\ \A m \in M : IsMessage(m, bodies)

LEMMA FrameRoundTrip ==
    ASSUME NEW M, NEW bodies, AreMessages(M, bodies), NEW m \in M, NEW more \in Seq(Bytes)
    PROVE  LET frame == Framed(MakePacket(m))
               buffer == frame \o more IN
           /\ frame \in Seq(Bytes) /\ Len(frame) \in Nat /\ Len(frame) >= 4
           /\ HasPacket(buffer) /\ PacketSize(buffer) = Len(frame)
           /\ ReadPacket(Payload(buffer), bodies) = m /\ WithoutPacket(buffer) = more
<1> DEFINE payload == MakePacket(m)
<1>1. /\ payload \in Seq(Bytes) /\ Len(payload) \in Nat /\ Len(payload) < Word32
      /\ ReadPacket(payload, bodies) = m
  <2>1. IsMessage(m, bodies) /\ bodies \in {RequestRead, NoticeRead}
    BY DEF AreMessages
  <2>2. payload \in Seq(Bytes) /\ ReadPacket(payload, bodies) = m
    BY <2>1, MessageRoundTrip
  <2>3. Len(payload) \in Nat
    BY <2>2, LenProperties
  <2>4. 2 * (Len(payload) + 4) < Word32
    BY <2>1 DEF IsMessage
  <2>5. Len(payload) < Word32
    <3> HIDE DEF payload
    <3> QED BY <2>3, <2>4, Sizes
  <2> QED BY <2>2, <2>3, <2>5
<1> HIDE DEF payload
<1> DEFINE frame == Framed(payload)
           buffer == frame \o more
<1>2. /\ frame \in Seq(Bytes) /\ Len(frame) = 4 + Len(payload)
      /\ HasPacket(buffer) /\ PacketSize(buffer) = Len(frame)
      /\ Payload(buffer) = payload /\ WithoutPacket(buffer) = more
  BY <1>1, FramedRoundTrip
<1> HIDE DEF frame, buffer
<1>3. Len(frame) \in Nat /\ Len(frame) >= 4 /\ ReadPacket(Payload(buffer), bodies) = m
  BY <1>1, <1>2
<1> QED
  BY <1>2, <1>3 DEF frame, buffer, payload

LEMMA FramesOf ==
    ASSUME NEW M, NEW bodies, AreMessages(M, bodies), NEW ms \in Seq(M)
    PROVE  /\ Frames(ms) \in Parts /\ Len(Frames(ms)) = Len(ms)
           /\ \A i \in 1..Len(ms) : Frames(ms)[i] = Framed(MakePacket(ms[i]))
<1>1. Len(ms) \in Nat /\ \A i \in 1..Len(ms) : ms[i] \in M
  BY LenProperties, ElementOfSeq
<1>2. \A m \in M : Framed(MakePacket(m)) \in Seq(Bytes)
  BY EmptySeq, FrameRoundTrip
<1> DEFINE n == Len(ms)
<1>3. Frames(ms) = [i \in 1..n |-> Framed(MakePacket(ms[i]))]
  BY DEF Frames
<1>4. n \in Nat /\ \A i \in 1..n : Framed(MakePacket(ms[i])) \in Seq(Bytes)
  BY <1>1, <1>2
<1> HIDE DEF n
<1>5. Frames(ms) \in [1..n -> Seq(Bytes)]
  BY <1>3, <1>4
<1> QED
  BY <1>3, <1>4, <1>5 DEF n, Parts

\* A packet that a buffer holds is the first that is pending, however far the bytes
\* behind it have come.
LEMMA NextPacket ==
    ASSUME NEW M, NEW bodies, AreMessages(M, bodies), NEW pending \in Seq(M),
           NEW r \in Seq(Bytes), NEW t \in Seq(Bytes),
           Divided(r \o t, Frames(pending)), HasPacket(r)
    PROVE  /\ pending # <<>> /\ ReadPacket(Payload(r), bodies) = Head(pending)
           /\ WithoutPacket(r) \in Seq(Bytes) /\ Len(WithoutPacket(r)) <= Len(r) - 4
           /\ Divided(WithoutPacket(r) \o t, Frames(Tail(pending)))
<1> DEFINE parts == Frames(pending)
<1>1. Len(r) \in Nat /\ Len(t) \in Nat /\ Len(r) >= 4 /\ Len(r) >= PacketSize(r)
  BY LenProperties DEF HasPacket, HeaderSize
<1>2. /\ parts \in Parts /\ Len(parts) = Len(pending)
      /\ \A i \in 1..Len(pending) : parts[i] = Framed(MakePacket(pending[i]))
  BY FramesOf
<1>3. r \o t \in Seq(Bytes) /\ Len(r \o t) = Len(r) + Len(t)
  BY ConcatProperties
<1> HIDE DEF parts
<1>4. pending # <<>>
  <2>1. ASSUME pending = <<>> PROVE FALSE
    <3>1. Len(parts) = 0 /\ parts = <<>>
      BY <1>2, <2>1, EmptySeq DEF Parts
    <3>2. r \o t = <<>>
      BY <3>1 DEF Divided, parts
    <3> QED BY <1>1, <1>3, <3>2
  <2> QED BY <2>1
<1>5. Head(pending) \in M /\ Head(pending) = pending[1] /\ Len(pending) \in Nat \ {0}
      /\ Tail(pending) \in Seq(M) /\ Len(Tail(pending)) = Len(pending) - 1
      /\ \A i \in 1..Len(Tail(pending)) : Tail(pending)[i] = pending[i + 1]
  <2>1. Len(pending) \in Nat \ {0}
    BY <1>4, EmptySeq
  <2>2. Head(pending) = pending[1]
    BY <1>4
  <2> QED BY <1>4, <2>1, <2>2, HeadTailProperties
<1> DEFINE m == Head(pending)
           later == Tail(pending)
           f == Framed(MakePacket(m))
<1>6. parts # <<>> /\ parts[1] = f
  BY <1>2, <1>5, EmptySeq
<1>7. Tail(parts) = Frames(later)
  <2>1. Tail(parts) \in Parts /\ Len(Tail(parts)) = Len(later)
        /\ \A i \in 1..Len(Tail(parts)) : Tail(parts)[i] = parts[i + 1]
    BY <1>2, <1>5, <1>6, HeadTailProperties DEF Parts
  <2>2. Frames(later) \in Parts /\ Len(Frames(later)) = Len(later)
        /\ \A i \in 1..Len(later) : Frames(later)[i] = Framed(MakePacket(later[i]))
    BY <1>5, FramesOf
  <2>3. \A i \in 1..Len(later) : i + 1 \in 1..Len(pending)
    BY <1>5
  <2>4. \A i \in 1..Len(later) : Tail(parts)[i] = Frames(later)[i]
    BY <1>2, <1>5, <2>1, <2>2, <2>3
  <2> HIDE DEF later
  <2> QED BY <2>1, <2>2, <2>4, SeqEqual DEF Parts
<1>8. PICK more \in Seq(Bytes) : r \o t = f \o more /\ Divided(more, Frames(later))
  <2>1. Divided(r \o t, parts)
    BY DEF parts
  <2>2. \E rest \in Seq(Bytes) : r \o t = parts[1] \o rest /\ Divided(rest, Tail(parts))
    BY <1>2, <1>6, <2>1, DividedFirst
  <2> QED BY <1>6, <1>7, <2>2
<1>9. f \in Seq(Bytes) /\ Len(f) \in Nat /\ Len(f) >= 4
  BY <1>5, EmptySeq, FrameRoundTrip
<1>10. \A rest \in Seq(Bytes) : /\ PacketSize(f \o rest) = Len(f)
                                /\ ReadPacket(Payload(f \o rest), bodies) = m
                                /\ WithoutPacket(f \o rest) = rest
  BY <1>5, FrameRoundTrip
<1> HIDE DEF f, later, m
<1>11. Len(f) <= Len(r)
  <2>1. PacketSize(r \o t) = PacketSize(r)
    BY <1>1, SameSize
  <2>2. PacketSize(r \o t) = Len(f)
    BY <1>8, <1>10
  <2> QED BY <1>1, <2>1, <2>2
<1> DEFINE u == SubSeq(r, Len(f) + 1, Len(r))
<1>12. u \in Seq(Bytes) /\ r = f \o u /\ u \o t = more
  <2>1. BeginsWith(r, t, f, more)
    BY <1>8, <1>11 DEF BeginsWith
  <2> QED BY <1>9, <2>1, PrefixCut
<1> HIDE DEF u
<1>13. WithoutPacket(r) = u /\ ReadPacket(Payload(r), bodies) = m
  BY <1>10, <1>12
<1>14. Len(u) <= Len(r) - 4
  <2>1. Len(f \o u) = Len(f) + Len(u) /\ Len(u) \in Nat
    BY <1>9, ConcatProperties, LenProperties
  <2> QED BY <1>9, <1>12, <2>1
<1> QED
  BY <1>4, <1>8, <1>12, <1>13, <1>14 DEF m, later

\* The inner loop, turn after turn.
Turns(t, buffer, bodies) ==
    /\ t[0] = [messages |-> <<>>, rest |-> buffer]
    /\ \A i \in 1..(Len(buffer) \div HeaderSize) : t[i] = TakePacket(t[i - 1], bodies)
    /\ CompletePackets(buffer, bodies) = t[Len(buffer) \div HeaderSize]

LEMMA CompletePacketsRun ==
    ASSUME NEW buffer \in Seq(Bytes), NEW bodies
    PROVE  \E t : Turns(t, buffer, bodies)
<1> DEFINE n == Len(buffer) \div HeaderSize
           start == [messages |-> <<>>, rest |-> buffer]
           Goes(f, k) == f[0] = start /\ \A i \in 1..k : f[i] = TakePacket(f[i - 1], bodies)
           Good == {k \in 0..n : \E f : Goes(f, k)}
<1>1. n \in Nat
  BY LenProperties DEF HeaderSize
<1> HIDE DEF n, start
<1>2. 0 \in Good
  <2> DEFINE f == [i \in {0} |-> start]
  <2>1. Goes(f, 0)
    OBVIOUS
  <2> HIDE DEF Goes
  <2> QED BY <1>1, <2>1
<1>3. ASSUME NEW k \in 1..n, k - 1 \in Good PROVE k \in Good
  <2>1. PICK f : Goes(f, k - 1)
    BY <1>3
  <2> DEFINE new == TakePacket(f[k - 1], bodies)
             g == [i \in 0..k |-> IF i < k THEN f[i] ELSE new]
  <2>2. \A i \in 0..(k - 1) : g[i] = f[i]
    <3>1. \A i \in 0..(k - 1) : i \in 0..k /\ i < k
      OBVIOUS
    <3> HIDE DEF new
    <3> QED BY <3>1
  <2>3. g[k] = new
    <3>1. k \in 0..k /\ ~(k < k)
      OBVIOUS
    <3> HIDE DEF new
    <3> QED BY <3>1
  <2> HIDE DEF g
  <2>4. g[0] = start
    <3>1. 0 \in 0..(k - 1)
      OBVIOUS
    <3> QED BY <2>1, <2>2, <3>1
  <2>5. ASSUME NEW i \in 1..k PROVE g[i] = TakePacket(g[i - 1], bodies)
    <3>1. i - 1 \in 0..(k - 1)
      OBVIOUS
    <3>2. CASE i = k
      BY <2>2, <2>3, <3>1, <3>2
    <3>3. CASE i # k
      <4>1. i \in 1..(k - 1) /\ i \in 0..(k - 1)
        BY <3>3
      <4> QED BY <2>1, <2>2, <3>1, <4>1
    <3> QED BY <3>2, <3>3
  <2>6. Goes(g, k) /\ k \in 0..n
    BY <2>4, <2>5
  <2> HIDE DEF Goes
  <2> QED BY <2>6
<1>4. n \in Good
  <2> HIDE DEF Good
  <2>1. \A k \in 0..n : k \in Good
    BY <1>1, <1>2, <1>3, Climb
  <2> QED BY <1>1, <2>1
<1>5. PICK f : Goes(f, n)
  BY <1>4
<1> DEFINE Step(g, i) == IF i = 0 THEN start ELSE TakePacket(g[i - 1], bodies)
           Runs(g) == g = [i \in 0..n |-> Step(g, i)]
           run == [i \in 0..n |-> f[i]]
           h == CHOOSE g : Runs(g)
<1>6. Runs(run)
  <2>1. \A i \in 0..n : f[i] = Step(run, i)
    <3>1. \A i \in 0..n : i # 0 => i \in 1..n /\ i - 1 \in 0..n
      BY <1>1
    <3> QED BY <1>5, <3>1
  <2> HIDE DEF Step
  <2> QED BY <2>1
<1>7. Runs(h)
  <2> HIDE DEF Runs
  <2> QED BY <1>6
<1>8. CompletePackets(buffer, bodies) = h[n]
  BY Zenon DEF CompletePackets, n, start
<1> HIDE DEF h
<1>9. \A i \in 0..n : h[i] = Step(h, i)
  <2> HIDE DEF Step
  <2> QED BY <1>7
<1>10. Goes(h, n)
  <2>1. 0 \in 0..n /\ \A i \in 1..n : i \in 0..n /\ i # 0
    BY <1>1
  <2> QED BY <1>9, <2>1
<1> QED
  BY <1>8, <1>10 DEF n, start, Turns

\* What is pending comes after what has been received.
Follows(sent, received, pending) == sent = received \o pending

LEMMA NextMoves ==
    ASSUME NEW M, NEW a \in Seq(M), NEW b \in Seq(M), NEW c \in Seq(M), c # <<>>,
           NEW sent, Follows(sent, a \o b, c)
    PROVE  Follows(sent, a \o Append(b, Head(c)), Tail(c))
<1> DEFINE h == Head(c)
           q == Tail(c)
           o == <<h>>
<1>1. h \in M /\ q \in Seq(M) /\ Len(c) \in Nat \ {0} /\ Len(q) = Len(c) - 1
      /\ h = c[1] /\ \A i \in 1..Len(q) : q[i] = c[i + 1]
  BY HeadTailProperties, EmptySeq
<1> HIDE DEF h, q
<1>2. o \in Seq(M) /\ Len(o) = 1 /\ o[1] = h
  BY <1>1
<1>3. Append(b, h) = b \o o
  BY <1>1, AppendIsConcat
<1> HIDE DEF o
<1>4. c = o \o q
  <2>1. /\ o \o q \in Seq(M) /\ Len(o \o q) = 1 + Len(q)
        /\ \A i \in 1..(1 + Len(q)) : (o \o q)[i] = IF i <= 1 THEN o[i] ELSE q[i - 1]
    <3>1. /\ o \o q \in Seq(M) /\ Len(o \o q) = Len(o) + Len(q)
          /\ \A i \in 1..(Len(o) + Len(q)) :
                (o \o q)[i] = IF i <= Len(o) THEN o[i] ELSE q[i - Len(o)]
      BY <1>1, <1>2, ConcatProperties
    <3> QED BY <1>2, <3>1
  <2>2. Len(c) = 1 + Len(q)
    BY <1>1
  <2>3. ASSUME NEW i \in 1..Len(c) PROVE c[i] = (o \o q)[i]
    <3>1. (o \o q)[i] = IF i <= 1 THEN o[i] ELSE q[i - 1]
      BY <2>1, <2>2, Zenon
    <3>2. CASE i = 1
      BY <1>1, <1>2, <3>1, <3>2
    <3>3. CASE i # 1
      <4>1. i - 1 \in 1..Len(q) /\ (i - 1) + 1 = i /\ ~(i <= 1)
        BY <1>1, <3>3
      <4> QED BY <1>1, <3>1, <4>1
    <3> QED BY <3>2, <3>3
  <2> DEFINE w == o \o q
  <2>4. w \in Seq(M) /\ Len(w) = Len(c) /\ \A i \in 1..Len(c) : c[i] = w[i]
    BY <2>1, <2>2, <2>3
  <2> HIDE DEF w
  <2>5. c = w
    BY <2>4, SeqEqual
  <2> QED BY <2>5 DEF w
<1>5. (a \o b) \o (o \o q) = ((a \o b) \o o) \o q
  <2> DEFINE d == a \o b
  <2>1. d \in Seq(M)
    BY ConcatProperties
  <2> HIDE DEF d
  <2>2. \A x, y \in Seq(M) : (d \o x) \o y = d \o (x \o y)
    BY <2>1, ConcatAssociative
  <2>3. (d \o o) \o q = d \o (o \o q)
    BY <1>1, <1>2, <2>2
  <2> QED BY <2>3 DEF d
<1>6. (a \o b) \o o = a \o (b \o o)
  BY <1>2, ConcatAssociative
<1> QED
  BY <1>3, <1>4, <1>5, <1>6 DEF h, q, Follows

\* What has been sent is what has been received and what the bytes carry.
Carried(M, bytes, sent, received) ==
    \E pending \in Seq(M) : Follows(sent, received, pending) /\ Divided(bytes, Frames(pending))

\* The loop takes out what has come whole, and leaves nothing that has.
LEMMA Cutting ==
    ASSUME NEW M, NEW bodies, AreMessages(M, bodies), NEW sent, NEW received \in Seq(M),
           NEW buffer \in Seq(Bytes), NEW left \in Seq(Bytes),
           Carried(M, buffer \o left, sent, received)
    PROVE  LET cut == CompletePackets(buffer, bodies) IN
           /\ cut.rest \in Seq(Bytes) /\ ~HasPacket(cut.rest)
           /\ cut.messages \in Seq(M)
           /\ Carried(M, cut.rest \o left, sent, received \o cut.messages)
<1> DEFINE n == Len(buffer) \div HeaderSize
           Well(c, i) == /\ c.rest \in Seq(Bytes) /\ c.messages \in Seq(M)
                         /\ HasPacket(c.rest) => Len(c.rest) <= Len(buffer) - 4 * i
                         /\ Carried(M, c.rest \o left, sent, received \o c.messages)
<1>1. PICK t : Turns(t, buffer, bodies)
  BY CompletePacketsRun
<1>2. /\ t[0] = [messages |-> <<>>, rest |-> buffer]
      /\ \A i \in 1..n : t[i] = TakePacket(t[i - 1], bodies)
      /\ CompletePackets(buffer, bodies) = t[n]
  BY <1>1 DEF Turns
<1>3. Len(buffer) \in Nat /\ n \in Nat /\ Len(buffer) < 4 * n + 4
  BY LenProperties DEF HeaderSize
<1> HIDE DEF n
<1> DEFINE Good == {i \in 0..n : Well(t[i], i)}
<1>4. 0 \in Good
  <2>1. t[0].rest = buffer /\ t[0].messages = <<>> /\ received \o <<>> = received
    BY <1>2, ConcatEmptySeq
  <2>2. Len(buffer) <= Len(buffer) - 4 * 0 /\ 0 \in 0..n
    BY <1>3
  <2>3. Well(t[0], 0)
    BY <2>1, <2>2, EmptySeq
  <2> HIDE DEF Well
  <2> QED BY <2>2, <2>3
<1>5. ASSUME NEW i \in 1..n, i - 1 \in Good PROVE i \in Good
  <2> DEFINE c == t[i - 1]
             d == t[i]
  <2>0. d = TakePacket(c, bodies) /\ i \in 0..n /\ i \in Nat
    BY <1>2, <1>3
  <2> HIDE DEF Well
  <2>1. Well(c, i - 1)
    BY <1>5
  <2> USE DEF Well
  <2> HIDE DEF c, d
  <2>2. CASE ~HasPacket(c.rest)
    <3>1. d = c
      BY <2>0, <2>2 DEF TakePacket
    <3>2. Well(d, i)
      BY <2>1, <2>2, <3>1
    <3> HIDE DEF Well
    <3> QED BY <2>0, <3>2 DEF d
  <2>3. CASE HasPacket(c.rest)
    <3> DEFINE m == ReadPacket(Payload(c.rest), bodies)
               u == WithoutPacket(c.rest)
    <3>1. d.messages = Append(c.messages, m) /\ d.rest = u
      BY <2>0, <2>3 DEF TakePacket
    <3>2. c.rest \in Seq(Bytes) /\ c.messages \in Seq(M)
          /\ Len(c.rest) <= Len(buffer) - 4 * (i - 1)
      BY <2>1, <2>3
    <3>3. PICK pending \in Seq(M) : Follows(sent, received \o c.messages, pending)
                                    /\ Divided(c.rest \o left, Frames(pending))
      BY <2>1 DEF Carried
    <3>4. /\ pending # <<>> /\ m = Head(pending)
          /\ u \in Seq(Bytes) /\ Len(u) <= Len(c.rest) - 4
          /\ Divided(u \o left, Frames(Tail(pending)))
      BY <2>3, <3>2, <3>3, NextPacket
    <3>5. m \in M /\ Tail(pending) \in Seq(M)
      BY <3>4, HeadTailProperties
    <3> HIDE DEF m, u
    <3>6. Append(c.messages, m) \in Seq(M)
      BY <3>2, <3>5, AppendProperties
    <3>7. Follows(sent, received \o Append(c.messages, m), Tail(pending))
      <4> DEFINE got == c.messages
      <4>1. got \in Seq(M) /\ Follows(sent, received \o got, pending)
        BY <3>2, <3>3
      <4> HIDE DEF got
      <4>2. Follows(sent, received \o Append(got, Head(pending)), Tail(pending))
        BY <3>4, <4>1, NextMoves
      <4> QED BY <3>4, <4>2 DEF got
    <3>8. Len(u) <= Len(buffer) - 4 * i
      <4> DEFINE x == Len(c.rest)
                 y == Len(u)
      <4>1. x \in Nat /\ y \in Nat
        BY <3>2, <3>4, LenProperties
      <4>2. x <= Len(buffer) - 4 * (i - 1) /\ y <= x - 4
        BY <3>2, <3>4
      <4> HIDE DEF x, y
      <4>3. y <= Len(buffer) - 4 * i
        BY <1>3, <2>0, <4>1, <4>2
      <4> QED BY <4>3 DEF y
    <3>9. Carried(M, u \o left, sent, received \o Append(c.messages, m))
      BY <3>4, <3>5, <3>7 DEF Carried
    <3>10. Well(d, i)
      BY <3>1, <3>4, <3>6, <3>8, <3>9
    <3> HIDE DEF Well
    <3> QED BY <2>0, <3>10 DEF d
  <2> QED BY <2>2, <2>3
<1>6. n \in Good
  <2> HIDE DEF Good
  <2>1. \A i \in 0..n : i \in Good
    BY <1>3, <1>4, <1>5, Climb
  <2> QED BY <1>3, <2>1
<1> DEFINE cut == t[n]
<1>7. Well(cut, n)
  <2> HIDE DEF Well
  <2> QED BY <1>6
<1> HIDE DEF cut
<1>8. ~HasPacket(cut.rest)
  <2>1. ASSUME HasPacket(cut.rest) PROVE FALSE
    <3> DEFINE x == Len(cut.rest)
    <3>1. x >= 4 /\ x \in Nat
      BY <1>7, <2>1, LenProperties DEF HasPacket, HeaderSize
    <3>2. x <= Len(buffer) - 4 * n
      BY <1>7, <2>1
    <3> HIDE DEF x
    <3> QED BY <1>3, <3>1, <3>2
  <2> QED BY <2>1
<1>9. CompletePackets(buffer, bodies) = cut
  BY <1>2 DEF cut
<1> QED
  BY <1>7, <1>8, <1>9

\* What is sent is carried behind what was sent before.
LEMMA Sending ==
    ASSUME NEW M, NEW bodies, AreMessages(M, bodies), NEW sent, NEW received \in Seq(M),
           NEW bytes \in Seq(Bytes), Carried(M, bytes, sent, received), NEW m \in M
    PROVE  /\ bytes \o Framed(MakePacket(m)) \in Seq(Bytes)
           /\ Carried(M, bytes \o Framed(MakePacket(m)), Append(sent, m), received)
<1> DEFINE frame == Framed(MakePacket(m))
<1>1. PICK pending \in Seq(M) : Follows(sent, received, pending) /\ Divided(bytes, Frames(pending))
  BY DEF Carried
<1> DEFINE more == Append(pending, m)
<1>2. more \in Seq(M) /\ Len(more) = Len(pending) + 1 /\ Len(pending) \in Nat
      /\ (\A i \in 1..Len(pending) : more[i] = pending[i]) /\ more[Len(pending) + 1] = m
  BY AppendProperties, LenProperties
<1>3. frame \in Seq(Bytes)
  BY EmptySeq, FrameRoundTrip
<1>4. /\ Frames(pending) \in Parts /\ Len(Frames(pending)) = Len(pending)
      /\ \A i \in 1..Len(pending) : Frames(pending)[i] = Framed(MakePacket(pending[i]))
  BY FramesOf
<1> HIDE DEF more
<1>5. /\ Frames(more) \in Parts /\ Len(Frames(more)) = Len(more)
      /\ \A i \in 1..Len(more) : Frames(more)[i] = Framed(MakePacket(more[i]))
  BY <1>2, FramesOf
<1>6. Frames(more) = Append(Frames(pending), frame)
  <2> DEFINE a == Append(Frames(pending), frame)
             b == Frames(more)
             n == Len(pending)
  <2>1. /\ a \in Seq(Seq(Bytes)) /\ Len(a) = n + 1
        /\ \A i \in 1..n : a[i] = Framed(MakePacket(pending[i]))
        /\ a[n + 1] = frame
    <3> HIDE DEF frame
    <3>1. /\ a \in Seq(Seq(Bytes)) /\ Len(a) = Len(Frames(pending)) + 1
          /\ \A i \in 1..Len(Frames(pending)) : a[i] = Frames(pending)[i]
          /\ a[Len(Frames(pending)) + 1] = frame
      BY <1>3, <1>4, AppendProperties DEF Parts
    <3> QED BY <1>4, <3>1
  <2>2. /\ b \in Seq(Seq(Bytes)) /\ Len(b) = n + 1
        /\ \A i \in 1..n : b[i] = Framed(MakePacket(pending[i]))
        /\ b[n + 1] = frame
    <3>1. n + 1 \in 1..Len(more) /\ \A i \in 1..n : i \in 1..Len(more)
      BY <1>2
    <3> QED BY <1>2, <1>5, <3>1 DEF Parts
  <2> HIDE DEF a, b, frame
  <2>3. \A i \in 1..(n + 1) : i \in 1..n \/ i = n + 1
    BY <1>2
  <2>4. a = b
    BY <2>1, <2>2, <2>3, SeqEqual
  <2> QED BY <2>4 DEF a, b
<1> HIDE DEF frame
<1>7. Divided(bytes \o frame, Frames(more)) /\ bytes \o frame \in Seq(Bytes)
  BY <1>1, <1>3, <1>4, <1>6, DividedAppend
<1>8. Append(sent, m) = received \o more
  <2>1. received \o pending \in Seq(M) /\ Append(received \o pending, m)
                                            = (received \o pending) \o <<m>>
    BY ConcatProperties, AppendIsConcat
  <2>2. more = pending \o <<m>> /\ <<m>> \in Seq(M)
    BY AppendIsConcat DEF more
  <2>3. (received \o pending) \o <<m>> = received \o (pending \o <<m>>)
    BY <2>2, ConcatAssociative
  <2> QED BY <1>1, <2>1, <2>2, <2>3 DEF Follows
<1> QED
  BY <1>2, <1>7, <1>8 DEF frame, Carried, Follows

\* Where nothing whole is left and nothing is under way, everything has been received.
LEMMA NothingLeft ==
    ASSUME NEW M, NEW bodies, AreMessages(M, bodies), NEW sent, NEW received \in Seq(M),
           NEW bytes \in Seq(Bytes), Carried(M, bytes, sent, received), ~HasPacket(bytes)
    PROVE  sent = received /\ bytes = <<>>
<1>1. PICK pending \in Seq(M) : Follows(sent, received, pending)
                                /\ Divided(bytes, Frames(pending))
  BY DEF Carried
<1> DEFINE parts == Frames(pending)
<1>2. /\ parts \in Parts /\ Len(parts) = Len(pending)
      /\ \A i \in 1..Len(pending) : parts[i] = Framed(MakePacket(pending[i]))
  BY FramesOf
<1>3. Divided(bytes, parts)
  BY <1>1
<1> HIDE DEF parts
<1>4. pending = <<>>
  <2> SUFFICES ASSUME pending # <<>> PROVE FALSE
    OBVIOUS
  <2>1. Len(pending) \in Nat \ {0} /\ 1 \in 1..Len(pending)
    BY EmptySeq
  <2>2. pending[1] \in M
    BY <2>1, ElementOfSeq
  <2> DEFINE f == Framed(MakePacket(pending[1]))
  <2>3. parts[1] = f /\ parts # <<>>
    BY <1>2, <2>1, EmptySeq
  <2>4. \A rest \in Seq(Bytes) : HasPacket(f \o rest)
    BY <2>2, FrameRoundTrip
  <2>5. \E rest \in Seq(Bytes) : bytes = parts[1] \o rest /\ Divided(rest, Tail(parts))
    BY <1>2, <1>3, <2>3, DividedFirst
  <2> HIDE DEF f
  <2> QED BY <2>3, <2>4, <2>5
<1>5. Len(parts) = 0 /\ received \o <<>> = received
  BY <1>2, <1>4, EmptySeq, ConcatEmptySeq
<1>6. sent = received
  BY <1>1, <1>4, <1>5 DEF Follows
<1>7. bytes = <<>>
  BY <1>3, <1>5 DEF Divided
<1> QED
  BY <1>6, <1>7

\* A recv takes some bytes off the front.
LEMMA Taken ==
    ASSUME NEW wire \in Seq(Bytes), wire # <<>>, NEW most \in Nat \ {0}
    PROVE  LET bytes == SubSeq(wire, 1, Min({most, Len(wire)}))
               left == SubSeq(wire, Len(bytes) + 1, Len(wire)) IN
           bytes \in Seq(Bytes) /\ left \in Seq(Bytes) /\ wire = bytes \o left
<1> DEFINE n == Min({most, Len(wire)})
           bytes == SubSeq(wire, 1, n)
           left == SubSeq(wire, n + 1, Len(wire))
<1>1. Len(wire) \in Nat \ {0}
  BY EmptySeq
<1>2. n \in 1..Len(wire)
  <2> DEFINE Least(x) == x \in {most, Len(wire)} /\ \A y \in {most, Len(wire)} : x <= y
  <2>1. Least(most) \/ Least(Len(wire))
    BY <1>1
  <2>2. Least(CHOOSE x : Least(x))
    <3> HIDE DEF Least
    <3> QED BY <2>1
  <2>3. n = CHOOSE x : Least(x)
    BY DEF Min
  <2> QED BY <1>1, <2>2, <2>3
<1> HIDE DEF n
<1>3. \A i \in 1..Len(wire) : wire[i] \in Bytes
  BY ElementOfSeq
<1>4. bytes \in Seq(Bytes) /\ Len(bytes) = n
  <2>1. 1 \in Int /\ n \in Int /\ \A i \in 1..n : wire[i] \in Bytes
    BY <1>1, <1>2, <1>3
  <2>2. bytes \in Seq(Bytes) /\ Len(bytes) = IF 1 <= n THEN n - 1 + 1 ELSE 0
    BY <2>1, SubSeqProperties
  <2> HIDE DEF bytes
  <2> QED BY <1>2, <2>2
<1>5. left \in Seq(Bytes)
  <2>1. n + 1 \in Int /\ Len(wire) \in Int /\ \A i \in (n + 1)..Len(wire) : wire[i] \in Bytes
    BY <1>1, <1>2, <1>3
  <2> QED BY <2>1, SubSeqProperties
<1>6. bytes \o left = wire
  <2>1. 1 \in 1..(Len(wire) + 1) /\ n \in (1 - 1)..Len(wire) /\ Len(wire) \in n..Len(wire)
    BY <1>1, <1>2
  <2>2. bytes \o left = SubSeq(wire, 1, Len(wire))
    BY <2>1, ConcatAdjacentSubSeq
  <2> QED BY <2>2, SubSeqFull
<1> QED
  BY <1>4, <1>5, <1>6 DEF n

-----------------------------------------------------------------------------
(* The connection                                                           *)

LEMMA AllMessages == AreMessages(Requests, RequestRead) /\ AreMessages(Notices, NoticeRead)
  BY MessagesAssumption DEF AreMessages

\* In either direction the bytes in the buffer and under way carry what has been sent
\* and not received, as long as the connection stands; and no buffer is left with a
\* packet that is whole.
HubInv ==
    /\ mConnected \in BOOLEAN /\ inHub \in BOOLEAN /\ reset \in BOOLEAN
    /\ requests \in Seq(Requests) /\ notices \in Seq(Notices)
    /\ up \in Seq(Bytes) /\ receiveBuffer \in Seq(Bytes) /\ ~HasPacket(receiveBuffer)
    /\ down \in Seq(Bytes) /\ mReceiveBuffer \in Seq(Bytes) /\ ~HasPacket(mReceiveBuffer)
    /\ reset => up = <<>> /\ down = <<>>
    /\ ~inHub => up = <<>> /\ (~mConnected \/ reset)
    /\ ~mConnected => down = <<>>
    /\ ~reset => Carried(Requests, receiveBuffer \o up, requestsSent, requests)
    /\ ~reset /\ mConnected => Carried(Notices, mReceiveBuffer \o down, noticesSent, notices)

LEMMA NoPacket == ~HasPacket(<<>>) /\ <<>> \in Seq(Bytes)
<1>1. Len(<<>>) = 0 /\ <<>> \in Seq(Bytes)
  BY EmptySeq
<1> QED
  BY <1>1 DEF HasPacket, HeaderSize

LEMMA NothingCarried == ASSUME NEW M PROVE Carried(M, <<>>, <<>>, <<>>)
<1>1. <<>> \in Seq(M) /\ Frames(<<>>) = <<>> /\ Follows(<<>>, <<>>, <<>>)
  <2>1. Frames(<<>>) = <<>>
    BY DEF Frames
  <2>2. Follows(<<>>, <<>>, <<>>)
    BY ConcatEmptySeq, EmptySeq DEF Follows
  <2> QED BY <2>1, <2>2, EmptySeq
<1> QED
  BY <1>1, NothingDivided DEF Carried

LEMMA HubInit == Init => HubInv
<1> SUFFICES ASSUME Init PROVE HubInv
  OBVIOUS
<1>1. <<>> \o <<>> = <<>>
  BY ConcatEmptySeq, EmptySeq
<1> QED
  BY <1>1, NoPacket, NothingCarried, EmptySeq DEF Init, HubInv

\* A direction takes a message: what it carried before, and the message.
LEMMA SendStep ==
    ASSUME NEW M, NEW bodies, AreMessages(M, bodies), NEW sent, NEW received \in Seq(M),
           NEW buffer \in Seq(Bytes), NEW wire \in Seq(Bytes),
           Carried(M, buffer \o wire, sent, received), NEW m \in M
    PROVE  LET longer == wire \o Framed(MakePacket(m)) IN
           longer \in Seq(Bytes) /\ Carried(M, buffer \o longer, Append(sent, m), received)
<1> DEFINE f == Framed(MakePacket(m))
<1>1. f \in Seq(Bytes)
  BY EmptySeq, FrameRoundTrip
<1>2. buffer \o wire \in Seq(Bytes) /\ wire \o f \in Seq(Bytes)
  BY <1>1, ConcatProperties
<1>3. Carried(M, (buffer \o wire) \o f, Append(sent, m), received)
  BY <1>2, Sending
<1>4. (buffer \o wire) \o f = buffer \o (wire \o f)
  BY <1>1, ConcatAssociative
<1> QED
  BY <1>2, <1>3, <1>4

\* A recv takes bytes off a direction and packets out of the buffer.
LEMMA ReceiveStep ==
    ASSUME NEW M, NEW bodies, AreMessages(M, bodies), NEW sent, NEW received \in Seq(M),
           NEW buffer \in Seq(Bytes), NEW wire \in Seq(Bytes), wire # <<>>,
           Carried(M, buffer \o wire, sent, received), NEW most \in Nat \ {0}
    PROVE  LET bytes == SubSeq(wire, 1, Min({most, Len(wire)}))
               left == SubSeq(wire, Len(bytes) + 1, Len(wire))
               framed == CompletePackets(buffer \o bytes, bodies) IN
           /\ left \in Seq(Bytes) /\ framed.rest \in Seq(Bytes) /\ ~HasPacket(framed.rest)
           /\ framed.messages \in Seq(M) /\ received \o framed.messages \in Seq(M)
           /\ Carried(M, framed.rest \o left, sent, received \o framed.messages)
<1> DEFINE bytes == SubSeq(wire, 1, Min({most, Len(wire)}))
           left == SubSeq(wire, Len(bytes) + 1, Len(wire))
           whole == buffer \o bytes
           framed == CompletePackets(whole, bodies)
<1>1. bytes \in Seq(Bytes) /\ left \in Seq(Bytes) /\ wire = bytes \o left
  BY Taken
<1> HIDE DEF bytes, left
<1>2. whole \in Seq(Bytes) /\ buffer \o wire = whole \o left
  <2>1. buffer \o bytes \in Seq(Bytes)
    BY <1>1, ConcatProperties
  <2>2. (buffer \o bytes) \o left = buffer \o (bytes \o left)
    BY <1>1, ConcatAssociative
  <2> QED BY <1>1, <2>1, <2>2
<1> HIDE DEF whole
<1>3. /\ framed.rest \in Seq(Bytes) /\ ~HasPacket(framed.rest)
      /\ framed.messages \in Seq(M)
      /\ Carried(M, framed.rest \o left, sent, received \o framed.messages)
  <2>1. Carried(M, whole \o left, sent, received)
    BY <1>2
  <2> QED BY <1>1, <1>2, <2>1, Cutting
<1> HIDE DEF framed
<1>4. received \o framed.messages \in Seq(M)
  BY <1>3, ConcatProperties
<1> QED
  BY <1>1, <1>3, <1>4 DEF bytes, left, whole, framed

LEMMA KeepsSendPayload ==
    ASSUME HubInv, NEW m \in Requests, SendPayload(m)
    PROVE  HubInv'
<1>1. /\ mConnected /\ requestsSent' = Append(requestsSent, m)
      /\ up' = (IF inHub /\ ~reset THEN up \o Framed(MakePacket(m)) ELSE up)
      /\ UNCHANGED <<mConnected, inHub, reset, receiveBuffer, requests,
                     down, mReceiveBuffer, noticesSent, notices>>
  BY DEF SendPayload, downVars
<1>2. CASE ~reset
  <2>1. inHub
    BY <1>1, <1>2 DEF HubInv
  <2>2. up' \in Seq(Bytes) /\ Carried(Requests, receiveBuffer \o up', requestsSent', requests)
    <3>1. Carried(Requests, receiveBuffer \o up, requestsSent, requests)
          /\ requests \in Seq(Requests) /\ receiveBuffer \in Seq(Bytes) /\ up \in Seq(Bytes)
      BY <1>2 DEF HubInv
    <3>2. up' = up \o Framed(MakePacket(m))
      BY <1>1, <1>2, <2>1
    <3> DEFINE longer == up \o Framed(MakePacket(m))
    <3>3. longer \in Seq(Bytes)
          /\ Carried(Requests, receiveBuffer \o longer, Append(requestsSent, m), requests)
      BY <3>1, AllMessages, SendStep
    <3> HIDE DEF longer
    <3> QED BY <1>1, <3>2, <3>3 DEF longer
  <2> QED BY <1>1, <1>2, <2>1, <2>2 DEF HubInv
<1>3. CASE reset
  <2>1. up' = up
    BY <1>1, <1>3
  <2> QED BY <1>1, <1>3, <2>1 DEF HubInv
<1> QED
  BY <1>2, <1>3 DEF HubInv

LEMMA KeepsSendPacket ==
    ASSUME HubInv, NEW m \in Notices, SendPacket(m)
    PROVE  HubInv'
<1>1. /\ inHub /\ noticesSent' = Append(noticesSent, m)
      /\ down' = (IF mConnected /\ ~reset THEN down \o Framed(MakePacket(m)) ELSE down)
      /\ UNCHANGED <<mConnected, inHub, reset, mReceiveBuffer, notices,
                     up, receiveBuffer, requestsSent, requests>>
  BY DEF SendPacket, upVars
<1>2. CASE mConnected /\ ~reset
  <2>1. down' \in Seq(Bytes) /\ Carried(Notices, mReceiveBuffer \o down', noticesSent', notices)
    <3>1. Carried(Notices, mReceiveBuffer \o down, noticesSent, notices)
          /\ notices \in Seq(Notices) /\ mReceiveBuffer \in Seq(Bytes) /\ down \in Seq(Bytes)
      BY <1>2 DEF HubInv
    <3>2. down' = down \o Framed(MakePacket(m))
      BY <1>1, <1>2
    <3> DEFINE longer == down \o Framed(MakePacket(m))
    <3>3. longer \in Seq(Bytes)
          /\ Carried(Notices, mReceiveBuffer \o longer, Append(noticesSent, m), notices)
      BY <3>1, AllMessages, SendStep
    <3> HIDE DEF longer
    <3> QED BY <1>1, <3>2, <3>3 DEF longer
  <2> QED BY <1>1, <1>2, <2>1 DEF HubInv
<1>3. CASE ~(mConnected /\ ~reset)
  <2>1. down' = down
    BY <1>1, <1>3
  <2> QED BY <1>1, <1>3, <2>1 DEF HubInv
<1> QED
  BY <1>2, <1>3

\* What a recv of the server does to the bytes and the requests.
LEMMA Received ==
    ASSUME HubInv, NEW most \in ReadSizes, ReceiveFromClients(most)
    PROVE  /\ inHub /\ ~reset
           /\ UNCHANGED <<mConnected, inHub, reset, requestsSent, down, mReceiveBuffer,
                          noticesSent, notices>>
           /\ up' \in Seq(Bytes) /\ receiveBuffer' \in Seq(Bytes) /\ ~HasPacket(receiveBuffer')
           /\ Carried(Requests, receiveBuffer' \o up', requestsSent, requests')
           /\ \E ms \in Seq(Requests) : Follows(requests', requests, ms) /\ requests' \in Seq(Requests)
<1> DEFINE bytes == SubSeq(up, 1, Min({most, Len(up)}))
           left == SubSeq(up, Len(bytes) + 1, Len(up))
           framed == CompletePackets(receiveBuffer \o bytes, RequestRead)
<1>1. /\ inHub /\ up # <<>> /\ up' = left /\ receiveBuffer' = framed.rest
      /\ requests' = requests \o framed.messages
      /\ UNCHANGED <<mConnected, inHub, reset, requestsSent, down, mReceiveBuffer,
                     noticesSent, notices>>
  BY DEF ReceiveFromClients, downVars
<1>2. most \in Nat \ {0}
  BY MessagesAssumption
<1>3. /\ ~reset /\ Carried(Requests, receiveBuffer \o up, requestsSent, requests)
      /\ requests \in Seq(Requests) /\ receiveBuffer \in Seq(Bytes) /\ up \in Seq(Bytes)
  BY <1>1 DEF HubInv
<1>4. /\ left \in Seq(Bytes) /\ framed.rest \in Seq(Bytes) /\ ~HasPacket(framed.rest)
      /\ framed.messages \in Seq(Requests) /\ requests \o framed.messages \in Seq(Requests)
      /\ Carried(Requests, framed.rest \o left, requestsSent, requests \o framed.messages)
  BY <1>1, <1>2, <1>3, AllMessages, ReceiveStep
<1> HIDE DEF left, framed
<1> QED
  BY <1>1, <1>3, <1>4 DEF Follows

\* And a recv of the client.
LEMMA Polled ==
    ASSUME HubInv, NEW most \in ReadSizes, PollIncoming(most)
    PROVE  /\ mConnected /\ ~reset
           /\ UNCHANGED <<mConnected, inHub, reset, noticesSent, up, receiveBuffer,
                          requestsSent, requests>>
           /\ down' \in Seq(Bytes) /\ mReceiveBuffer' \in Seq(Bytes)
           /\ ~HasPacket(mReceiveBuffer')
           /\ Carried(Notices, mReceiveBuffer' \o down', noticesSent, notices')
           /\ \E ms \in Seq(Notices) : Follows(notices', notices, ms) /\ notices' \in Seq(Notices)
<1> DEFINE bytes == SubSeq(down, 1, Min({most, Len(down)}))
           left == SubSeq(down, Len(bytes) + 1, Len(down))
           framed == CompletePackets(mReceiveBuffer \o bytes, NoticeRead)
<1>1. /\ mConnected /\ down # <<>> /\ down' = left /\ mReceiveBuffer' = framed.rest
      /\ notices' = notices \o framed.messages
      /\ UNCHANGED <<mConnected, inHub, reset, noticesSent, up, receiveBuffer,
                     requestsSent, requests>>
  BY DEF PollIncoming, upVars
<1>2. most \in Nat \ {0}
  BY MessagesAssumption
<1>3. /\ ~reset /\ Carried(Notices, mReceiveBuffer \o down, noticesSent, notices)
      /\ notices \in Seq(Notices) /\ mReceiveBuffer \in Seq(Bytes) /\ down \in Seq(Bytes)
  BY <1>1 DEF HubInv
<1>4. /\ left \in Seq(Bytes) /\ framed.rest \in Seq(Bytes) /\ ~HasPacket(framed.rest)
      /\ framed.messages \in Seq(Notices) /\ notices \o framed.messages \in Seq(Notices)
      /\ Carried(Notices, framed.rest \o left, noticesSent, notices \o framed.messages)
  BY <1>1, <1>2, <1>3, AllMessages, ReceiveStep
<1> HIDE DEF left, framed
<1> QED
  BY <1>1, <1>3, <1>4 DEF Follows

LEMMA KeepsDisconnect == HubInv /\ Disconnect => HubInv'
<1> SUFFICES ASSUME HubInv, Disconnect PROVE HubInv'
  OBVIOUS
<1>1. /\ mConnected' = FALSE /\ down' = <<>> /\ mReceiveBuffer' = <<>>
      /\ (up' = up /\ reset' = reset) \/ (up' = <<>> /\ reset' = TRUE)
      /\ UNCHANGED <<inHub, receiveBuffer, requestsSent, requests, noticesSent, notices>>
  BY DEF Disconnect
<1>2. CASE up' = up /\ reset' = reset
  BY <1>1, <1>2, NoPacket DEF HubInv
<1>3. CASE up' = <<>> /\ reset' = TRUE
  BY <1>1, <1>3, NoPacket DEF HubInv
<1> QED
  BY <1>1, <1>2, <1>3

LEMMA KeepsRemoveClient == HubInv /\ RemoveClient => HubInv'
<1> SUFFICES ASSUME HubInv, RemoveClient PROVE HubInv'
  OBVIOUS
<1>1. /\ up = <<>> /\ (~mConnected \/ reset) /\ inHub' = FALSE /\ receiveBuffer' = <<>>
      /\ UNCHANGED <<mConnected, reset, up, requestsSent, requests, down, mReceiveBuffer,
                     noticesSent, notices>>
  BY DEF RemoveClient, downVars
<1>2. CASE reset
  BY <1>1, <1>2, NoPacket DEF HubInv
<1>3. CASE ~reset
  <2>1. Carried(Requests, receiveBuffer, requestsSent, requests) /\ ~HasPacket(receiveBuffer)
        /\ requests \in Seq(Requests) /\ receiveBuffer \in Seq(Bytes)
    <3>1. receiveBuffer \o <<>> = receiveBuffer
      BY ConcatEmptySeq DEF HubInv
    <3> QED BY <1>1, <1>3, <3>1 DEF HubInv
  <2>2. receiveBuffer = <<>>
    BY <2>1, AllMessages, NothingLeft
  <2>3. receiveBuffer' = receiveBuffer
    BY <1>1, <2>2
  <2> QED BY <1>1, <1>3, <2>3 DEF HubInv
<1> QED
  BY <1>2, <1>3 DEF HubInv

LEMMA KeepsReset == HubInv /\ Reset => HubInv'
  BY EmptySeq DEF HubInv, Reset

LEMMA HubStep == HubInv /\ [Next]_hubVars => HubInv'
<1> SUFFICES ASSUME HubInv, [Next]_hubVars PROVE HubInv'
  OBVIOUS
<1>1. ASSUME NEW m \in Requests, SendPayload(m) PROVE HubInv'
  BY <1>1, KeepsSendPayload
<1>2. ASSUME NEW m \in Notices, SendPacket(m) PROVE HubInv'
  BY <1>2, KeepsSendPacket
<1>3. CASE Receive
  <2>1. PICK most \in ReadSizes : ReceiveFromClients(most)
    BY <1>3 DEF Receive
  <2>2. /\ inHub /\ ~reset
        /\ UNCHANGED <<mConnected, inHub, reset, requestsSent, down, mReceiveBuffer,
                       noticesSent, notices>>
        /\ up' \in Seq(Bytes) /\ receiveBuffer' \in Seq(Bytes) /\ ~HasPacket(receiveBuffer')
        /\ Carried(Requests, receiveBuffer' \o up', requestsSent, requests')
        /\ requests' \in Seq(Requests)
    BY <2>1, Received
  <2> QED BY <2>2 DEF HubInv
<1>4. CASE Poll
  <2>1. PICK most \in ReadSizes : PollIncoming(most)
    BY <1>4 DEF Poll
  <2>2. /\ mConnected /\ ~reset
        /\ UNCHANGED <<mConnected, inHub, reset, noticesSent, up, receiveBuffer,
                       requestsSent, requests>>
        /\ down' \in Seq(Bytes) /\ mReceiveBuffer' \in Seq(Bytes)
        /\ ~HasPacket(mReceiveBuffer')
        /\ Carried(Notices, mReceiveBuffer' \o down', noticesSent, notices')
        /\ notices' \in Seq(Notices)
    BY <2>1, Polled
  <2> QED BY <2>2 DEF HubInv
<1>5. CASE UNCHANGED hubVars
  BY <1>5 DEF HubInv, hubVars, upVars, downVars
<1> QED
  BY <1>1, <1>2, <1>3, <1>4, <1>5, KeepsDisconnect, KeepsRemoveClient, KeepsReset DEF Next

\* However sends, reads, closes and resets interleave: as long as a direction of the
\* connection stands, what has been sent over it is what has been received and then
\* exactly the packets that the receive buffer and the bytes under way make up.
THEOREM HubInvariant == Spec => []HubInv
<1> QED
  BY HubInit, HubStep, PTL DEF Spec

\* Whenever all bytes have been read, whatever the pieces they came in, everything
\* sent over a connection that stands has been received; in particular a client's
\* last requests before it closed.
THEOREM NothingIsLeftBehind == Spec => []NothingStaysBehind
<1>1. HubInv => NothingStaysBehind
  <2> SUFFICES ASSUME HubInv PROVE NothingStaysBehind
    OBVIOUS
  <2>1. ASSUME up = <<>>, ~reset PROVE requests = requestsSent
    <3>1. Carried(Requests, receiveBuffer, requestsSent, requests) /\ ~HasPacket(receiveBuffer)
          /\ requests \in Seq(Requests) /\ receiveBuffer \in Seq(Bytes)
      <4>1. receiveBuffer \o <<>> = receiveBuffer
        BY ConcatEmptySeq DEF HubInv
      <4> QED BY <2>1, <4>1 DEF HubInv
    <3> QED BY <3>1, AllMessages, NothingLeft
  <2>2. ASSUME down = <<>>, ~reset, mConnected PROVE notices = noticesSent
    <3>1. Carried(Notices, mReceiveBuffer, noticesSent, notices) /\ ~HasPacket(mReceiveBuffer)
          /\ notices \in Seq(Notices) /\ mReceiveBuffer \in Seq(Bytes)
      <4>1. mReceiveBuffer \o <<>> = mReceiveBuffer
        BY ConcatEmptySeq DEF HubInv
      <4> QED BY <2>2, <4>1 DEF HubInv
    <3> QED BY <3>1, AllMessages, NothingLeft
  <2> QED BY <2>1, <2>2 DEF NothingStaysBehind
<1> QED
  BY <1>1, HubInvariant, PTL

-----------------------------------------------------------------------------
(* The two streams                                                          *)

\* What a reading adds is a longer part of what was sent, or nothing.
LEMMA LongerPart ==
    ASSUME NEW M, NEW sent, NEW before \in Seq(M), NEW ms \in Seq(M), NEW now,
           Follows(now, before, ms), now \in Seq(M), NEW bytes, Carried(M, bytes, sent, now)
    PROVE  \/ now = before
           \/ \E n \in (Len(before) + 1)..Len(sent) : now = SubSeq(sent, 1, n)
<1>1. PICK pending \in Seq(M) : Follows(sent, now, pending)
  BY DEF Carried
<1>2. sent = now \o pending /\ now = before \o ms
  BY <1>1 DEF Follows
<1>3. Len(sent) = Len(now) + Len(pending)
  <2>1. Len(now \o pending) = Len(now) + Len(pending)
    BY ConcatProperties
  <2> QED BY <1>2, <2>1
<1>4. Len(now) = Len(before) + Len(ms)
  <2>1. Len(before \o ms) = Len(before) + Len(ms)
    BY ConcatProperties
  <2> QED BY <1>2, <2>1
<1>5. Len(before) \in Nat /\ Len(ms) \in Nat /\ Len(pending) \in Nat /\ Len(now) \in Nat
  BY LenProperties
<1>6. CASE ms = <<>>
  BY <1>2, <1>6, ConcatEmptySeq
<1>7. CASE ms # <<>>
  <2>1. Len(ms) \in Nat \ {0}
    BY <1>7, EmptySeq
  <2>2. Len(now) \in (Len(before) + 1)..Len(sent)
    BY <1>3, <1>4, <1>5, <2>1
  <2>3. 1 \in 1..Len(now) /\ Len(now) \in 1..Len(now)
    BY <1>4, <1>5, <2>1
  <2>4. SubSeq(now \o pending, 1, Len(now)) = SubSeq(now, 1, Len(now))
    BY <2>3, SubSeqOfConcat1
  <2>5. SubSeq(now, 1, Len(now)) = now
    BY SubSeqFull
  <2> QED BY <1>2, <2>2, <2>4, <2>5
<1> QED
  BY <1>6, <1>7

LEMMA RequestStep == HubInv /\ [Next]_hubVars => [RequestStream!Next]_(RequestStream!vars)
<1> SUFFICES ASSUME HubInv, [Next]_hubVars
             PROVE  RequestStream!Next \/ UNCHANGED <<requestsSent, requests, ~inHub>>
  BY DEF RequestStream!vars
<1>1. ASSUME NEW m \in Requests, SendPayload(m) PROVE RequestStream!Next
  BY <1>1 DEF SendPayload, RequestStream!Next, RequestStream!Send
<1>2. ASSUME NEW m \in Notices, SendPacket(m) PROVE UNCHANGED <<requestsSent, requests, inHub>>
  BY <1>2 DEF SendPacket, upVars
<1>3. CASE Receive
  <2>1. PICK most \in ReadSizes : ReceiveFromClients(most)
    BY <1>3 DEF Receive
  <2>2. /\ inHub /\ inHub' = inHub /\ requestsSent' = requestsSent
        /\ Carried(Requests, receiveBuffer' \o up', requestsSent, requests')
        /\ \E ms \in Seq(Requests) : Follows(requests', requests, ms) /\ requests' \in Seq(Requests)
    BY <2>1, Received
  <2>3. requests \in Seq(Requests)
    BY DEF HubInv
  <2>4. \/ requests' = requests
        \/ \E n \in (Len(requests) + 1)..Len(requestsSent) : requests' = SubSeq(requestsSent, 1, n)
    <3> DEFINE now == requests'
               bytes == receiveBuffer' \o up'
    <3>1. PICK ms \in Seq(Requests) : Follows(now, requests, ms) /\ now \in Seq(Requests)
      BY <2>2
    <3>2. Carried(Requests, bytes, requestsSent, now)
      BY <2>2
    <3> HIDE DEF now, bytes
    <3>3. now = requests \/ \E n \in (Len(requests) + 1)..Len(requestsSent) : now = SubSeq(requestsSent, 1, n)
      BY <2>3, <3>1, <3>2, LongerPart
    <3> QED BY <3>3 DEF now
  <2>5. CASE requests' = requests
    BY <2>2, <2>5
  <2>6. CASE requests' # requests
    BY <2>2, <2>4, <2>6 DEF RequestStream!Next, RequestStream!Receive
  <2> QED BY <2>5, <2>6
<1>4. CASE Poll
  <2>1. UNCHANGED <<requestsSent, requests, inHub>>
    BY <1>4 DEF Poll, PollIncoming, upVars
  <2> QED BY <2>1
<1>5. CASE Disconnect
  BY <1>5 DEF Disconnect
<1>6. CASE RemoveClient
  BY <1>6 DEF RemoveClient, RequestStream!Next, RequestStream!End
<1>7. CASE Reset
  BY <1>7 DEF Reset
<1>8. CASE UNCHANGED hubVars
  BY <1>8 DEF hubVars, upVars
<1> QED
  BY <1>1, <1>2, <1>3, <1>4, <1>5, <1>6, <1>7, <1>8 DEF Next

LEMMA NoticeStep == HubInv /\ [Next]_hubVars => [NoticeStream!Next]_(NoticeStream!vars)
<1> SUFFICES ASSUME HubInv, [Next]_hubVars
             PROVE  NoticeStream!Next \/ UNCHANGED <<noticesSent, notices, ~mConnected>>
  BY DEF NoticeStream!vars
<1>1. ASSUME NEW m \in Requests, SendPayload(m)
      PROVE  UNCHANGED <<noticesSent, notices, mConnected>>
  BY <1>1 DEF SendPayload, downVars
<1>2. ASSUME NEW m \in Notices, SendPacket(m) PROVE NoticeStream!Next
  BY <1>2 DEF SendPacket, NoticeStream!Next, NoticeStream!Send
<1>3. CASE Receive
  <2>1. UNCHANGED <<noticesSent, notices, mConnected>>
    BY <1>3 DEF Receive, ReceiveFromClients, downVars
  <2> QED BY <2>1
<1>4. CASE Poll
  <2>1. PICK most \in ReadSizes : PollIncoming(most)
    BY <1>4 DEF Poll
  <2>2. /\ mConnected /\ mConnected' = mConnected /\ noticesSent' = noticesSent
        /\ Carried(Notices, mReceiveBuffer' \o down', noticesSent, notices')
        /\ \E ms \in Seq(Notices) : Follows(notices', notices, ms) /\ notices' \in Seq(Notices)
    BY <2>1, Polled
  <2>3. notices \in Seq(Notices)
    BY DEF HubInv
  <2>4. \/ notices' = notices
        \/ \E n \in (Len(notices) + 1)..Len(noticesSent) : notices' = SubSeq(noticesSent, 1, n)
    <3> DEFINE now == notices'
               bytes == mReceiveBuffer' \o down'
    <3>1. PICK ms \in Seq(Notices) : Follows(now, notices, ms) /\ now \in Seq(Notices)
      BY <2>2
    <3>2. Carried(Notices, bytes, noticesSent, now)
      BY <2>2
    <3> HIDE DEF now, bytes
    <3>3. now = notices \/ \E n \in (Len(notices) + 1)..Len(noticesSent) : now = SubSeq(noticesSent, 1, n)
      BY <2>3, <3>1, <3>2, LongerPart
    <3> QED BY <3>3 DEF now
  <2>5. CASE notices' = notices
    BY <2>2, <2>5
  <2>6. CASE notices' # notices
    BY <2>2, <2>4, <2>6 DEF NoticeStream!Next, NoticeStream!Receive
  <2> QED BY <2>5, <2>6
<1>5. CASE Disconnect
  BY <1>5 DEF Disconnect, NoticeStream!Next, NoticeStream!End
<1>6. CASE RemoveClient
  BY <1>6 DEF RemoveClient, downVars
<1>7. CASE Reset
  BY <1>7 DEF Reset
<1>8. CASE UNCHANGED hubVars
  BY <1>8 DEF hubVars, downVars
<1> QED
  BY <1>1, <1>2, <1>3, <1>4, <1>5, <1>6, <1>7, <1>8 DEF Next

LEMMA StreamsInit == Init => RequestStream!Init /\ NoticeStream!Init
  BY DEF Init, RequestStream!Init, NoticeStream!Init

\* A connection is a stream of whole messages from the client to the server: the
\* requests arrive as they were written, in their order, and none after the hub
\* has dropped the client, however the bytes are cut up.
THEOREM RequestsArriveInOrder == Spec => RequestsInOrder
<1> QED
  BY StreamsInit, RequestStep, HubInvariant, PTL DEF Spec, RequestsInOrder, RequestStream!Spec

\* The same from the server to the client.
THEOREM NoticesArriveInOrder == Spec => NoticesInOrder
<1> QED
  BY StreamsInit, NoticeStep, HubInvariant, PTL DEF Spec, NoticesInOrder, NoticeStream!Spec

\* Whatever message a client may send the server reads as it was written, all its
\* fields, negative numbers and empty strings and lists included; and the same for
\* what the server sends to a client.
THEOREM MessagesAreReadBack ==
    /\ \A m \in Requests : ReadPacket(MakePacket(m), RequestRead) = m
    /\ \A m \in Notices : ReadPacket(MakePacket(m), NoticeRead) = m
  BY MessagesAssumption, MessageRoundTrip

=============================================================================
