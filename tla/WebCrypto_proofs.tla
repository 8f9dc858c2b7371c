-------------------------- MODULE WebCrypto_proofs --------------------------
(***************************************************************************)
(* Theorems of WebCrypto for any key pairs, keys, messages and parameters. *)
(***************************************************************************)
EXTENDS WebCrypto, SequenceTheorems, TLAPS

-----------------------------------------------------------------------------
(***************************************************************************)
(* The size of a buffer of at most five parts: no encoding has more.       *)
(***************************************************************************)
LEMMA SizeIs ==
  ASSUME NEW b, Len(b) \in 0..5, \A i \in 1..Len(b) : b[i].size \in Nat
  PROVE  \E f : /\ Size(b) = f[Len(b)] /\ f[0] = 0
                /\ \A n \in 1..Len(b) : f[n] = f[n - 1] + b[n].size
<1> DEFINE Sums(f) == [n \in 0..Len(b) |-> IF n = 0 THEN 0
                                           ELSE f[n - 1] + b[n].size]
           w == [n \in 0..Len(b) |->
                   CASE n = 0 -> 0
                     [] n = 1 -> b[1].size
                     [] n = 2 -> b[1].size + b[2].size
                     [] n = 3 -> b[1].size + b[2].size + b[3].size
                     [] n = 4 -> b[1].size + b[2].size + b[3].size + b[4].size
                     [] n = 5 -> b[1].size + b[2].size + b[3].size + b[4].size
                                   + b[5].size]
           upto == CHOOSE f : f = Sums(f)
<1>1. w = Sums(w)
  <2>1. /\ \A n \in 0..Len(b) : n \in {0, 1, 2, 3, 4, 5}
        /\ \A n \in 0..Len(b) : n # 0 => n - 1 \in 0..Len(b)
    OBVIOUS
  <2>2. ASSUME NEW n \in 0..Len(b)
        PROVE  w[n] = IF n = 0 THEN 0 ELSE w[n - 1] + b[n].size
    <3>1. CASE n = 0 BY <3>1
    <3>2. CASE n = 1 BY <2>1, <3>2
    <3>3. CASE n = 2 BY <2>1, <3>3
    <3>4. CASE n = 3 BY <2>1, <3>4
    <3>5. CASE n = 4 BY <2>1, <3>5
    <3>6. CASE n = 5 BY <2>1, <3>6
    <3> QED BY <2>1, <3>1, <3>2, <3>3, <3>4, <3>5, <3>6
  <2> HIDE DEF w
  <2>3. w = [n \in 0..Len(b) |-> w[n]] BY DEF w
  <2> QED BY <2>2, <2>3
<1>2. upto = Sums(upto)
  <2> HIDE DEF w, Sums
  <2> QED BY <1>1
<1>3. Size(b) = upto[Len(b)] BY DEF Size
<1>4. DOMAIN upto = 0..Len(b) /\ \A n \in 0..Len(b) :
        upto[n] = IF n = 0 THEN 0 ELSE upto[n - 1] + b[n].size
  <2> HIDE DEF upto
  <2> QED BY <1>2
<1> HIDE DEF upto
<1>5. \A n \in 1..Len(b) : n \in 0..Len(b) /\ n - 1 \in 0..Len(b)
  OBVIOUS
<1>6. /\ upto[0] = 0
      /\ \A n \in 1..Len(b) : upto[n] = upto[n - 1] + b[n].size
  BY <1>4, <1>5
<1> QED BY <1>3, <1>6

\* No part, no bytes.
LEMMA SizeOfNone == Size(<<>>) = 0
<1> DEFINE t == <<>>
<1>1. Len(t) = 0
  OBVIOUS
<1>2. Len(t) \in 0..5 /\ \A i \in 1..Len(t) : t[i].size \in Nat BY <1>1
<1> HIDE DEF t
<1>3. PICK f : /\ Size(t) = f[Len(t)] /\ f[0] = 0
               /\ \A n \in 1..Len(t) : f[n] = f[n - 1] + t[n].size
  BY <1>2, SizeIs
<1>4. /\ Size(t) = f[0] /\ f[0] = 0
  BY <1>1, <1>3
<1>5. Size(t) = 0 BY <1>4
<1> QED BY <1>5 DEF t

\* One part.
LEMMA SizeOfOne ==
  ASSUME NEW a,
         {a.size} \subseteq Nat
  PROVE  Size(<<a>>) = a.size
<1> DEFINE t == <<a>>
<1>1. Len(t) = 1 /\ t[1] = a
  OBVIOUS
<1>2. Len(t) \in 0..5 /\ \A i \in 1..Len(t) : t[i].size \in Nat BY <1>1
<1> HIDE DEF t
<1>3. PICK f : /\ Size(t) = f[Len(t)] /\ f[0] = 0
               /\ \A n \in 1..Len(t) : f[n] = f[n - 1] + t[n].size
  BY <1>2, SizeIs
<1>4. /\ Size(t) = f[1] /\ f[0] = 0
      /\ f[1] = f[0] + a.size
  BY <1>1, <1>3
<1>5. Size(t) = a.size BY <1>4
<1> QED BY <1>5 DEF t

\* Two parts.
LEMMA SizeOfTwo ==
  ASSUME NEW a, NEW b,
         {a.size, b.size} \subseteq Nat
  PROVE  Size(<<a, b>>) = a.size + b.size
<1> DEFINE t == <<a, b>>
<1>1. Len(t) = 2 /\ t[1] = a /\ t[2] = b
  OBVIOUS
<1>2. Len(t) \in 0..5 /\ \A i \in 1..Len(t) : t[i].size \in Nat BY <1>1
<1> HIDE DEF t
<1>3. PICK f : /\ Size(t) = f[Len(t)] /\ f[0] = 0
               /\ \A n \in 1..Len(t) : f[n] = f[n - 1] + t[n].size
  BY <1>2, SizeIs
<1>4. /\ Size(t) = f[2] /\ f[0] = 0
      /\ f[1] = f[0] + a.size
      /\ f[2] = f[1] + b.size
  BY <1>1, <1>3
<1>5. Size(t) = a.size + b.size BY <1>4
<1> QED BY <1>5 DEF t

\* Three parts.
LEMMA SizeOfThree ==
  ASSUME NEW a, NEW b, NEW c,
         {a.size, b.size, c.size} \subseteq Nat
  PROVE  Size(<<a, b, c>>) = a.size + b.size + c.size
<1> DEFINE t == <<a, b, c>>
<1>1. Len(t) = 3 /\ t[1] = a /\ t[2] = b /\ t[3] = c
  OBVIOUS
<1>2. Len(t) \in 0..5 /\ \A i \in 1..Len(t) : t[i].size \in Nat BY <1>1
<1> HIDE DEF t
<1>3. PICK f : /\ Size(t) = f[Len(t)] /\ f[0] = 0
               /\ \A n \in 1..Len(t) : f[n] = f[n - 1] + t[n].size
  BY <1>2, SizeIs
<1>4. /\ Size(t) = f[3] /\ f[0] = 0
      /\ f[1] = f[0] + a.size
      /\ f[2] = f[1] + b.size
      /\ f[3] = f[2] + c.size
  BY <1>1, <1>3
<1>5. Size(t) = a.size + b.size + c.size BY <1>4
<1> QED BY <1>5 DEF t

\* Five parts.
LEMMA SizeOfFive ==
  ASSUME NEW a, NEW b, NEW c, NEW d, NEW e,
         {a.size, b.size, c.size, d.size, e.size} \subseteq Nat
  PROVE  Size(<<a, b, c, d, e>>) = a.size + b.size + c.size + d.size + e.size
<1> DEFINE t == <<a, b, c, d, e>>
<1>1. Len(t) = 5 /\ t[1] = a /\ t[2] = b /\ t[3] = c /\ t[4] = d /\ t[5] = e
  OBVIOUS
<1>2. Len(t) \in 0..5 /\ \A i \in 1..Len(t) : t[i].size \in Nat BY <1>1
<1> HIDE DEF t
<1>3. PICK f : /\ Size(t) = f[Len(t)] /\ f[0] = 0
               /\ \A n \in 1..Len(t) : f[n] = f[n - 1] + t[n].size
  BY <1>2, SizeIs
<1>4. /\ Size(t) = f[5] /\ f[0] = 0
      /\ f[1] = f[0] + a.size
      /\ f[2] = f[1] + b.size
      /\ f[3] = f[2] + c.size
      /\ f[4] = f[3] + d.size
      /\ f[5] = f[4] + e.size
  BY <1>1, <1>3
<1>5. Size(t) = a.size + b.size + c.size + d.size + e.size BY <1>4
<1> QED BY <1>5 DEF t

\* How parts are put together and taken apart.
LEMMA ConcatTwo ==
  ASSUME NEW a, NEW b
  PROVE  <<a>> \o <<b>> = <<a, b>>
<1> DEFINE S == {a, b}
<1>1. <<a>> \o <<b>> = <<a, b>>
  <2> DEFINE t == <<a>> \o <<b>>
             u == <<a, b>>
  <2>1. <<a>> \in Seq(S) /\ <<b>> \in Seq(S) /\ u \in Seq(S) OBVIOUS
  <2>2. /\ t \in Seq(S) /\ Len(t) = 2
        /\ \A i \in 1..2 : t[i] = IF i <= 1 THEN <<a>>[i] ELSE <<b>>[i - 1]
    BY <2>1, ConcatProperties
  <2>3. Len(u) = 2 /\ \A i \in 1..2 : u[i] = t[i]
    BY <2>2
  <2> HIDE DEF t, u, S
  <2>4. t = u BY <2>1, <2>2, <2>3, SeqEqual
  <2> QED BY <2>4 DEF t, u
<1> QED BY <1>1

\* Padding before the two halves of a public key.
LEMMA ConcatThree ==
  ASSUME NEW a, NEW b, NEW c
  PROVE  <<a>> \o <<b, c>> = <<a, b, c>>
<1> DEFINE S == {a, b, c}
<1>1. <<a>> \o <<b, c>> = <<a, b, c>>
  <2> DEFINE t == <<a>> \o <<b, c>>
             u == <<a, b, c>>
  <2>1. <<a>> \in Seq(S) /\ <<b, c>> \in Seq(S) /\ u \in Seq(S) OBVIOUS
  <2>2. /\ t \in Seq(S) /\ Len(t) = 3
        /\ \A i \in 1..3 : t[i] = IF i <= 1 THEN <<a>>[i] ELSE <<b, c>>[i - 1]
    BY <2>1, ConcatProperties
  <2>3. Len(u) = 3 /\ \A i \in 1..3 : u[i] = t[i]
    BY <2>2
  <2> HIDE DEF t, u, S
  <2>4. t = u BY <2>1, <2>2, <2>3, SeqEqual
  <2> QED BY <2>4 DEF t, u
<1> QED BY <1>1

\* A signature and what trails it.
LEMMA ConcatTwoOne ==
  ASSUME NEW a, NEW b, NEW c
  PROVE  <<a, b>> \o <<c>> = <<a, b, c>>
<1> DEFINE S == {a, b, c}
           t == <<a, b>> \o <<c>>
           u == <<a, b, c>>
<1>1. <<a, b>> \in Seq(S) /\ <<c>> \in Seq(S) /\ u \in Seq(S) OBVIOUS
<1>2. /\ t \in Seq(S) /\ Len(t) = 3
      /\ \A i \in 1..3 : t[i] = IF i <= 2 THEN <<a, b>>[i] ELSE <<c>>[i - 2]
  BY <1>1, ConcatProperties
<1>3. Len(u) = 3 /\ \A i \in 1..3 : u[i] = t[i]
  BY <1>2
<1> HIDE DEF t, u, S
<1>4. t = u BY <1>1, <1>2, <1>3, SeqEqual
<1> QED BY <1>4 DEF t, u

\* A pkcs8 encoding: padding, private key, tag and public key.
LEMMA ConcatFive ==
  ASSUME NEW a, NEW b, NEW c, NEW d, NEW e
  PROVE  <<a>> \o <<b>> \o <<c>> \o <<d, e>> = <<a, b, c, d, e>>
<1> DEFINE S == {a, b, c, d, e}
<1>1. <<a, b>> \o <<c>> = <<a, b, c>> BY ConcatTwoOne
<1>2. <<a, b, c>> \o <<d, e>> = <<a, b, c, d, e>>
  <2> DEFINE t == <<a, b, c>> \o <<d, e>>
             u == <<a, b, c, d, e>>
  <2>1. <<a, b, c>> \in Seq(S) /\ <<d, e>> \in Seq(S) /\ u \in Seq(S) OBVIOUS
  <2>2. /\ t \in Seq(S) /\ Len(t) = 5
        /\ \A i \in 1..5 : t[i] = IF i <= 3 THEN <<a, b, c>>[i] ELSE <<d, e>>[i - 3]
    BY <2>1, ConcatProperties
  <2>3. Len(u) = 5 /\ \A i \in 1..5 : u[i] = t[i]
    BY <2>2
  <2> HIDE DEF t, u, S
  <2>4. t = u BY <2>1, <2>2, <2>3, SeqEqual
  <2> QED BY <2>4 DEF t, u
<1> QED BY <1>1, <1>2, ConcatTwo

\* What is behind a padding, if it is two parts.
LEMMA LastTwoOfThree ==
  ASSUME NEW a, NEW b, NEW c
  PROVE  SubSeq(<<a, b, c>>, 2, 3) = <<b, c>>
<1> DEFINE S == {a, b, c}
<1> DEFINE s == <<a, b, c>>
           t == SubSeq(s, 2, 3)
           u == <<b, c>>
<1>1. \A i \in 2..3 : s[i] \in S OBVIOUS
<1>2. u \in Seq(S) /\ Len(u) = 2 /\ \A i \in 1..2 : u[i] = s[2 + i - 1]
  OBVIOUS
<1> HIDE DEF s, u, S
<1>3. /\ t \in Seq(S) /\ Len(t) = 2 /\ \A i \in 1..2 : t[i] = s[2 + i - 1]
  BY <1>1, SubSeqProperties
<1> HIDE DEF t
<1>4. t = u BY <1>2, <1>3, SeqEqual
<1> QED BY <1>4 DEF s, t, u

\* What is left of three parts without the last.
LEMMA FirstTwoOfThree ==
  ASSUME NEW a, NEW b, NEW c
  PROVE  SubSeq(<<a, b, c>>, 1, 2) = <<a, b>>
<1> DEFINE S == {a, b, c}
<1> DEFINE s == <<a, b, c>>
           t == SubSeq(s, 1, 2)
           u == <<a, b>>
<1>1. \A i \in 1..2 : s[i] \in S OBVIOUS
<1>2. u \in Seq(S) /\ Len(u) = 2 /\ \A i \in 1..2 : u[i] = s[1 + i - 1]
  OBVIOUS
<1> HIDE DEF s, u, S
<1>3. /\ t \in Seq(S) /\ Len(t) = 2 /\ \A i \in 1..2 : t[i] = s[1 + i - 1]
  BY <1>1, SubSeqProperties
<1> HIDE DEF t
<1>4. t = u BY <1>2, <1>3, SeqEqual
<1> QED BY <1>4 DEF s, t, u

\* Two parts are all of themselves.
LEMMA BothOfTwo ==
  ASSUME NEW a, NEW b
  PROVE  SubSeq(<<a, b>>, 1, 2) = <<a, b>>
<1> DEFINE S == {a, b}
           s == <<a, b>>
           t == SubSeq(s, 1, 2)
<1>1. \A i \in 1..2 : s[i] \in S OBVIOUS
<1>2. s \in Seq(S) /\ Len(s) = 2 /\ \A i \in 1..2 : s[i] = s[1 + i - 1]
  OBVIOUS
<1> HIDE DEF s, S
<1>3. /\ t \in Seq(S) /\ Len(t) = 2 /\ \A i \in 1..2 : t[i] = s[1 + i - 1]
  BY <1>1, SubSeqProperties
<1> HIDE DEF t
<1>4. t = s BY <1>2, <1>3, SeqEqual
<1> QED BY <1>4 DEF s, t

\* They are a prefix of two or three parts if they are the first two of them.
LEMMA PrefixOfTwo ==
  ASSUME NEW a, NEW b, NEW c, NEW d
  PROVE  IsPrefix(<<a, b>>, <<c, d>>) <=> <<a, b>> = <<c, d>>
<1>1. Len(<<a, b>>) = 2 /\ Len(<<c, d>>) = 2 OBVIOUS
<1> QED BY <1>1, BothOfTwo DEF IsPrefix

LEMMA PrefixOfThree ==
  ASSUME NEW a, NEW b, NEW c, NEW d, NEW e
  PROVE  IsPrefix(<<a, b>>, <<c, d, e>>) <=> <<a, b>> = <<c, d>>
<1>1. Len(<<a, b>>) = 2 /\ Len(<<c, d, e>>) = 3 OBVIOUS
<1> QED BY <1>1, BothOfTwo, FirstTwoOfThree DEF IsPrefix

\* What is behind a padding, if it is one part.
LEMMA SecondOfTwo ==
  ASSUME NEW a, NEW b
  PROVE  SubSeq(<<a, b>>, 2, 2) = <<b>>
<1> DEFINE S == {a, b}
<1> DEFINE s == <<a, b>>
           t == SubSeq(s, 2, 2)
           u == <<b>>
<1>1. \A i \in 2..2 : s[i] \in S OBVIOUS
<1>2. u \in Seq(S) /\ Len(u) = 1 /\ \A i \in 1..1 : u[i] = s[2 + i - 1]
  OBVIOUS
<1> HIDE DEF s, u, S
<1>3. /\ t \in Seq(S) /\ Len(t) = 1 /\ \A i \in 1..1 : t[i] = s[2 + i - 1]
  BY <1>1, SubSeqProperties
<1> HIDE DEF t
<1>4. t = u BY <1>2, <1>3, SeqEqual
<1> QED BY <1>4 DEF s, t, u

\* The first part behind the padding of a long encoding.
LEMMA SecondOfFive ==
  ASSUME NEW a, NEW b, NEW c, NEW d, NEW e
  PROVE  SubSeq(<<a, b, c, d, e>>, 2, 2) = <<b>>
<1> DEFINE S == {a, b, c, d, e}
<1> DEFINE s == <<a, b, c, d, e>>
           t == SubSeq(s, 2, 2)
           u == <<b>>
<1>1. \A i \in 2..2 : s[i] \in S OBVIOUS
<1>2. u \in Seq(S) /\ Len(u) = 1 /\ \A i \in 1..1 : u[i] = s[2 + i - 1]
  OBVIOUS
<1> HIDE DEF s, u, S
<1>3. /\ t \in Seq(S) /\ Len(t) = 1 /\ \A i \in 1..1 : t[i] = s[2 + i - 1]
  BY <1>1, SubSeqProperties
<1> HIDE DEF t
<1>4. t = u BY <1>2, <1>3, SeqEqual
<1> QED BY <1>4 DEF s, t, u

-----------------------------------------------------------------------------
(***************************************************************************)
(* The conversions: reversing 32 bytes turns a number of the natives into  *)
(* one of the API and back.                                                *)
(***************************************************************************)
LEMMA Parts ==
  ASSUME NEW what, NEW size
  PROVE  /\ Part(what, "be", size).size = size /\ Part(what, "be", size).what = what
         /\ LE(what).size = 32 /\ BE(what).size = 32
         /\ LE(what).what = what /\ BE(what).what = what
         /\ LE(what) # BE(what)
         /\ SpkiPadding.size = 27 /\ Pkcs8Padding.size = 36
         /\ Pkcs8PaddingBare.size = 35
BY DEF Part, LE, BE, SpkiPadding, Pkcs8Padding, Pkcs8PaddingBare

\* The reversal of one number.
LEMMA ReverseOne ==
  ASSUME NEW v
  PROVE  Reverse256(LE(v)) = BE(v) /\ Reverse256(BE(v)) = LE(v)
BY DEF Reverse256, LE, BE, Part

\* The reversal of a buffer of one or two numbers, each in its place.
LEMMA ReverseTuples ==
  ASSUME NEW v, NEW w
  PROVE  /\ ReverseEach(<<LE(v)>>) = <<BE(v)>>
         /\ ReverseEach(<<BE(v)>>) = <<LE(v)>>
         /\ ReverseEach(<<LE(v), LE(w)>>) = <<BE(v), BE(w)>>
         /\ ReverseEach(<<BE(v), BE(w)>>) = <<LE(v), LE(w)>>
<1>1. ASSUME NEW p PROVE ReverseEach(<<p>>) = <<Reverse256(p)>>
  BY DEF ReverseEach
<1>2. ASSUME NEW p, NEW q
      PROVE  ReverseEach(<<p, q>>) = <<Reverse256(p), Reverse256(q)>>
  BY DEF ReverseEach
<1>3. /\ ReverseEach(<<LE(v)>>) = <<Reverse256(LE(v))>>
      /\ ReverseEach(<<BE(v)>>) = <<Reverse256(BE(v))>>
  BY <1>1
<1>4. /\ ReverseEach(<<LE(v), LE(w)>>) = <<Reverse256(LE(v)), Reverse256(LE(w))>>
      /\ ReverseEach(<<BE(v), BE(w)>>) = <<Reverse256(BE(v)), Reverse256(BE(w))>>
  BY <1>2
<1>5. /\ Reverse256(LE(v)) = BE(v) /\ Reverse256(BE(v)) = LE(v)
      /\ Reverse256(LE(w)) = BE(w) /\ Reverse256(BE(w)) = LE(w)
  BY ReverseOne
<1> QED BY <1>3, <1>4, <1>5

\* Nothing reversed is nothing: an exception stays one.
LEMMA ReverseNothing == ReverseEach(<<>>) = <<>>
BY DEF ReverseEach

\* Keys of the natives and keys of the API are reversals of each other.
LEMMA Reversals ==
  ASSUME NEW n
  PROVE  /\ ReverseEach(NativePublic(n)) = StandardPublic(n)
         /\ ReverseEach(StandardPublic(n)) = NativePublic(n)
         /\ ReverseEach(NativePrivate(n)) = StandardPrivate(n)
         /\ ReverseEach(StandardPrivate(n)) = NativePrivate(n)
BY ReverseTuples
DEF NativePublic, NativePrivate, StandardPublic, StandardPrivate

\* The sizes of raw keys.
LEMMA KeySizes ==
  ASSUME NEW n
  PROVE  /\ Size(NativePublic(n)) = 64 /\ Size(NativePrivate(n)) = 32
         /\ Size(StandardPublic(n)) = 64 /\ Size(StandardPrivate(n)) = 32
         /\ Size(SecretBytes(n)) = 16
<1> DEFINE x == <<"x", n>>
           y == <<"y", n>>
           d == <<"d", n>>
           z == <<"secret", n>>
<1>1. /\ LE(x).size = 32 /\ LE(y).size = 32 /\ LE(d).size = 32
      /\ BE(x).size = 32 /\ BE(y).size = 32 /\ BE(d).size = 32
      /\ Part(z, "be", 16).size = 16
  BY Parts
<1> HIDE DEF x, y, d, z
<1>2. Size(<<LE(x), LE(y)>>) = 64 BY <1>1, SizeOfTwo
<1>3. Size(<<BE(x), BE(y)>>) = 64 BY <1>1, SizeOfTwo
<1>4. Size(<<LE(d)>>) = 32 BY <1>1, SizeOfOne
<1>5. Size(<<BE(d)>>) = 32 BY <1>1, SizeOfOne
<1>6. Size(<<Part(z, "be", 16)>>) = 16 BY <1>1, SizeOfOne
<1> QED
  BY <1>2, <1>3, <1>4, <1>5, <1>6
  DEF NativePublic, NativePrivate, StandardPublic, StandardPrivate, SecretBytes,
      Bytes, x, y, d, z

\* Different keys have different numbers.
LEMMA KeysDiffer ==
  ASSUME NEW n, NEW m
  PROVE  /\ NativePublic(n) = NativePublic(m) => n = m
         /\ NativePrivate(n) = NativePrivate(m) => n = m
<1>1. LE(<<"x", n>>) = LE(<<"x", m>>) => n = m
  <2> DEFINE v == <<"x", n>>
             w == <<"x", m>>
  <2>1. v[2] = n /\ w[2] = m OBVIOUS
  <2>2. LE(v).what = v /\ LE(w).what = w BY Parts
  <2> HIDE DEF v, w
  <2>3. LE(v) = LE(w) => n = m BY <2>1, <2>2
  <2> QED BY <2>3 DEF v, w
<1>2. LE(<<"d", n>>) = LE(<<"d", m>>) => n = m
  <2> DEFINE v == <<"d", n>>
             w == <<"d", m>>
  <2>1. v[2] = n /\ w[2] = m OBVIOUS
  <2>2. LE(v).what = v /\ LE(w).what = w BY Parts
  <2> HIDE DEF v, w
  <2>3. LE(v) = LE(w) => n = m BY <2>1, <2>2
  <2> QED BY <2>3 DEF v, w
<1>3. NativePublic(n) = NativePublic(m) => LE(<<"x", n>>) = LE(<<"x", m>>)
  <2>1. NativePublic(n)[1] = LE(<<"x", n>>) /\ NativePublic(m)[1] = LE(<<"x", m>>)
    BY DEF NativePublic
  <2> QED BY <2>1
<1>4. NativePrivate(n) = NativePrivate(m) => LE(<<"d", n>>) = LE(<<"d", m>>)
  <2>1. NativePrivate(n)[1] = LE(<<"d", n>>) /\ NativePrivate(m)[1] = LE(<<"d", m>>)
    BY DEF NativePrivate
  <2> QED BY <2>1
<1> QED BY <1>1, <1>2, <1>3, <1>4

-----------------------------------------------------------------------------
(***************************************************************************)
(* Encodings.  What each consists of, and what importKey finds in it when  *)
(* it takes it for an spki or a pkcs8 one.                                 *)
(***************************************************************************)
Spki(n) == <<SpkiPadding, BE(<<"x", n>>), BE(<<"y", n>>)>>
CutSpki(n) == <<SpkiPadding, BE(<<"x", n>>)>>
Pkcs8(n) == <<Pkcs8Padding, BE(<<"d", n>>), Part(<<"tag">>, "be", 6),
              BE(<<"x", n>>), BE(<<"y", n>>)>>
Pkcs8Bare(n) == <<Pkcs8PaddingBare, BE(<<"d", n>>)>>

\* The encodings of a key, part by part.
LEMMA EncodingsAre ==
  ASSUME NEW n
  PROVE  /\ Encodings("public", n) = {Spki(n), StandardPublic(n)}
         /\ Encodings("private", n) = {Pkcs8(n), Pkcs8Bare(n), StandardPrivate(n)}
         /\ Encodings("secret", n) = {SecretBytes(n)}
         /\ Truncated(n).bytes = CutSpki(n)
<1>1. <<SpkiPadding>> \o StandardPublic(n) = Spki(n)
  BY ConcatThree DEF StandardPublic, Spki
<1>2. <<Pkcs8Padding>> \o StandardPrivate(n) \o Bytes(<<"tag">>, 6)
        \o StandardPublic(n) = Pkcs8(n)
  BY ConcatFive DEF StandardPublic, StandardPrivate, Bytes, Pkcs8
<1>3. <<Pkcs8PaddingBare>> \o StandardPrivate(n) = Pkcs8Bare(n)
  BY ConcatTwo DEF StandardPrivate, Pkcs8Bare
<1>4. SubSeq(Spki(n), 1, 2) = CutSpki(n)
  BY FirstTwoOfThree DEF Spki, CutSpki
<1>5. Encodings("public", n) = {Spki(n), StandardPublic(n)}
  BY <1>1 DEF Encodings
<1>6. Encodings("private", n) = {Pkcs8(n), Pkcs8Bare(n), StandardPrivate(n)}
  BY <1>2, <1>3 DEF Encodings
<1>7. Encodings("secret", n) = {SecretBytes(n)}
  BY DEF Encodings
<1>8. Truncated(n).bytes = CutSpki(n)
  BY <1>1, <1>4 DEF Truncated
<1> QED BY <1>5, <1>6, <1>7, <1>8

\* No padding is found at the head of something else.
LEMMA OtherPadding ==
  ASSUME NEW src, NEW p, NEW count, Head(src).size # p.size
  PROVE  RemovePadding(src, p, count) = <<>>
BY DEF RemovePadding

\* One part behind the padding.
LEMMA ShortPadding ==
  ASSUME NEW p, NEW a, NEW count \in {1, 2}
  PROVE  RemovePadding(<<p, a>>, p, count) = <<a>>
<1>1. RemovePadding(<<p, a>>, p, count) = SubSeq(<<p, a>>, 2, 2)
  BY DEF RemovePadding
<1> QED BY <1>1, SecondOfTwo

\* Two parts behind the padding.
LEMMA PairPadding ==
  ASSUME NEW p, NEW a, NEW b
  PROVE  RemovePadding(<<p, a, b>>, p, 2) = <<a, b>>
<1>1. RemovePadding(<<p, a, b>>, p, 2) = SubSeq(<<p, a, b>>, 2, 3)
  BY DEF RemovePadding
<1> QED BY <1>1, LastTwoOfThree

\* Of more parts than wanted only the first is taken.
LEMMA LongPadding ==
  ASSUME NEW p, NEW a, NEW b, NEW c, NEW d
  PROVE  RemovePadding(<<p, a, b, c, d>>, p, 1) = <<a>>
<1>1. RemovePadding(<<p, a, b, c, d>>, p, 1) = SubSeq(<<p, a, b, c, d>>, 2, 2)
  BY DEF RemovePadding
<1> QED BY <1>1, SecondOfFive

\* An spki encoding read as spki and as pkcs8.
LEMMA SpkiData ==
  ASSUME NEW n
  PROVE  /\ EcKeyData("spki", Spki(n)) = StandardPublic(n)
         /\ EcKeyData("pkcs8", Spki(n)) = <<>>
         /\ Size(Spki(n)) = 91
<1> DEFINE x == BE(<<"x", n>>)
           y == BE(<<"y", n>>)
<1>1. /\ x.size = 32 /\ y.size = 32 /\ SpkiPadding.size = 27
      /\ Pkcs8Padding.size = 36 /\ Pkcs8PaddingBare.size = 35
  BY Parts
<1> HIDE DEF x, y
<1>2. RemovePadding(<<SpkiPadding, x, y>>, SpkiPadding, 2) = <<x, y>>
  BY PairPadding
<1>3. /\ RemovePadding(<<SpkiPadding, x, y>>, Pkcs8Padding, 1) = <<>>
      /\ RemovePadding(<<SpkiPadding, x, y>>, Pkcs8PaddingBare, 1) = <<>>
  <2>1. Head(<<SpkiPadding, x, y>>) = SpkiPadding OBVIOUS
  <2> QED BY <1>1, <2>1, OtherPadding
<1>4. Size(<<SpkiPadding, x, y>>) = 91 BY <1>1, SizeOfThree
<1> QED
  BY <1>2, <1>3, <1>4 DEF EcKeyData, Spki, StandardPublic, x, y

\* One that was cut short is too short for a key, and no pkcs8 encoding.
LEMMA CutSpkiData ==
  ASSUME NEW n
  PROVE  /\ Size(EcKeyData("spki", CutSpki(n))) = 32
         /\ EcKeyData("pkcs8", CutSpki(n)) = <<>>
         /\ Size(CutSpki(n)) = 59
<1> DEFINE x == BE(<<"x", n>>)
<1>1. /\ x.size = 32 /\ SpkiPadding.size = 27
      /\ Pkcs8Padding.size = 36 /\ Pkcs8PaddingBare.size = 35
  BY Parts
<1> HIDE DEF x
<1>2. RemovePadding(<<SpkiPadding, x>>, SpkiPadding, 2) = <<x>>
  BY ShortPadding
<1>3. /\ RemovePadding(<<SpkiPadding, x>>, Pkcs8Padding, 1) = <<>>
      /\ RemovePadding(<<SpkiPadding, x>>, Pkcs8PaddingBare, 1) = <<>>
  <2>1. Head(<<SpkiPadding, x>>) = SpkiPadding OBVIOUS
  <2> QED BY <1>1, <2>1, OtherPadding
<1>4. Size(<<SpkiPadding, x>>) = 59 BY <1>1, SizeOfTwo
<1>5. Size(<<x>>) = 32 BY <1>1, SizeOfOne
<1> QED
  BY <1>2, <1>3, <1>4, <1>5 DEF EcKeyData, CutSpki, x

\* A pkcs8 encoding, with its public key or bare, read as spki and as pkcs8.
LEMMA Pkcs8Data ==
  ASSUME NEW n
  PROVE  /\ EcKeyData("spki", Pkcs8(n)) = <<>>
         /\ EcKeyData("pkcs8", Pkcs8(n)) = StandardPrivate(n)
         /\ Size(Pkcs8(n)) = 138
         /\ EcKeyData("spki", Pkcs8Bare(n)) = <<>>
         /\ EcKeyData("pkcs8", Pkcs8Bare(n)) = StandardPrivate(n)
         /\ Size(Pkcs8Bare(n)) = 67
<1> DEFINE x == BE(<<"x", n>>)
           y == BE(<<"y", n>>)
           d == BE(<<"d", n>>)
           t == Part(<<"tag">>, "be", 6)
           long == <<Pkcs8Padding, d, t, x, y>>
           bare == <<Pkcs8PaddingBare, d>>
<1>1. /\ x.size = 32 /\ y.size = 32 /\ d.size = 32 /\ t.size = 6
      /\ SpkiPadding.size = 27
      /\ Pkcs8Padding.size = 36 /\ Pkcs8PaddingBare.size = 35
  BY Parts
<1> HIDE DEF x, y, d, t
<1>2. /\ RemovePadding(long, Pkcs8Padding, 1) = <<d>>
      /\ RemovePadding(bare, Pkcs8PaddingBare, 1) = <<d>>
  BY LongPadding, ShortPadding
<1>3. Head(long) = Pkcs8Padding /\ Head(bare) = Pkcs8PaddingBare /\ <<d>> # <<>>
  OBVIOUS
<1>4. Size(long) = 138 BY <1>1, SizeOfFive
<1>5. Size(bare) = 67 BY <1>1, SizeOfTwo
<1> HIDE DEF long, bare
<1>6. /\ RemovePadding(long, SpkiPadding, 2) = <<>>
      /\ RemovePadding(bare, SpkiPadding, 2) = <<>>
      /\ RemovePadding(bare, Pkcs8Padding, 1) = <<>>
  BY <1>1, <1>3, OtherPadding
<1>7. /\ EcKeyData("spki", long) = <<>> /\ EcKeyData("pkcs8", long) = <<d>>
      /\ EcKeyData("spki", bare) = <<>> /\ EcKeyData("pkcs8", bare) = <<d>>
  BY <1>2, <1>3, <1>6 DEF EcKeyData
<1> QED
  BY <1>4, <1>5, <1>7
  DEF Pkcs8, Pkcs8Bare, StandardPrivate, long, bare, x, y, d, t

\* Bare numbers and secrets have no padding.
LEMMA BareData ==
  ASSUME NEW n, NEW format \in {"spki", "pkcs8"}
  PROVE  /\ EcKeyData(format, StandardPublic(n)) = <<>>
         /\ EcKeyData(format, StandardPrivate(n)) = <<>>
         /\ EcKeyData(format, SecretBytes(n)) = <<>>
<1> DEFINE x == BE(<<"x", n>>)
           y == BE(<<"y", n>>)
           d == BE(<<"d", n>>)
           z == Part(<<"secret", n>>, "be", 16)
<1>1. /\ x.size = 32 /\ d.size = 32 /\ z.size = 16 /\ SpkiPadding.size = 27
      /\ Pkcs8Padding.size = 36 /\ Pkcs8PaddingBare.size = 35
  BY Parts
<1>2. Head(StandardPublic(n)) = x /\ Head(StandardPrivate(n)) = d
      /\ Head(SecretBytes(n)) = z
  BY DEF StandardPublic, StandardPrivate, SecretBytes, Bytes
<1> HIDE DEF x, y, d, z
<1>3. ASSUME NEW t, Head(t).size \in {16, 32}, NEW count
      PROVE  /\ RemovePadding(t, SpkiPadding, count) = <<>>
             /\ RemovePadding(t, Pkcs8Padding, count) = <<>>
             /\ RemovePadding(t, Pkcs8PaddingBare, count) = <<>>
  BY <1>1, <1>3, OtherPadding
<1>4. ASSUME NEW t, Head(t).size \in {16, 32} PROVE EcKeyData(format, t) = <<>>
  BY <1>3, <1>4 DEF EcKeyData
<1> QED BY <1>1, <1>2, <1>4

-----------------------------------------------------------------------------
(***************************************************************************)
(* Keys in and out.  What is known of a key and of an encoded one: what    *)
(* they are of, and the bytes that stand for it.                           *)
(***************************************************************************)
Typed(type, of) ==
  \/ type \in {"public", "private"} /\ of \in Pair
  \/ type = "secret" /\ of \in Secret

KeyIs(k) ==
  /\ Typed(k.type, k.of)
  /\ k.algorithm \in Aes <=> k.type = "secret"
  /\ k.raw = CASE k.type = "public" -> NativePublic(k.of)
               [] k.type = "private" -> NativePrivate(k.of)
               [] k.type = "secret" -> SecretBytes(k.of)

BufferIs(b) == Typed(b.type, b.of) /\ b.bytes \in Encodings(b.type, b.of)

\* The size of a key tells its type.
LEMMA RawSizes ==
  ASSUME NEW k, KeyIs(k)
  PROVE  /\ Size(k.raw) = 64 <=> k.type = "public"
         /\ Size(k.raw) = 32 <=> k.type = "private"
         /\ Size(k.raw) = 16 <=> k.type = "secret"
<1>1. CASE k.type = "public"
  <2>1. k.raw = NativePublic(k.of) BY <1>1 DEF KeyIs
  <2>2. Size(k.raw) = 64 BY <2>1, KeySizes
  <2> QED BY <1>1, <2>2
<1>2. CASE k.type = "private"
  <2>1. k.raw = NativePrivate(k.of) BY <1>2 DEF KeyIs
  <2>2. Size(k.raw) = 32 BY <2>1, KeySizes
  <2> QED BY <1>2, <2>2
<1>3. CASE k.type = "secret"
  <2>1. k.raw = SecretBytes(k.of) BY <1>3 DEF KeyIs
  <2>2. Size(k.raw) = 16 BY <2>1, KeySizes
  <2> QED BY <1>3, <2>2
<1> QED BY <1>1, <1>2, <1>3 DEF KeyIs, Typed

\* importKey refuses an encoding of another type or cut short.
LEMMA Imported ==
  ASSUME NEW b, BufferIs(b) \/ \E n \in Foreign : b = Truncated(n),
         NEW format \in Formats, RightLength(format, b.bytes)
  PROVE  /\ BufferIs(b) /\ b.type = TypeOf(format)
         /\ format \in PublicFormats =>
              EcKeyData(format, b.bytes) = StandardPublic(b.of)
         /\ format \in PrivateFormats =>
              EcKeyData(format, b.bytes) = StandardPrivate(b.of)
         /\ format = "raw" => b.bytes = SecretBytes(b.of)
<1> DEFINE n == b.of
           src == b.bytes
           data == EcKeyData(format, src)
<1>1. /\ format \in PublicFormats => Size(data) = 64 /\ TypeOf(format) = "public"
      /\ format \in PrivateFormats => Size(data) = 32 /\ TypeOf(format) = "private"
      /\ format = "raw" => Size(src) = 16 /\ TypeOf(format) = "secret"
      /\ format \notin {"spki", "pkcs8"} => data = src
      /\ format \in {"spki", "pkcs8", "raw-public-uncompressed-be",
                     "raw-private-be", "raw"}
  BY DEF RightLength, TypeOf, EcKeyData, Formats, PublicFormats, PrivateFormats
<1>2. /\ Size(<<>>) = 0 /\ Size(StandardPublic(n)) = 64
      /\ Size(StandardPrivate(n)) = 32 /\ Size(SecretBytes(n)) = 16
  BY SizeOfNone, KeySizes
<1> HIDE DEF n, src, data
<1>3. CASE b.type = "public" /\ src = Spki(n) /\ BufferIs(b)
  <2>1. format = "spki"
    BY <1>1, <1>2, <1>3, SpkiData DEF data, PublicFormats, PrivateFormats
  <2> QED BY <1>1, <1>3, <2>1, SpkiData
          DEF n, src, data, PublicFormats, PrivateFormats
<1>4. CASE b.type = "public" /\ src = StandardPublic(n) /\ BufferIs(b)
  <2>1. format = "raw-public-uncompressed-be"
    BY <1>1, <1>2, <1>4, BareData DEF data, PublicFormats, PrivateFormats
  <2> QED BY <1>1, <1>4, <2>1 DEF n, src, data, PublicFormats, PrivateFormats
<1>5. CASE b.type = "private" /\ src \in {Pkcs8(n), Pkcs8Bare(n)} /\ BufferIs(b)
  <2>1. format = "pkcs8"
    BY <1>1, <1>2, <1>5, Pkcs8Data DEF data, PublicFormats, PrivateFormats
  <2>2. data = StandardPrivate(n) BY <1>5, <2>1, Pkcs8Data DEF data
  <2> QED BY <1>1, <1>5, <2>1, <2>2 DEF n, src, data, PublicFormats, PrivateFormats
<1>6. CASE b.type = "private" /\ src = StandardPrivate(n) /\ BufferIs(b)
  <2>1. format = "raw-private-be"
    BY <1>1, <1>2, <1>6, BareData DEF data, PublicFormats, PrivateFormats
  <2> QED BY <1>1, <1>6, <2>1 DEF n, src, data, PublicFormats, PrivateFormats
<1>7. CASE b.type = "secret" /\ src = SecretBytes(n) /\ BufferIs(b)
  <2>1. format = "raw"
    BY <1>1, <1>2, <1>7, BareData DEF data, PublicFormats, PrivateFormats
  <2> QED BY <1>1, <1>7, <2>1 DEF n, src, data, PublicFormats, PrivateFormats
<1>8. ASSUME NEW m \in Foreign, b = Truncated(m) PROVE FALSE
  <2>1. src = CutSpki(m) BY <1>8, EncodingsAre DEF src
  <2> QED BY <1>1, <1>2, <2>1, CutSpkiData DEF data, PublicFormats, PrivateFormats
<1>9. BufferIs(b) =>
        \/ b.type = "public" /\ src \in {Spki(n), StandardPublic(n)}
        \/ b.type = "private" /\ src \in {Pkcs8(n), Pkcs8Bare(n), StandardPrivate(n)}
        \/ b.type = "secret" /\ src = SecretBytes(n)
  <2>1. /\ Encodings("public", n) = {Spki(n), StandardPublic(n)}
        /\ Encodings("private", n) = {Pkcs8(n), Pkcs8Bare(n), StandardPrivate(n)}
        /\ Encodings("secret", n) = {SecretBytes(n)}
    BY EncodingsAre
  <2> QED BY <2>1 DEF BufferIs, Typed, n, src
<1> QED BY <1>3, <1>4, <1>5, <1>6, <1>7, <1>8, <1>9

\* exportKey gives an encoding of the key.
LEMMA ExportedIs ==
  ASSUME NEW k, KeyIs(k), NEW format \in Formats, ExportAllowed(format, k)
  PROVE  Exported(format, k.raw) \in Encodings(k.type, k.of)
<1> DEFINE n == k.of
<1>1. CASE k.type = "secret"
  <2>1. format = "raw" /\ k.raw = SecretBytes(n)
    BY <1>1 DEF KeyIs, ExportAllowed
  <2> QED BY <1>1, <2>1 DEF Exported, Encodings
<1>2. CASE k.type = "public"
  <2>1. format \in PublicFormats
    BY <1>2 DEF KeyIs, ExportAllowed, TypeOf, Formats, PrivateFormats, PublicFormats
  <2>2. ReverseEach(k.raw) = StandardPublic(n)
    BY <1>2, Reversals DEF KeyIs
  <2>3. Exported(format, k.raw)
          \in {<<SpkiPadding>> \o StandardPublic(n), StandardPublic(n)}
    BY <2>1, <2>2 DEF Exported, PublicFormats
  <2> QED BY <1>2, <2>3 DEF Encodings
<1>3. CASE k.type = "private"
  <2>1. format \in PrivateFormats
    BY <1>3 DEF KeyIs, ExportAllowed, TypeOf, Formats, PrivateFormats, PublicFormats
  <2>2. ReverseEach(k.raw) = StandardPrivate(n)
    BY <1>3, Reversals DEF KeyIs
  <2>3. Exported(format, k.raw)
          \in {<<Pkcs8PaddingBare>> \o StandardPrivate(n), StandardPrivate(n)}
    BY <2>1, <2>2 DEF Exported, PrivateFormats, PrivatePadding
  <2> QED BY <1>3, <2>3 DEF Encodings
<1> QED BY <1>1, <1>2, <1>3 DEF KeyIs, Typed

-----------------------------------------------------------------------------
(***************************************************************************)
(* Signatures.  The ones made are ECDSA signatures of some pair and CMACs  *)
(* of some secret; verify may be given either with either algorithm, as it *)
(* is or with a byte too many.                                             *)
(***************************************************************************)
MadeIs(s) ==
  \/ \E n \in Pair, d \in Data : s = StandardSignature(n, Text(d))
  \/ \E z \in Secret, d \in Data : s = NativeCmac(SecretBytes(z), Text(d))

SignatureIs(s) == MadeIs(s) \/ \E m : MadeIs(m) /\ s = Overlong(m)

\* What the native makes with a private key is the standard's, reversed.
LEMMA SignatureBytes ==
  ASSUME NEW n, NEW data
  PROVE  /\ ReverseEach(NativeEcdsaSign(NativePrivate(n), data))
              = StandardSignature(n, data)
         /\ ReverseEach(StandardSignature(n, data))
              = NativeEcdsaSign(NativePrivate(n), data)
         /\ Size(StandardSignature(n, data)) = 64
         /\ Size(NativeEcdsaSign(NativePrivate(n), data)) = 64
         /\ NativeEcdsaSign(NativePrivate(n), data)[1].size = 32
<1> DEFINE r == <<"r", NativePrivate(n), data>>
           t == <<"s", NativePrivate(n), data>>
<1>1. NativeEcdsaSign(NativePrivate(n), data) = <<LE(r), LE(t)>>
  BY KeySizes DEF NativeEcdsaSign
<1>2. StandardSignature(n, data) = <<BE(r), BE(t)>>
  BY DEF StandardSignature
<1> HIDE DEF r, t
<1>3. /\ LE(r).size = 32 /\ LE(t).size = 32 /\ BE(r).size = 32 /\ BE(t).size = 32
  BY Parts
<1>4. /\ ReverseEach(<<LE(r), LE(t)>>) = <<BE(r), BE(t)>>
      /\ ReverseEach(<<BE(r), BE(t)>>) = <<LE(r), LE(t)>>
  BY ReverseTuples
<1>5. Size(<<LE(r), LE(t)>>) = 64 BY <1>3, SizeOfTwo
<1>6. Size(<<BE(r), BE(t)>>) = 64 BY <1>3, SizeOfTwo
<1>7. <<LE(r), LE(t)>>[1].size = 32 BY <1>3
<1> QED BY <1>1, <1>2, <1>4, <1>5, <1>6, <1>7

\* A CMAC is 16 bytes.
LEMMA CmacBytes ==
  ASSUME NEW n, NEW data
  PROVE  /\ NativeCmac(SecretBytes(n), data)
              = Bytes(<<"mac", SecretBytes(n), data>>, 16)
         /\ NativeCmac(SecretBytes(n), data) # Throws
BY KeySizes DEF NativeCmac, Bytes, Throws

\* sign throws on a key that is not of the algorithm's type.
LEMMA Signs ==
  ASSUME NEW k, KeyIs(k), NEW data
  PROVE  /\ Signature("ECDSA", k.raw, data)
              = IF k.type = "private" THEN StandardSignature(k.of, data)
                ELSE Throws
         /\ Signature("AES-CMAC", k.raw, data)
              = IF k.type = "secret" THEN NativeCmac(SecretBytes(k.of), data)
                ELSE Throws
<1>1. Signature("ECDSA", k.raw, data)
        = IF k.type = "private" THEN StandardSignature(k.of, data) ELSE Throws
  <2>1. CASE k.type = "private"
    <3>1. k.raw = NativePrivate(k.of) BY <2>1 DEF KeyIs
    <3> QED BY <2>1, <3>1, SignatureBytes DEF Signature
  <2>2. CASE k.type # "private"
    <3>1. NativeEcdsaSign(k.raw, data) = <<>>
      BY <2>2, RawSizes DEF NativeEcdsaSign, Throws
    <3> QED BY <2>2, <3>1, ReverseNothing DEF Signature, Throws
  <2> QED BY <2>1, <2>2
<1>2. Signature("AES-CMAC", k.raw, data)
        = IF k.type = "secret" THEN NativeCmac(SecretBytes(k.of), data)
          ELSE Throws
  <2>1. CASE k.type = "secret"
    <3>1. k.raw = SecretBytes(k.of) BY <2>1 DEF KeyIs
    <3> QED BY <2>1, <3>1 DEF Signature
  <2>2. CASE k.type # "secret"
    <3>1. NativeCmac(k.raw, data) = Throws
      BY <2>2, RawSizes DEF NativeCmac
    <3> QED BY <2>2, <3>1 DEF Signature
  <2> QED BY <2>1, <2>2
<1> QED BY <1>1, <1>2

\* Of a CMAC the native reads 64 bytes that begin with no number.
LEMMA CmacRead ==
  ASSUME NEW what, NEW s,
         s = Bytes(what, 16) \/ s = Overlong(Bytes(what, 16))
  PROVE  /\ Size(ReverseEach(Bytes64(s))) = 64
         /\ ReverseEach(Bytes64(s))[1].size = 16
         /\ \A n, data : ~IsPrefix(StandardSignature(n, data), s)
<1> DEFINE p == Part(what, "be", 16)
           e == Part(<<"trailing">>, "be", 1)
           q == Part(<<"zeros">>, "be", 48)
           o == Part(<<"zeros">>, "be", 47)
           a == Reverse256(p)
           b == Reverse256(e)
           c == Reverse256(q)
           d == Reverse256(o)
<1>1. /\ Bytes(what, 16) = <<p>> /\ Bytes(<<"trailing">>, 1) = <<e>>
      /\ Bytes(<<"zeros">>, 48) = <<q>> /\ Bytes(<<"zeros">>, 47) = <<o>>
  BY DEF Bytes
<1>2. /\ p.size = 16 /\ e.size = 1 /\ q.size = 48 /\ o.size = 47
      /\ a.size = 16 /\ b.size = 1 /\ c.size = 48 /\ d.size = 47
  BY DEF Part, Reverse256
<1>3. /\ ReverseEach(<<p, q>>) = <<a, c>>
      /\ ReverseEach(<<p, e, o>>) = <<a, b, d>>
  BY DEF ReverseEach
<1> HIDE DEF p, e, q, o, a, b, c, d
<1>4. CASE s = Bytes(what, 16)
  <2>1. s = <<p>> /\ Size(s) = 16 BY <1>1, <1>2, <1>4, SizeOfOne
  <2>2. Bytes64(s) = s \o Bytes(<<"zeros">>, 48) BY <2>1 DEF Bytes64
  <2>3. Bytes64(s) = <<p, q>> BY <1>1, <2>1, <2>2, ConcatTwo
  <2>4. Size(<<a, c>>) = 64 BY <1>2, SizeOfTwo
  <2>5. <<a, c>>[1].size = 16 BY <1>2
  <2>6. ASSUME NEW n, NEW data
        PROVE  ~IsPrefix(StandardSignature(n, data), s)
    <3>1. Len(StandardSignature(n, data)) = 2 BY DEF StandardSignature
    <3>2. Len(s) = 1 BY <2>1
    <3> QED BY <3>1, <3>2 DEF IsPrefix
  <2> QED BY <1>3, <2>3, <2>4, <2>5, <2>6
<1>5. CASE s = Overlong(Bytes(what, 16))
  <2>1. s = <<p, e>> BY <1>1, <1>5, ConcatTwo DEF Overlong
  <2>2. Size(s) = 17 BY <1>2, <2>1, SizeOfTwo
  <2>3. Bytes64(s) = s \o Bytes(<<"zeros">>, 47) BY <2>2 DEF Bytes64
  <2>4. Bytes64(s) = <<p, e, o>> BY <1>1, <2>1, <2>3, ConcatTwoOne
  <2>5. Size(<<a, b, d>>) = 64 BY <1>2, SizeOfThree
  <2>6. <<a, b, d>>[1].size = 16 BY <1>2
  <2>7. ASSUME NEW n, NEW data
        PROVE  ~IsPrefix(StandardSignature(n, data), s)
    <3> DEFINE r == BE(<<"r", NativePrivate(n), data>>)
               t == BE(<<"s", NativePrivate(n), data>>)
    <3>1. StandardSignature(n, data) = <<r, t>> BY DEF StandardSignature
    <3>2. r.size = 32 BY Parts
    <3> HIDE DEF r, t
    <3>3. r # p BY <1>2, <3>2
    <3>4. <<r, t>> # <<p, e>> BY <3>3
    <3>5. IsPrefix(<<r, t>>, <<p, e>>) <=> <<r, t>> = <<p, e>>
      BY PrefixOfTwo
    <3> QED BY <2>1, <3>1, <3>4, <3>5
  <2> QED BY <1>3, <2>4, <2>5, <2>6, <2>7
<1> QED BY <1>4, <1>5

\* Of an ECDSA signature the native reads the two numbers, and the standard's
\* signature is a prefix of it if those are its numbers.
LEMMA EcdsaRead ==
  ASSUME NEW m, NEW e, NEW s,
         \/ s = StandardSignature(m, e)
         \/ s = Overlong(StandardSignature(m, e))
  PROVE  /\ Bytes64(s) = StandardSignature(m, e)
         /\ \A n, data : IsPrefix(StandardSignature(n, data), s)
                          <=> StandardSignature(n, data) = StandardSignature(m, e)
<1> DEFINE r == BE(<<"r", NativePrivate(m), e>>)
           t == BE(<<"s", NativePrivate(m), e>>)
           f == Part(<<"trailing">>, "be", 1)
<1>1. StandardSignature(m, e) = <<r, t>> BY DEF StandardSignature
<1>2. /\ r.size = 32 /\ t.size = 32 BY Parts
<1>3. f.size = 1 /\ Bytes(<<"trailing">>, 1) = <<f>> BY DEF Part, Bytes
<1> HIDE DEF r, t, f
<1>4. CASE s = StandardSignature(m, e)
  <2>1. Size(s) = 64 BY <1>4, SignatureBytes
  <2>2. Bytes64(s) = s BY <2>1 DEF Bytes64
  <2>3. ASSUME NEW n, NEW data
        PROVE  IsPrefix(StandardSignature(n, data), s)
                 <=> StandardSignature(n, data) = StandardSignature(m, e)
    <3> DEFINE a == BE(<<"r", NativePrivate(n), data>>)
               b == BE(<<"s", NativePrivate(n), data>>)
    <3>1. StandardSignature(n, data) = <<a, b>> BY DEF StandardSignature
    <3> HIDE DEF a, b
    <3>2. IsPrefix(<<a, b>>, <<r, t>>) <=> <<a, b>> = <<r, t>>
      BY PrefixOfTwo
    <3> QED BY <1>1, <1>4, <3>1, <3>2
  <2> QED BY <1>4, <2>2, <2>3
<1>5. CASE s = Overlong(StandardSignature(m, e))
  <2>1. s = <<r, t, f>> BY <1>1, <1>3, <1>5, ConcatTwoOne DEF Overlong
  <2>2. Size(s) = 65 BY <1>2, <1>3, <2>1, SizeOfThree
  <2>3. Bytes64(s) = SubSeq(s, 1, 2) BY <2>2 DEF Bytes64
  <2>4. Bytes64(s) = <<r, t>> BY <2>1, <2>3, FirstTwoOfThree
  <2>5. ASSUME NEW n, NEW data
        PROVE  IsPrefix(StandardSignature(n, data), s)
                 <=> StandardSignature(n, data) = StandardSignature(m, e)
    <3> DEFINE a == BE(<<"r", NativePrivate(n), data>>)
               b == BE(<<"s", NativePrivate(n), data>>)
    <3>1. StandardSignature(n, data) = <<a, b>> BY DEF StandardSignature
    <3> HIDE DEF a, b
    <3>2. IsPrefix(<<a, b>>, <<r, t, f>>) <=> <<a, b>> = <<r, t>>
      BY PrefixOfThree
    <3> QED BY <1>1, <2>1, <3>1, <3>2
  <2> QED BY <1>1, <2>4, <2>5
<1> QED BY <1>4, <1>5

\* Read in the native's order, a signature is that of n exactly when it begins
\* with the standard's signature of n.
LEMMA SignatureRead ==
  ASSUME NEW s, SignatureIs(s), NEW n, NEW data
  PROVE  /\ Size(ReverseEach(Bytes64(s))) = 64
         /\ ReverseEach(Bytes64(s)) = NativeEcdsaSign(NativePrivate(n), data)
              <=> IsPrefix(StandardSignature(n, data), s)
<1> DEFINE t == ReverseEach(Bytes64(s))
           u == NativeEcdsaSign(NativePrivate(n), data)
           v == StandardSignature(n, data)
<1>1. /\ ReverseEach(u) = v /\ ReverseEach(v) = u /\ u[1].size = 32
  BY SignatureBytes
<1>2. ASSUME NEW m \in Pair, NEW e \in Data,
             \/ s = StandardSignature(m, Text(e))
             \/ s = Overlong(StandardSignature(m, Text(e)))
      PROVE  Size(t) = 64 /\ (t = u <=> IsPrefix(v, s))
  <2> DEFINE o == NativeEcdsaSign(NativePrivate(m), Text(e))
             w == StandardSignature(m, Text(e))
  <2>1. /\ ReverseEach(o) = w /\ ReverseEach(w) = o /\ Size(o) = 64
    BY SignatureBytes
  <2>2. Bytes64(s) = w /\ (IsPrefix(v, s) <=> v = w) BY <1>2, EcdsaRead
  <2> HIDE DEF o, w, u, v
  <2>3. t = o BY <2>1, <2>2
  <2> HIDE DEF t
  <2> QED BY <1>1, <2>1, <2>2, <2>3
<1>3. ASSUME NEW z \in Secret, NEW e \in Data,
             \/ s = NativeCmac(SecretBytes(z), Text(e))
             \/ s = Overlong(NativeCmac(SecretBytes(z), Text(e)))
      PROVE  Size(t) = 64 /\ (t = u <=> IsPrefix(v, s))
  <2> DEFINE what == <<"mac", SecretBytes(z), Text(e)>>
  <2>1. s = Bytes(what, 16) \/ s = Overlong(Bytes(what, 16))
    BY <1>3, CmacBytes
  <2> HIDE DEF what, u
  <2>2. Size(t) = 64 /\ t[1].size = 16 /\ ~IsPrefix(v, s)
    BY <2>1, CmacRead
  <2> HIDE DEF t, v
  <2> QED BY <1>1, <2>2
<1> HIDE DEF t, u, v
<1>4. Size(t) = 64 /\ (t = u <=> IsPrefix(v, s))
  BY <1>2, <1>3 DEF SignatureIs, MadeIs
<1> QED BY <1>4 DEF t, u, v

\* verify of ECDSA throws on a key that is not public, and else compares.
LEMMA VerifiesEcdsa ==
  ASSUME NEW k, KeyIs(k), NEW s, SignatureIs(s), NEW data
  PROVE  Verified("ECDSA", k.raw, s, data)
           = IF k.type = "public"
               THEN << IsPrefix(StandardSignature(k.of, data), s) >>
               ELSE Throws
<1> DEFINE t == ReverseEach(Bytes64(s))
           found == \E n \in Pair : /\ k.raw = NativePublic(n)
                                    /\ t = NativeEcdsaSign(NativePrivate(n), data)
           same == IsPrefix(StandardSignature(k.of, data), s)
<1>1. Size(t) = 64 BY SignatureRead
<1>2. CASE k.type = "public"
  <2>1. /\ k.of \in Pair /\ k.raw = NativePublic(k.of)
        /\ Size(k.raw) = 64
    BY <1>2, RawSizes DEF KeyIs, Typed
  <2>2. \A n : NativePublic(k.of) = NativePublic(n) => n = k.of
    BY KeysDiffer
  <2>3. t = NativeEcdsaSign(NativePrivate(k.of), data) <=> same
    BY SignatureRead
  <2>4. Verified("ECDSA", k.raw, s, data) = << found >>
    BY <1>1, <2>1 DEF Verified, NativeEcdsaVerify
  <2> HIDE DEF t, same
  <2>5. found <=> same BY <2>1, <2>2, <2>3
  <2>6. found \in BOOLEAN /\ same \in BOOLEAN BY DEF same, IsPrefix
  <2> HIDE DEF found
  <2>7. found = same BY <2>5, <2>6
  <2> QED BY <1>2, <2>4, <2>7 DEF same
<1>3. CASE k.type # "public"
  <2>1. Size(k.raw) # 64 BY <1>3, RawSizes
  <2> QED BY <1>3, <2>1 DEF Verified, NativeEcdsaVerify
<1> QED BY <1>2, <1>3

\* verify of CMAC throws on a key that is no secret, and else compares.
LEMMA VerifiesCmac ==
  ASSUME NEW k, KeyIs(k), NEW s, NEW data
  PROVE  Verified("AES-CMAC", k.raw, s, data)
           = IF k.type = "secret"
               THEN << s = NativeCmac(SecretBytes(k.of), data) >>
               ELSE Throws
<1>1. CASE k.type = "secret"
  <2>1. k.raw = SecretBytes(k.of) BY <1>1 DEF KeyIs
  <2>2. NativeCmac(SecretBytes(k.of), data) # Throws BY CmacBytes
  <2> QED BY <1>1, <2>1, <2>2 DEF Verified
<1>2. CASE k.type # "secret"
  <2>1. NativeCmac(k.raw, data) = Throws BY <1>2, RawSizes DEF NativeCmac
  <2> QED BY <1>2, <2>1 DEF Verified
<1> QED BY <1>1, <1>2

-----------------------------------------------------------------------------
(***************************************************************************)
(* Shared secrets and AES-GCM.                                             *)
(***************************************************************************)
LEMMA Derives ==
  ASSUME NEW q, KeyIs(q), NEW k, KeyIs(k)
  PROVE  ReverseEach(NativeEcdhDeriveBits(q.raw, k.raw))
           = IF k.type = "private" /\ q.type = "public"
               THEN << BE(<<"shared", {q.of, k.of}>>) >>
               ELSE Throws
<1>1. CASE k.type = "private" /\ q.type = "public"
  <2>1. /\ q.of \in Pair /\ q.raw = NativePublic(q.of) /\ Size(q.raw) = 64
        /\ k.of \in Pair /\ k.raw = NativePrivate(k.of) /\ Size(k.raw) = 32
    BY <1>1, RawSizes DEF KeyIs, Typed
  <2>2. /\ \A n : NativePublic(q.of) = NativePublic(n) => n = q.of
        /\ \A n : NativePrivate(k.of) = NativePrivate(n) => n = k.of
    BY KeysDiffer
  <2>3. /\ (CHOOSE n \in Pair : q.raw = NativePublic(n)) = q.of
        /\ (CHOOSE n \in Pair : k.raw = NativePrivate(n)) = k.of
    BY <2>1, <2>2
  <2>4. \E n, m \in Pair : q.raw = NativePublic(n) /\ k.raw = NativePrivate(m)
    BY <2>1
  <2> DEFINE v == <<"shared", {q.of, k.of}>>
  <2>5. NativeEcdhDeriveBits(q.raw, k.raw) = << LE(v) >>
    BY <2>1, <2>3, <2>4 DEF NativeEcdhDeriveBits
  <2> HIDE DEF v
  <2>6. ReverseEach(<< LE(v) >>) = << BE(v) >> BY ReverseTuples
  <2> QED BY <1>1, <2>5, <2>6 DEF v
<1>2. CASE ~(k.type = "private" /\ q.type = "public")
  <2>1. Size(q.raw) # 64 \/ Size(k.raw) # 32 BY <1>2, RawSizes
  <2>2. NativeEcdhDeriveBits(q.raw, k.raw) = <<>>
    BY <2>1 DEF NativeEcdhDeriveBits, Throws
  <2> QED BY <1>2, <2>2, ReverseNothing DEF Throws
<1> QED BY <1>1, <1>2

\* A ciphertext tells its vector, key and text.
LEMMA GcmBytes ==
  ASSUME NEW iv, NEW key, NEW data
  PROVE  LET what == Bytes(<<"gcm", iv, key, data>>, 32)[1].what
         IN  what[2] = iv /\ what[3] = key /\ what[4] = data
<1> DEFINE w == <<"gcm", iv, key, data>>
<1>1. w[2] = iv /\ w[3] = key /\ w[4] = data OBVIOUS
<1> HIDE DEF w
<1>2. Bytes(w, 32)[1].what = w BY DEF Bytes, Part
<1> QED BY <1>1, <1>2 DEF w

\* Different vectors have different bytes.
LEMMA VectorsDiffer ==
  ASSUME NEW p, NEW q, Iv(p) = Iv(q)
  PROVE  p = q
<1> DEFINE v == <<"iv", p>>
           w == <<"iv", q>>
<1>1. v[2] = p /\ w[2] = q OBVIOUS
<1>2. Iv(p) = Bytes(v, 12) /\ Iv(q) = Bytes(w, 12) BY DEF Iv
<1> HIDE DEF v, w
<1>3. Bytes(v, 12)[1].what = v /\ Bytes(w, 12)[1].what = w BY DEF Bytes, Part
<1> QED BY <1>1, <1>2, <1>3

\* The native decrypts under the same vector and key and no other.
LEMMA DecryptsGcm ==
  ASSUME NEW p, NEW raw, NEW q, NEW old, NEW data,
         NativeGcmEncrypt(Iv(q), old, data) # Throws
  PROVE  NativeGcmDecrypt(Iv(p), raw, NativeGcmEncrypt(Iv(q), old, data))
           = IF raw = old /\ p = q THEN data ELSE Throws
<1> DEFINE cipher == Bytes(<<"gcm", Iv(q), old, data>>, 32)
           other == Bytes(<<"gcm", Iv(p), raw, data>>, 32)
<1>1. Size(old) = 16 /\ NativeGcmEncrypt(Iv(q), old, data) = cipher
  BY DEF NativeGcmEncrypt
<1>2. /\ cipher[1].what[2] = Iv(q) /\ cipher[1].what[3] = old
      /\ cipher[1].what[4] = data
      /\ other[1].what[2] = Iv(p) /\ other[1].what[3] = raw
  BY GcmBytes
<1>3. cipher = other <=> raw = old /\ p = q
  <2>1. raw = old /\ p = q => cipher = other OBVIOUS
  <2> HIDE DEF cipher, other
  <2> QED BY <1>2, <2>1, VectorsDiffer
<1>4. Size(raw) = 16 => NativeGcmEncrypt(Iv(p), raw, data) = other
  BY DEF NativeGcmEncrypt
<1> HIDE DEF cipher, other
<1>5. NativeGcmDecrypt(Iv(p), raw, cipher)
        = IF Size(raw) = 16 /\ cipher = NativeGcmEncrypt(Iv(p), raw, data)
            THEN data ELSE Throws
  BY <1>2 DEF NativeGcmDecrypt
<1> QED BY <1>1, <1>3, <1>4, <1>5

-----------------------------------------------------------------------------
(***************************************************************************)
(* The inductive invariant.  Keys are the numbers they are of, and so are  *)
(* the encoded keys; a signature or an AES-GCM ciphertext that was the     *)
(* last outcome, and may be handed to verify or decrypt next, is one that  *)
(* a key made; and what the runs check of the last outcome.                *)
(***************************************************************************)
KeysAre == \A k \in keys : KeyIs(k)

BuffersAre == \A b \in buffers : BufferIs(b)

Signed == result.op = "sign" => result.out = Throws \/ MadeIs(result.out)

Encrypted ==
  result.op = "encrypt" /\ result.algorithm = "AES-GCM" =>
    result.out =
      NativeGcmEncrypt(Iv(result.param), result.key.raw, Text(result.data))

Outcome ==
  Signed /\ Encrypted /\ OutputsAreStandard /\ VerifyIsRight /\ DecryptsAesGcm

CryptoInv == KeysAre /\ BuffersAre /\ Outcome

\* The encodings handed in at the start are standard ones.
LEMMA CryptoInitially == CryptoInit => CryptoInv
<1> SUFFICES ASSUME CryptoInit PROVE CryptoInv
  OBVIOUS
<1>1. KeysAre BY DEF CryptoInit, KeysAre
<1>2. BuffersAre
  <2>1. ASSUME NEW t \in {"public", "private"}, NEW n \in Foreign,
               NEW b \in HandedIn(t, n)
        PROVE  BufferIs(b)
    BY CryptoAssumption DEF HandedIn, BufferIs, Typed
  <2>2. ASSUME NEW z \in Secret, NEW b \in HandedIn("secret", z)
        PROVE  BufferIs(b)
    BY DEF HandedIn, BufferIs, Typed
  <2>3. ASSUME NEW b \in buffers
        PROVE  \/ \E t \in {"public", "private"}, n \in Foreign :
                    b \in HandedIn(t, n)
               \/ \E z \in Secret : b \in HandedIn("secret", z)
    BY DEF CryptoInit
  <2> QED BY <2>1, <2>2, <2>3 DEF BuffersAre
<1>3. Outcome
  <2>1. result.op = "none" BY DEF CryptoInit, NoResult
  <2> QED
    BY <2>1 DEF Outcome, Signed, Encrypted, OutputsAreStandard, VerifyIsRight,
                DecryptsAesGcm
<1> QED BY <1>1, <1>2, <1>3 DEF CryptoInv

\* Handling keys leaves the last outcome as it was.
LEMMA SameOutcome ==
  ASSUME Outcome, UNCHANGED result
  PROVE  Outcome'
BY DEF Outcome, Signed, Encrypted, OutputsAreStandard, VerifyIsRight,
       DecryptsAesGcm, ExpectedSignature, SameKey

\* generateKey.
LEMMA GenerateKeyKeeps ==
  ASSUME CryptoInv, NEW a \in Ec, NEW n \in Pair, GenerateKey(a, n)
  PROVE  CryptoInv'
<1>1. /\ KeyIs(Key("public", a, NativePublic(n), n))
      /\ KeyIs(Key("private", a, NativePrivate(n), n))
  BY DEF KeyIs, Key, Typed, Ec, Aes
<1>2. KeysAre' BY <1>1 DEF KeysAre, CryptoInv, GenerateKey
<1>3. BuffersAre' BY DEF BuffersAre, CryptoInv, GenerateKey
<1>4. Outcome' BY SameOutcome DEF CryptoInv, GenerateKey
<1> QED BY <1>2, <1>3, <1>4 DEF CryptoInv

\* importKey.
LEMMA ImportKeyKeeps ==
  ASSUME CryptoInv, NEW format \in Formats, NEW a \in Ec \cup Aes,
         NEW b \in buffers \cup {Truncated(n) : n \in Foreign},
         ImportKey(format, b, a)
  PROVE  CryptoInv'
<1> DEFINE raw == IF format = "raw" THEN b.bytes
                  ELSE ReverseEach(EcKeyData(format, b.bytes))
           new == Key(TypeOf(format), a, raw, b.of)
<1>1. BufferIs(b) \/ \E n \in Foreign : b = Truncated(n)
  BY DEF CryptoInv, BuffersAre
<1>2. /\ BufferIs(b) /\ b.type = TypeOf(format)
      /\ format \in PublicFormats =>
           EcKeyData(format, b.bytes) = StandardPublic(b.of)
      /\ format \in PrivateFormats =>
           EcKeyData(format, b.bytes) = StandardPrivate(b.of)
      /\ format = "raw" => b.bytes = SecretBytes(b.of)
  BY <1>1, Imported DEF ImportKey
<1>3. /\ format \in PublicFormats => TypeOf(format) = "public" /\ format # "raw"
      /\ format \in PrivateFormats => TypeOf(format) = "private" /\ format # "raw"
      /\ format = "raw" => TypeOf(format) = "secret"
      /\ format \in PublicFormats \/ format \in PrivateFormats \/ format = "raw"
  BY DEF Formats, PublicFormats, PrivateFormats, TypeOf
<1>4. raw = CASE TypeOf(format) = "public" -> NativePublic(b.of)
              [] TypeOf(format) = "private" -> NativePrivate(b.of)
              [] TypeOf(format) = "secret" -> SecretBytes(b.of)
  <2>1. CASE format \in PublicFormats
    <3>1. raw = ReverseEach(StandardPublic(b.of)) BY <1>2, <1>3, <2>1
    <3> HIDE DEF raw
    <3> QED BY <1>3, <2>1, <3>1, Reversals
  <2>2. CASE format \in PrivateFormats
    <3>1. raw = ReverseEach(StandardPrivate(b.of)) BY <1>2, <1>3, <2>2
    <3> HIDE DEF raw
    <3> QED BY <1>3, <2>2, <3>1, Reversals
  <2>3. CASE format = "raw" BY <1>2, <1>3, <2>3
  <2> QED BY <1>3, <2>1, <2>2, <2>3
<1>5. keys' = keys \cup {new} BY DEF ImportKey
<1>6. a \in Aes <=> TypeOf(format) = "secret" BY <1>3 DEF ImportKey
<1>7. Typed(TypeOf(format), b.of) BY <1>2 DEF BufferIs
<1> HIDE DEF raw
<1>8. KeyIs(new) BY <1>4, <1>6, <1>7 DEF KeyIs, Key
<1> HIDE DEF new
<1>9. KeysAre' BY <1>5, <1>8 DEF KeysAre, CryptoInv
<1>10. BuffersAre' BY DEF BuffersAre, CryptoInv, ImportKey
<1>11. Outcome' BY SameOutcome DEF CryptoInv, ImportKey
<1> QED BY <1>9, <1>10, <1>11 DEF CryptoInv

\* exportKey.
LEMMA ExportKeyKeeps ==
  ASSUME CryptoInv, NEW format \in Formats, NEW k \in keys, ExportKey(format, k)
  PROVE  CryptoInv'
<1> DEFINE bytes == Exported(format, k.raw)
           new == [bytes |-> bytes, type |-> k.type, of |-> k.of]
<1>1. KeyIs(k) BY DEF CryptoInv, KeysAre
<1>2. bytes \in Encodings(k.type, k.of) BY <1>1, ExportedIs DEF ExportKey
<1> HIDE DEF bytes
<1>3. BufferIs(new) BY <1>1, <1>2 DEF BufferIs, KeyIs
<1>4. buffers' = buffers \cup {new} BY DEF ExportKey, bytes
<1> HIDE DEF new
<1>5. BuffersAre' BY <1>3, <1>4 DEF BuffersAre, CryptoInv
<1>6. KeysAre' BY DEF KeysAre, CryptoInv, ExportKey
<1>7. Outcome' BY SameOutcome DEF CryptoInv, ExportKey
<1> QED BY <1>5, <1>6, <1>7 DEF CryptoInv

\* sign.
LEMMA SignKeeps ==
  ASSUME CryptoInv, NEW k \in keys, NEW a \in {"ECDSA", "AES-CMAC"},
         NEW d \in Data, Sign(a, k, d)
  PROVE  CryptoInv'
<1> DEFINE out == Signature(a, k.raw, Text(d))
<1>1. KeyIs(k) BY DEF CryptoInv, KeysAre
<1>2. /\ a = "ECDSA" =>
           out = IF k.type = "private" THEN StandardSignature(k.of, Text(d))
                 ELSE Throws
      /\ a = "AES-CMAC" =>
           out = IF k.type = "secret" THEN NativeCmac(SecretBytes(k.of), Text(d))
                 ELSE Throws
  BY <1>1, Signs
<1>3. out = Throws \/ MadeIs(out)
  <2> HIDE DEF out
  <2> QED BY <1>1, <1>2 DEF MadeIs, KeyIs, Typed
<1>4. result' = [op |-> "sign", algorithm |-> a, key |-> k, data |-> d, out |-> out]
  BY DEF Sign
<1> HIDE DEF out
<1>5. /\ result'.op = "sign" /\ result'.algorithm = a /\ result'.key = k
      /\ result'.data = d /\ result'.out = out
  BY <1>4
<1>6. Outcome'
  BY <1>2, <1>3, <1>5 DEF Outcome, Signed, Encrypted, OutputsAreStandard,
                          VerifyIsRight, DecryptsAesGcm
<1>7. KeysAre' /\ BuffersAre' BY DEF KeysAre, BuffersAre, CryptoInv, Sign
<1> QED BY <1>6, <1>7 DEF CryptoInv

\* verify.
LEMMA VerifyKeeps ==
  ASSUME CryptoInv, NEW k \in keys, NEW a \in {"ECDSA", "AES-CMAC"},
         NEW d \in Data, NEW s \in Signatures, Verify(a, k, s, d)
  PROVE  CryptoInv'
<1> DEFINE out == Verified(a, k.raw, s, Text(d))
<1>1. KeyIs(k) BY DEF CryptoInv, KeysAre
<1>2. SignatureIs(s)
  <2>1. ASSUME NEW n \in Foreign, NEW e \in Data
        PROVE  MadeIs(StandardSignature(n, Text(e)))
    BY CryptoAssumption DEF MadeIs
  <2>2. ASSUME result.op = "sign", result.out # Throws
        PROVE  MadeIs(result.out)
    BY <2>2 DEF CryptoInv, Outcome, Signed
  <2> QED BY <2>1, <2>2 DEF Signatures, SignatureIs
<1>3. /\ a = "ECDSA" =>
           out = IF k.type = "public"
                   THEN << IsPrefix(StandardSignature(k.of, Text(d)), s) >>
                   ELSE Throws
      /\ a = "AES-CMAC" =>
           out = IF k.type = "secret"
                   THEN << s = NativeCmac(SecretBytes(k.of), Text(d)) >>
                   ELSE Throws
  BY <1>1, <1>2, VerifiesEcdsa, VerifiesCmac
<1>4. result' = [op |-> "verify", algorithm |-> a, key |-> k, data |-> d,
                 signature |-> s, out |-> out]
  BY DEF Verify
<1> HIDE DEF out
<1>5. /\ result'.op = "verify" /\ result'.algorithm = a /\ result'.key = k
      /\ result'.data = d /\ result'.signature = s /\ result'.out = out
  BY <1>4
<1>6. VerifyIsRight'
  <2>1. CASE a = "ECDSA"
    BY <1>3, <1>5, <2>1 DEF VerifyIsRight, IsSigned, ExpectedSignature
  <2>2. CASE a = "AES-CMAC"
    BY <1>3, <1>5, <2>2 DEF VerifyIsRight, IsSigned, ExpectedSignature
  <2> QED BY <2>1, <2>2
<1>7. Signed' /\ Encrypted' /\ OutputsAreStandard' /\ DecryptsAesGcm'
  BY <1>5 DEF Signed, Encrypted, OutputsAreStandard, DecryptsAesGcm
<1>8. KeysAre' /\ BuffersAre' BY DEF KeysAre, BuffersAre, CryptoInv, Verify
<1> QED BY <1>6, <1>7, <1>8 DEF CryptoInv, Outcome

\* deriveBits.
LEMMA DeriveBitsKeeps ==
  ASSUME CryptoInv, NEW k \in keys, NEW q \in keys, DeriveBits(q, k)
  PROVE  CryptoInv'
<1> DEFINE out == ReverseEach(NativeEcdhDeriveBits(q.raw, k.raw))
<1>1. KeyIs(k) /\ KeyIs(q) BY DEF CryptoInv, KeysAre
<1>2. out = IF k.type = "private" /\ q.type = "public"
              THEN << BE(<<"shared", {q.of, k.of}>>) >> ELSE Throws
  BY <1>1, Derives
<1>3. result' = [op |-> "derive", public |-> q, key |-> k, out |-> out]
  BY DEF DeriveBits
<1> HIDE DEF out
<1>4. /\ result'.op = "derive" /\ result'.public = q /\ result'.key = k
      /\ result'.out = out
  BY <1>3
<1>5. OutputsAreStandard' BY <1>2, <1>4 DEF OutputsAreStandard
<1>6. Signed' /\ Encrypted' /\ VerifyIsRight' /\ DecryptsAesGcm'
  BY <1>4 DEF Signed, Encrypted, VerifyIsRight, DecryptsAesGcm
<1>7. KeysAre' /\ BuffersAre' BY DEF KeysAre, BuffersAre, CryptoInv, DeriveBits
<1> QED BY <1>5, <1>6, <1>7 DEF CryptoInv, Outcome

\* encrypt.
LEMMA EncryptKeeps ==
  ASSUME CryptoInv, NEW k \in keys, NEW p \in Param,
         NEW a \in {"AES-GCM", "AES-CTR"}, NEW d \in Data, Encrypt(a, p, k, d)
  PROVE  CryptoInv'
<1> DEFINE out == IF a = "AES-GCM"
                    THEN NativeGcmEncrypt(Iv(p), k.raw, Text(d))
                    ELSE NativeCtrEncrypt(Counter(p), Number(64), k.raw, Text(d))
<1>1. result' = [op |-> "encrypt", algorithm |-> a, param |-> p, key |-> k,
                 data |-> d, out |-> out]
  BY DEF Encrypt
<1>2. a = "AES-GCM" => out = NativeGcmEncrypt(Iv(p), k.raw, Text(d))
  OBVIOUS
<1> HIDE DEF out
<1>3. /\ result'.op = "encrypt" /\ result'.algorithm = a /\ result'.key = k
      /\ result'.param = p /\ result'.data = d /\ result'.out = out
  BY <1>1
<1>4. Encrypted' BY <1>2, <1>3 DEF Encrypted
<1>5. Signed' /\ OutputsAreStandard' /\ VerifyIsRight' /\ DecryptsAesGcm'
  BY <1>3 DEF Signed, OutputsAreStandard, VerifyIsRight, DecryptsAesGcm
<1>6. KeysAre' /\ BuffersAre' BY DEF KeysAre, BuffersAre, CryptoInv, Encrypt
<1> QED BY <1>4, <1>5, <1>6 DEF CryptoInv, Outcome

\* decrypt.
LEMMA DecryptKeeps ==
  ASSUME CryptoInv, NEW k \in keys, NEW p \in Param, Decrypt(p, k)
  PROVE  CryptoInv'
<1> DEFINE out == IF result.algorithm = "AES-GCM"
                    THEN NativeGcmDecrypt(Iv(p), k.raw, result.out)
                    ELSE NativeCtrDecrypt(Counter(p), Number(64), k.raw,
                                          result.out)
<1>1. result' = [op |-> "decrypt", of |-> result, param |-> p, key |-> k,
                 out |-> out]
  BY DEF Decrypt
<1>2. result.algorithm = "AES-GCM" =>
        out = IF k.raw = result.key.raw /\ p = result.param
                THEN Text(result.data) ELSE Throws
  <2> SUFFICES ASSUME result.algorithm = "AES-GCM"
               PROVE  out = IF k.raw = result.key.raw /\ p = result.param
                              THEN Text(result.data) ELSE Throws
    OBVIOUS
  <2>1. result.op = "encrypt" /\ result.out # Throws BY DEF Decrypt
  <2>2. result.out =
          NativeGcmEncrypt(Iv(result.param), result.key.raw, Text(result.data))
    BY <2>1 DEF CryptoInv, Outcome, Encrypted
  <2>3. NativeGcmDecrypt(Iv(p), k.raw, result.out)
          = IF k.raw = result.key.raw /\ p = result.param
              THEN Text(result.data) ELSE Throws
    BY <2>1, <2>2, DecryptsGcm
  <2> QED BY <2>3
<1> HIDE DEF out
<1>3. /\ result'.op = "decrypt" /\ result'.of = result /\ result'.key = k
      /\ result'.param = p /\ result'.out = out
  BY <1>1
<1>4. DecryptsAesGcm' BY <1>2, <1>3 DEF DecryptsAesGcm, SameKey
<1>5. Signed' /\ Encrypted' /\ OutputsAreStandard' /\ VerifyIsRight'
  BY <1>3 DEF Signed, Encrypted, OutputsAreStandard, VerifyIsRight
<1>6. KeysAre' /\ BuffersAre' BY DEF KeysAre, BuffersAre, CryptoInv, Decrypt
<1> QED BY <1>4, <1>5, <1>6 DEF CryptoInv, Outcome

\* Every call keeps the invariant.
LEMMA CryptoInvKept == CryptoInv /\ [CryptoNext]_cryptoVars => CryptoInv'
<1> SUFFICES ASSUME CryptoInv, [CryptoNext]_cryptoVars PROVE CryptoInv'
  OBVIOUS
<1>1. CASE KeyNext
  <2>1. CASE \E a \in Ec, n \in Pair : GenerateKey(a, n)
    BY <2>1, GenerateKeyKeeps
  <2>2. CASE \E f \in Formats, a \in Ec \cup Aes :
               \E b \in buffers \cup {Truncated(n) : n \in Foreign} :
                 ImportKey(f, b, a)
    BY <2>2, ImportKeyKeeps
  <2>3. CASE \E f \in Formats, k \in keys : ExportKey(f, k)
    BY <2>3, ExportKeyKeeps
  <2> QED BY <1>1, <2>1, <2>2, <2>3 DEF KeyNext
<1>2. CASE UseNext
  <2> PICK k \in keys :
        \/ \E a \in {"ECDSA", "AES-CMAC"}, d \in Data :
             Sign(a, k, d) \/ \E s \in Signatures : Verify(a, k, s, d)
        \/ \E q \in keys : DeriveBits(q, k)
        \/ \E p \in Param :
             \/ Decrypt(p, k)
             \/ \E a \in {"AES-GCM", "AES-CTR"}, d \in Data : Encrypt(a, p, k, d)
    BY <1>2 DEF UseNext
  <2>1. ASSUME NEW a \in {"ECDSA", "AES-CMAC"}, NEW d \in Data, Sign(a, k, d)
        PROVE  CryptoInv'
    BY <2>1, SignKeeps
  <2>2. ASSUME NEW a \in {"ECDSA", "AES-CMAC"}, NEW d \in Data,
               NEW s \in Signatures, Verify(a, k, s, d)
        PROVE  CryptoInv'
    BY <2>2, VerifyKeeps
  <2>3. ASSUME NEW q \in keys, DeriveBits(q, k) PROVE CryptoInv'
    BY <2>3, DeriveBitsKeeps
  <2>4. ASSUME NEW p \in Param, Decrypt(p, k) PROVE CryptoInv'
    BY <2>4, DecryptKeeps
  <2>5. ASSUME NEW p \in Param, NEW a \in {"AES-GCM", "AES-CTR"},
               NEW d \in Data, Encrypt(a, p, k, d)
        PROVE  CryptoInv'
    BY <2>5, EncryptKeeps
  <2> QED BY <2>1, <2>2, <2>3, <2>4, <2>5
<1>3. CASE UNCHANGED cryptoVars
  <2>1. KeysAre' /\ BuffersAre'
    BY <1>3 DEF cryptoVars, KeysAre, BuffersAre, CryptoInv
  <2>2. Outcome' BY <1>3, SameOutcome DEF cryptoVars, CryptoInv
  <2> QED BY <2>1, <2>2 DEF CryptoInv
<1> QED BY <1>1, <1>2, <1>3 DEF CryptoNext

-----------------------------------------------------------------------------
(***************************************************************************)
(* For any keys and messages CryptoInv holds in every state of             *)
(* crypto.subtle.                                                          *)
(***************************************************************************)
THEOREM CryptoInvariant == CryptoSpec => []CryptoInv
BY CryptoInitially, CryptoInvKept, PTL DEF CryptoSpec

(***************************************************************************)
(* However a key came in, generated, imported in any format or exported    *)
(* before and imported again, it is the raw value of what it is of.        *)
(***************************************************************************)
THEOREM CryptoKeysAreNative == CryptoSpec => []KeysAreNative
<1>1. CryptoInv => KeysAreNative BY DEF CryptoInv, KeysAre, KeyIs, KeysAreNative
<1> QED BY <1>1, CryptoInvariant, PTL

(***************************************************************************)
(* Whatever exportKey returns is an encoding the standards define for that *)
(* key.                                                                    *)
(***************************************************************************)
THEOREM CryptoExportsAreStandard == CryptoSpec => []ExportsAreStandard
<1>1. CryptoInv => ExportsAreStandard
  BY DEF CryptoInv, BuffersAre, BufferIs, ExportsAreStandard
<1> QED BY <1>1, CryptoInvariant, PTL

(***************************************************************************)
(* sign and deriveBits give the standard's bytes for a key of the right    *)
(* type and throw for any other.                                           *)
(***************************************************************************)
THEOREM CryptoOutputsAreStandard == CryptoSpec => []OutputsAreStandard
<1>1. CryptoInv => OutputsAreStandard BY DEF CryptoInv, Outcome
<1> QED BY <1>1, CryptoInvariant, PTL

(***************************************************************************)
(* verify throws only for a key of the wrong type, is true of a CMAC only  *)
(* for the one of this data under this key, and with ECDSA is true if and  *)
(* only if the first 64 bytes are this key's signature of this data: what  *)
(* follows them is never looked at.  The signatures handed to it are those *)
(* that any key makes, as they are and with more behind them.              *)
(***************************************************************************)
THEOREM CryptoVerifyIsRight == CryptoSpec => []VerifyIsRight
<1>1. CryptoInv => VerifyIsRight BY DEF CryptoInv, Outcome
<1> QED BY <1>1, CryptoInvariant, PTL

(***************************************************************************)
(* AES-GCM: what encrypt made, decrypt turns back into the text under the  *)
(* same key and vector and refuses under any other.                        *)
(***************************************************************************)
THEOREM CryptoDecryptsAesGcm == CryptoSpec => []DecryptsAesGcm
<1>1. CryptoInv => DecryptsAesGcm BY DEF CryptoInv, Outcome
<1> QED BY <1>1, CryptoInvariant, PTL

(***************************************************************************)
(* What the run webcrypto_ctr finds for one key holds for all: no AES-CTR  *)
(* ciphertext can be decrypted, the native takes the length for the        *)
(* counter and finds no bytes in it.                                       *)
(***************************************************************************)
THEOREM CryptoCtrAlwaysThrows ==
  CryptoSpec => [](result.op = "decrypt" /\ result.of.algorithm = "AES-CTR"
                     => result.out = Throws)
<1> DEFINE Refused == result.op = "decrypt" /\ result.of.algorithm = "AES-CTR"
                        => result.out = Throws
<1>1. CryptoInit => Refused BY DEF CryptoInit, NoResult
<1>2. Refused /\ [CryptoNext]_cryptoVars => Refused'
  <2> SUFFICES ASSUME Refused, [CryptoNext]_cryptoVars PROVE Refused'
    OBVIOUS
  <2>1. ASSUME NEW p, NEW k, Decrypt(p, k) PROVE Refused'
    <3> DEFINE length == Counter(p)
               counter == Number(64)
    <3>1. BufferSize(counter) = 0 BY DEF BufferSize, Number
    <3> HIDE DEF length, counter
    <3>2. ASSUME NEW raw, NEW cipher
          PROVE  NativeCtrDecrypt(length, counter, raw, cipher) = Throws
      BY <3>1 DEF NativeCtrDecrypt
    <3>3. NativeCtrDecrypt(Counter(p), Number(64), k.raw, result.out) = Throws
      BY <3>2 DEF length, counter
    <3>4. /\ result'.of = result
          /\ result.algorithm = "AES-GCM" \/ result'.out = Throws
      BY <2>1, <3>3 DEF Decrypt
    <3> QED BY <3>4
  <2>2. CASE UNCHANGED result BY <2>2
  <2>3. CASE result'.op # "decrypt" BY <2>3
  <2>4. \/ UNCHANGED result \/ result'.op # "decrypt"
        \/ \E p, k : Decrypt(p, k)
    BY DEF CryptoNext, KeyNext, UseNext, cryptoVars, GenerateKey, ImportKey,
       ExportKey, Sign, Verify, DeriveBits, Encrypt
  <2> QED BY <2>1, <2>2, <2>3, <2>4
<1> QED BY <1>1, <1>2, PTL DEF CryptoSpec
=============================================================================
