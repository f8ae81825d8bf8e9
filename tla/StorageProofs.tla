--------------------------- MODULE StorageProofs ---------------------------
(***************************************************************************)
(* The two ways to storage, the programmer's flash chip and the library's  *)
(* mass storage class.  Of the first: the chip sees the requests of the    *)
(* host and nothing else, whatever the sizes of headers, buffers and       *)
(* packets are, wherever packets begin and end, and however many requests  *)
(* are under way; and its port is used only while it is selected.  Of the  *)
(* second: REQUEST SENSE explains every command that failed, whatever the  *)
(* commands, their lengths and the sizes of blocks and buffers are.        *)
(***************************************************************************)
EXTENDS NandRequests, MassStorage, SequenceTheorems, TLAPS

Byte == [req : Nat, part : {"header", "cmd", "addr", "data", "read", "junk"}, n : Int]
----------------------------------------------------------------------------
(***************************************************************************)
(* Sequences of bytes that are put together and taken apart.               *)
(***************************************************************************)
\* Concatenation under a name of its own, of which proofs use only what the
\* following lemmas say.
s ++ t == s \o t

LEMMA Regroup == \A s, t, c \in Seq(Byte) : s ++ (t ++ c) = (s ++ t) ++ c
  BY ConcatAssociative DEF ++

LEMMA Joined ==
  \A s, t \in Seq(Byte) : s ++ t \in Seq(Byte) /\ Len(s ++ t) = Len(s) + Len(t)
  BY ConcatProperties DEF ++

LEMMA NoneBefore == <<>> \in Seq(Byte) /\ \A s \in Seq(Byte) : <<>> ++ s = s /\ s ++ <<>> = s
  BY ConcatEmptySeq DEF ++

LEMMA TwoParts ==
  ASSUME NEW p \in Seq(Byte), NEW q \in Seq(Byte), NEW s, s = p ++ q
  PROVE  /\ s \in Seq(Byte) /\ Len(s) = Len(p) + Len(q) /\ Len(p) \in Nat /\ Len(q) \in Nat
         /\ SubSeq(s, 1, Len(p)) = p /\ SubSeq(s, Len(p) + 1, Len(s)) = q
<1>1. /\ s \in Seq(Byte) /\ Len(p) \in Nat /\ Len(q) \in Nat /\ Len(s) = Len(p) + Len(q)
      /\ s = p \o q
  BY ConcatProperties DEF ++
<1>2. SubSeq(p, 1, Len(p)) = p /\ SubSeq(q, 1, Len(q)) = q
  BY SubSeqFull
<1>3. SubSeq(s, 1, Len(p)) = p
  <2>1. CASE Len(p) = 0
    BY <1>1, <2>1, SubSeqEmpty, EmptySeq
  <2>2. CASE Len(p) # 0
    <3>1. 1 \in 1..Len(p) /\ Len(p) \in 1..Len(p)
      BY <1>1, <2>2
    <3> QED BY <1>1, <1>2, <3>1, SubSeqOfConcat1
  <2> QED BY <2>1, <2>2
<1>4. SubSeq(s, Len(p) + 1, Len(s)) = q
  <2>1. CASE Len(q) = 0
    <3>1. Len(s) < Len(p) + 1 /\ Len(p) + 1 \in Int /\ Len(s) \in Int
      BY <1>1, <2>1
    <3> QED BY <2>1, <3>1, SubSeqEmpty, EmptySeq
  <2>2. CASE Len(q) # 0
    <3>1. /\ Len(p) + 1 \in Len(p)+1..Len(p)+Len(q)
          /\ Len(p) + Len(q) \in Len(p)+1..Len(p)+Len(q)
          /\ Len(p) + 1 - Len(p) = 1 /\ Len(p) + Len(q) - Len(p) = Len(q)
      BY <1>1, <2>2
    <3> QED BY <1>1, <1>2, <3>1, SubSeqOfConcat2
  <2> QED BY <2>1, <2>2
<1> QED BY <1>1, <1>3, <1>4

\* The first n bytes of a queue and the others.
LEMMA Halves ==
  ASSUME NEW s \in Seq(Byte), NEW n \in Nat, n <= Len(s)
  PROVE  /\ SubSeq(s, 1, n) \in Seq(Byte) /\ Len(SubSeq(s, 1, n)) = n
         /\ Drop(s, n) \in Seq(Byte) /\ s = SubSeq(s, 1, n) ++ Drop(s, n)
         /\ \A i \in 1..n : SubSeq(s, 1, n)[i] = s[i]
<1> DEFINE p == SubSeq(s, 1, n)
           q == SubSeq(s, n + 1, Len(s))
<1>1. Len(s) \in Nat /\ \A i \in 1..Len(s) : s[i] \in Byte
  OBVIOUS
<1>2. p \in Seq(Byte) /\ Len(p) = n /\ \A i \in 1..n : p[i] = s[i]
  <2>1. \A i \in 1..n : s[i] \in Byte
    BY <1>1
  <2>2. /\ p \in Seq(Byte) /\ Len(p) = (IF 1 <= n THEN n - 1 + 1 ELSE 0)
        /\ \A i \in 1..n-1+1 : p[i] = s[1+i-1]
    BY <2>1, SubSeqProperties
  <2>3. n - 1 + 1 = n /\ \A i \in 1..n : 1+i-1 = i
    OBVIOUS
  <2> QED BY <2>2, <2>3
<1>3. q \in Seq(Byte) /\ Len(q) = Len(s) - n /\ \A i \in 1..Len(s)-n : q[i] = s[n+i]
  <2>1. \A i \in n+1..Len(s) : s[i] \in Byte
    BY <1>1
  <2>2. n + 1 \in Int /\ Len(s) \in Int
    BY <1>1
  <2>3. /\ q \in Seq(Byte) /\ Len(q) = (IF n + 1 <= Len(s) THEN Len(s) - (n + 1) + 1 ELSE 0)
        /\ \A i \in 1..Len(s)-(n+1)+1 : q[i] = s[(n+1)+i-1]
    BY <2>1, <2>2, SubSeqProperties
  <2> DEFINE m == Len(s) - n
  <2>4. Len(s) - (n + 1) + 1 = m /\ m \in Nat
    BY <1>1
  <2>5. \A i \in 1..m : (n+1)+i-1 = n+i
    BY <2>4
  <2>6. (IF n + 1 <= Len(s) THEN Len(s) - (n + 1) + 1 ELSE 0) = m
    BY <1>1
  <2> HIDE DEF m
  <2>7. \A i \in 1..m : q[i] = s[(n+1)+i-1]
    BY <2>3, <2>4
  <2>8. \A i \in 1..m : q[i] = s[n+i]
    BY <2>5, <2>7
  <2> QED BY <2>3, <2>6, <2>8 DEF m
<1> HIDE DEF p, q
<1>4. /\ p \o q \in Seq(Byte) /\ Len(p \o q) = Len(s)
      /\ \A i \in 1..Len(s) : (p \o q)[i] = IF i <= n THEN p[i] ELSE q[i - n]
  <2>1. /\ p \o q \in Seq(Byte) /\ Len(p \o q) = Len(p) + Len(q)
        /\ \A i \in 1..Len(p)+Len(q) : (p \o q)[i] = IF i <= Len(p) THEN p[i] ELSE q[i - Len(p)]
    BY <1>2, <1>3, ConcatProperties
  <2>2. Len(p) = n /\ Len(p) + Len(q) = Len(s)
    BY <1>1, <1>2, <1>3
  <2> QED BY <2>1, <2>2
<1>5. ASSUME NEW i \in 1..Len(s) PROVE s[i] = (p \o q)[i]
  <2>1. CASE i <= n
    <3>1. i \in 1..n
      BY <2>1
    <3> QED BY <1>2, <1>4, <1>5, <2>1, <3>1
  <2>2. CASE ~(i <= n)
    <3>1. i - n \in 1..Len(s)-n /\ n + (i - n) = i
      BY <1>1, <2>2
    <3> QED BY <1>3, <1>4, <1>5, <2>2, <3>1
  <2> QED BY <2>1, <2>2
<1>6. s = p \o q
  BY <1>1, <1>4, <1>5, SeqEqual
<1> QED BY <1>2, <1>3, <1>6 DEF p, q, Drop, ++

\* A queue that begins with t, in two places.
LEMMA TakeFirst ==
  ASSUME NEW f \in Seq(Byte), NEW g \in Seq(Byte), NEW t \in Seq(Byte), NEW r \in Seq(Byte),
         f ++ g = t ++ r, NEW n, n = Len(t), n <= Len(f)
  PROVE  SubSeq(f, 1, n) = t /\ Drop(f, n) \in Seq(Byte) /\ Drop(f, n) ++ g = r
<1> DEFINE p == SubSeq(f, 1, n)
           q == Drop(f, n)
<1>1. n \in Nat
  OBVIOUS
<1>2. p \in Seq(Byte) /\ Len(p) = n /\ q \in Seq(Byte) /\ f = p ++ q
  BY <1>1, Halves
<1> HIDE DEF p, q
<1>3. q ++ g \in Seq(Byte) /\ f ++ g = p ++ (q ++ g)
  <2>1. p \in Seq(Byte) /\ q \in Seq(Byte)
    BY <1>2
  <2>2. p ++ (q ++ g) = (p ++ q) ++ g
    BY <2>1, Regroup
  <2>3. q ++ g \in Seq(Byte)
    BY <2>1, Joined
  <2> QED BY <1>2, <2>2, <2>3
<1> DEFINE whole == f ++ g
           rest == q ++ g
<1>4. whole = p ++ rest /\ whole = t ++ r /\ rest \in Seq(Byte)
  BY <1>3
<1> HIDE DEF whole, rest
<1>5. SubSeq(whole, 1, Len(p)) = p /\ SubSeq(whole, Len(p) + 1, Len(whole)) = rest
  <2>1. p \in Seq(Byte) /\ rest \in Seq(Byte) /\ whole = p ++ rest
    BY <1>2, <1>4
  <2> QED BY <2>1, TwoParts, ZenonT(60)
<1>6. SubSeq(whole, 1, Len(t)) = t /\ SubSeq(whole, Len(t) + 1, Len(whole)) = r
  <2>1. whole = t ++ r
    BY <1>4
  <2> QED BY <2>1, TwoParts, ZenonT(60)
<1> QED BY <1>2, <1>5, <1>6 DEF p, q, rest
----------------------------------------------------------------------------
(***************************************************************************)
(* The last n of the total bytes of one part of request k.                 *)
(***************************************************************************)
Left(k, part, total, n) == [i \in 1..n |-> [req |-> k, part |-> part, n |-> total - n + i]]

Parts == {"header", "cmd", "addr", "data", "read"}

LEMMA LeftFacts ==
  ASSUME NEW k \in Nat, NEW part \in Parts, NEW total \in Int, NEW n \in Nat
  PROVE  /\ Left(k, part, total, n) \in Seq(Byte) /\ Len(Left(k, part, total, n)) = n
         /\ \A i \in 1..n : Left(k, part, total, n)[i] = [req |-> k, part |-> part, n |-> total - n + i]
<1>1. \A i \in 1..n : [req |-> k, part |-> part, n |-> total - n + i] \in Byte
  BY DEF Byte, Parts
<1>2. Left(k, part, total, n) \in [1..n -> Byte]
  BY <1>1 DEF Left
<1>3. Left(k, part, total, n) \in Seq(Byte)
  BY <1>2, IsASeq DEF Left
<1> QED BY <1>2, <1>3 DEF Left

LEMMA LeftNone == \A k, part, total : Left(k, part, total, 0) = <<>>
  BY DEF Left

\* The first m of them and the others.
LEMMA LeftSplit ==
  ASSUME NEW k \in Nat, NEW part \in Parts, NEW total \in Int, NEW n \in Nat, NEW m \in Nat,
         m <= n
  PROVE  Left(k, part, total, n)
           = Left(k, part, total - (n - m), m) ++ Left(k, part, total, n - m)
<1> DEFINE s == Left(k, part, total, n)
           p == Left(k, part, total - (n - m), m)
           q == Left(k, part, total, n - m)
<1>1. n - m \in Nat /\ total - (n - m) \in Int
  OBVIOUS
<1>2. /\ s \in Seq(Byte) /\ Len(s) = n
      /\ \A i \in 1..n : s[i] = [req |-> k, part |-> part, n |-> total - n + i]
  BY LeftFacts
<1>3. /\ p \in Seq(Byte) /\ Len(p) = m
      /\ \A i \in 1..m : p[i] = [req |-> k, part |-> part, n |-> (total - (n - m)) - m + i]
  BY <1>1, LeftFacts
<1>4. /\ q \in Seq(Byte) /\ Len(q) = n - m
      /\ \A i \in 1..n-m : q[i] = [req |-> k, part |-> part, n |-> total - (n - m) + i]
  BY <1>1, LeftFacts
<1> HIDE DEF s, p, q
<1>5. /\ p \o q \in Seq(Byte) /\ Len(p \o q) = n
      /\ \A i \in 1..n : (p \o q)[i] = IF i <= m THEN p[i] ELSE q[i - m]
  <2>1. /\ p \o q \in Seq(Byte) /\ Len(p \o q) = Len(p) + Len(q)
        /\ \A i \in 1..Len(p)+Len(q) : (p \o q)[i] = IF i <= Len(p) THEN p[i] ELSE q[i - Len(p)]
    BY <1>3, <1>4, ConcatProperties
  <2>2. Len(p) = m /\ Len(p) + Len(q) = n
    BY <1>3, <1>4
  <2> QED BY <2>1, <2>2
<1>6. ASSUME NEW i \in 1..n PROVE s[i] = (p \o q)[i]
  <2>1. CASE i <= m
    <3>1. i \in 1..m /\ (total - (n - m)) - m + i = total - n + i
      BY <2>1
    <3> QED BY <1>2, <1>3, <1>5, <1>6, <2>1, <3>1
  <2>2. CASE ~(i <= m)
    <3>1. i - m \in 1..n-m /\ total - (n - m) + (i - m) = total - n + i
      BY <2>2
    <3> QED BY <1>2, <1>4, <1>5, <1>6, <2>2, <3>1
  <2> QED BY <2>1, <2>2
<1>7. s = p \o q
  BY <1>2, <1>5, <1>6, SeqEqual
<1> QED BY <1>7 DEF s, p, q, ++

LEMMA PartIsLeft == \A k, part : \A n \in Nat : Part(k, part, n) = Left(k, part, n, n)
<1> SUFFICES ASSUME NEW k, NEW part, NEW n \in Nat PROVE Part(k, part, n) = Left(k, part, n, n)
  OBVIOUS
<1>1. \A i \in 1..n : n - n + i = i
  OBVIOUS
<1> QED BY <1>1 DEF Part, Left

LEMMA PartFacts ==
  ASSUME NEW k \in Nat, NEW part \in Parts, NEW n \in Nat
  PROVE  /\ Part(k, part, n) \in Seq(Byte) /\ Len(Part(k, part, n)) = n
         /\ Part(k, part, n) = Left(k, part, n, n)
<1>1. n \in Int /\ Part(k, part, n) = Left(k, part, n, n)
  BY PartIsLeft
<1> QED BY <1>1, LeftFacts
----------------------------------------------------------------------------
(***************************************************************************)
(* h is what the host sends for the requests of a from number j on, and c  *)
(* what the chip is to see for them.                                       *)
(***************************************************************************)
ToCome(a, j, h, c) ==
  \E fh, fc \in [1..Len(a)+1 -> Seq(Byte)] :
    /\ fh[Len(a)+1] = <<>> /\ fc[Len(a)+1] = <<>>
    /\ \A i \in j..Len(a) : /\ fh[i] = HostBytes(i, a[i]) ++ fh[i+1]
                            /\ fc[i] = ChipBytes(i, a[i]) ++ fc[i+1]
    /\ h = fh[j] /\ c = fc[j]

Shape == [addr : Nat, write : 0..WordSize-1, read : 0..WordSize-1]

LEMMA ShapeType == Shapes \subseteq Shape
  BY ShapeAssumption DEF Shape

LEMMA RequestBytes ==
  ASSUME NEW k \in Nat, NEW s \in Shape
  PROVE  HostBytes(k, s) \in Seq(Byte) /\ ChipBytes(k, s) \in Seq(Byte)
<1>0. s.addr \in Nat /\ s.write \in Nat /\ s.read \in Nat /\ HdrSize \in Nat
  BY SizeAssumption DEF Shape
<1>1. ASSUME NEW part \in Parts, NEW n \in Nat PROVE Part(k, part, n) \in Seq(Byte)
  <2>1. n \in Int /\ Part(k, part, n) = Left(k, part, n, n)
    BY PartIsLeft
  <2> QED BY <2>1, LeftFacts
<1> DEFINE header == Part(k, "header", HdrSize)
           cmd == Part(k, "cmd", 1)
           addr == Part(k, "addr", s.addr)
           data == Part(k, "data", s.write)
           read == Part(k, "read", s.read)
<1>2. /\ header \in Seq(Byte) /\ cmd \in Seq(Byte) /\ addr \in Seq(Byte) /\ data \in Seq(Byte)
      /\ read \in Seq(Byte)
  BY <1>0, <1>1 DEF Parts
<1>3. HostBytes(k, s) = (header ++ addr) ++ data /\ ChipBytes(k, s) = ((cmd ++ addr) ++ data) ++ read
  BY DEF HostBytes, ChipBytes, ++
<1> HIDE DEF header, cmd, addr, data, read
<1>4. (header ++ addr) ++ data \in Seq(Byte)
  BY <1>2, Joined
<1>5. ((cmd ++ addr) ++ data) ++ read \in Seq(Byte)
  BY <1>2, Joined
<1> QED BY <1>3, <1>4, <1>5

LEMMA ToComeType ==
  ASSUME NEW a \in Seq(Shape), NEW j \in 1..Len(a)+1, NEW h, NEW c, ToCome(a, j, h, c)
  PROVE  h \in Seq(Byte) /\ c \in Seq(Byte)
  BY DEF ToCome

LEMMA NothingToCome == ToCome(<<>>, 1, <<>>, <<>>)
<1> DEFINE f == [i \in 1..Len(<<>>)+1 |-> <<>>]
<1>1. f \in [1..Len(<<>>)+1 -> Seq(Byte)] /\ f[1] = <<>> /\ Len(<<>>) = 0
  BY NoneBefore
<1>2. \A i \in 1..Len(<<>>) : FALSE
  BY <1>1
<1> HIDE DEF f
<1> QED BY <1>1, <1>2 DEF ToCome

\* The next request.
LEMMA NextToCome ==
  ASSUME NEW a \in Seq(Shape), NEW j \in 1..Len(a), NEW h, NEW c, ToCome(a, j, h, c)
  PROVE  \E h2, c2 \in Seq(Byte) : /\ h = HostBytes(j, a[j]) ++ h2 /\ c = ChipBytes(j, a[j]) ++ c2
                                   /\ ToCome(a, j + 1, h2, c2)
<1>1. PICK fh, fc \in [1..Len(a)+1 -> Seq(Byte)] :
        /\ fh[Len(a)+1] = <<>> /\ fc[Len(a)+1] = <<>>
        /\ \A i \in j..Len(a) : /\ fh[i] = HostBytes(i, a[i]) ++ fh[i+1]
                                /\ fc[i] = ChipBytes(i, a[i]) ++ fc[i+1]
        /\ h = fh[j] /\ c = fc[j]
  BY DEF ToCome
<1>2. Len(a) \in Nat /\ j \in j..Len(a) /\ j + 1 \in 1..Len(a)+1
  OBVIOUS
<1>3. h = HostBytes(j, a[j]) ++ fh[j+1] /\ c = ChipBytes(j, a[j]) ++ fc[j+1]
  BY <1>1, <1>2
<1>4. fh[j+1] \in Seq(Byte) /\ fc[j+1] \in Seq(Byte)
  BY <1>1, <1>2
<1>5. ToCome(a, j + 1, fh[j+1], fc[j+1])
  <2>1. \A i \in j+1..Len(a) : i \in j..Len(a)
    BY <1>2
  <2> QED BY <1>1, <2>1 DEF ToCome
<1> QED BY <1>3, <1>4, <1>5

\* When there are bytes to come, there is a next request.
LEMMA SomeToCome ==
  ASSUME NEW a \in Seq(Shape), NEW j \in 1..Len(a)+1, NEW h, NEW c, ToCome(a, j, h, c), h # <<>>
  PROVE  j \in 1..Len(a)
<1>1. Len(a) \in Nat
  OBVIOUS
<1>2. j # Len(a) + 1
  BY DEF ToCome
<1> QED BY <1>1, <1>2

\* One more request.
LEMMA MoreToCome ==
  ASSUME NEW a \in Seq(Shape), NEW j \in 1..Len(a)+1, NEW h, NEW c, ToCome(a, j, h, c),
         NEW s \in Shape
  PROVE  ToCome(Append(a, s), j, h ++ HostBytes(Len(a) + 1, s), c ++ ChipBytes(Len(a) + 1, s))
<1> DEFINE b == Append(a, s)
           l == Len(a) + 1
           hb == HostBytes(l, s)
           cb == ChipBytes(l, s)
<1>1. Len(a) \in Nat /\ l \in Nat /\ Len(b) = l /\ b[l] = s /\ \A i \in 1..Len(a) : b[i] = a[i]
  OBVIOUS
<1>2. hb \in Seq(Byte) /\ cb \in Seq(Byte)
  BY <1>1, RequestBytes
<1>3. PICK fh, fc \in [1..l -> Seq(Byte)] :
        /\ fh[l] = <<>> /\ fc[l] = <<>>
        /\ \A i \in j..Len(a) : /\ fh[i] = HostBytes(i, a[i]) ++ fh[i+1]
                                /\ fc[i] = ChipBytes(i, a[i]) ++ fc[i+1]
        /\ h = fh[j] /\ c = fc[j]
  BY DEF ToCome
<1> DEFINE gh == [i \in 1..l+1 |-> IF i <= l THEN fh[i] ++ hb ELSE <<>>]
           gc == [i \in 1..l+1 |-> IF i <= l THEN fc[i] ++ cb ELSE <<>>]
<1> HIDE DEF hb, cb, b
<1>4. ASSUME NEW i \in 1..l PROVE fh[i] ++ hb \in Seq(Byte) /\ fc[i] ++ cb \in Seq(Byte)
  <2>1. fh[i] \in Seq(Byte) /\ fc[i] \in Seq(Byte)
    BY <1>3, <1>4
  <2> QED BY <1>2, <2>1, Joined
<1>5. gh \in [1..l+1 -> Seq(Byte)] /\ gc \in [1..l+1 -> Seq(Byte)]
  <2>1. \A i \in 1..l+1 : i <= l => i \in 1..l
    BY <1>1
  <2> QED BY <1>4, <2>1, NoneBefore
<1>6. gh[l+1] = <<>> /\ gc[l+1] = <<>> /\ \A i \in 1..l : gh[i] = fh[i] ++ hb /\ gc[i] = fc[i] ++ cb
  BY <1>1
<1> HIDE DEF gh, gc
<1>7. ASSUME NEW i \in j..l
      PROVE  gh[i] = HostBytes(i, b[i]) ++ gh[i+1] /\ gc[i] = ChipBytes(i, b[i]) ++ gc[i+1]
  <2>1. CASE i = l
    <3>0. i \in 1..l /\ fh[i] = <<>> /\ fc[i] = <<>>
      BY <1>1, <1>3, <2>1
    <3>1. gh[i] = <<>> ++ hb /\ gc[i] = <<>> ++ cb /\ gh[i+1] = <<>> /\ gc[i+1] = <<>>
      BY <1>6, <2>1, <3>0
    <3>2. HostBytes(i, b[i]) = hb /\ ChipBytes(i, b[i]) = cb
      BY <1>1, <2>1 DEF hb, cb
    <3> QED BY <1>2, <3>1, <3>2, NoneBefore
  <2>2. CASE i # l
    <3> DEFINE x == fh[i+1]
               y == fc[i+1]
               hs == HostBytes(i, a[i])
               cs == ChipBytes(i, a[i])
    <3>0. i \in Int /\ j \in Int /\ 1 <= j /\ j <= i /\ i <= Len(a)
      BY <1>1, <1>7, <2>2
    <3>1. i \in 1..Len(a) /\ i \in j..Len(a) /\ i \in 1..l /\ i + 1 \in 1..l /\ i \in Nat
      BY <1>1, <3>0
    <3>2. fh[i] = hs ++ x /\ fc[i] = cs ++ y
      BY <1>3, <3>1
    <3>3. gh[i] = (hs ++ x) ++ hb /\ gc[i] = (cs ++ y) ++ cb /\ gh[i+1] = x ++ hb /\ gc[i+1] = y ++ cb
      BY <1>6, <3>1, <3>2
    <3>4. x \in Seq(Byte) /\ y \in Seq(Byte) /\ a[i] \in Shape
      <4>1. a[i] \in Shape
        BY <3>1
      <4>2. fh[i+1] \in Seq(Byte) /\ fc[i+1] \in Seq(Byte)
        BY <1>3, <3>1
      <4> QED BY <4>1, <4>2
    <3>5. hs \in Seq(Byte) /\ cs \in Seq(Byte)
      BY <3>1, <3>4, RequestBytes
    <3>6. HostBytes(i, b[i]) = hs /\ ChipBytes(i, b[i]) = cs
      BY <1>1, <3>1
    <3> HIDE DEF x, y, hs, cs
    <3>7. (hs ++ x) ++ hb = hs ++ (x ++ hb)
      <4>1. hs \in Seq(Byte) /\ x \in Seq(Byte) /\ hb \in Seq(Byte)
        BY <1>2, <3>4, <3>5
      <4> QED BY <4>1, Regroup
    <3>8. (cs ++ y) ++ cb = cs ++ (y ++ cb)
      BY <1>2, <3>4, <3>5, Regroup
    <3> QED BY <3>3, <3>6, <3>7, <3>8
  <2> QED BY <2>1, <2>2
<1>8. j \in 1..l /\ h ++ hb = gh[j] /\ c ++ cb = gc[j]
  BY <1>1, <1>3, <1>6
<1>9. ToCome(b, j, h ++ hb, c ++ cb)
  <2>1. Len(b) = l
    BY <1>1
  <2> HIDE DEF l
  <2> QED BY <1>5, <1>6, <1>7, <1>8, <2>1 DEF ToCome
<1> QED BY <1>9 DEF b, hb, cb
----------------------------------------------------------------------------
(***************************************************************************)
(* The inductive invariant.  While no request was invalid, too long or cut *)
(* off: the first k requests have been read, and of the last one of them   *)
(* the chip still waits for the last bytes of its address and its data,    *)
(* which are the next in the queue, and for its reads.                     *)
(***************************************************************************)
AddrLeft(k)  == Left(k, "addr", asked[k].addr, nand_state.addr_bytes)
DataLeft(k)  == Left(k, "data", asked[k].write, nand_state.writelen)
ReadLeft(k)  == Left(k, "read", asked[k].read, nand_state.readlen)
InputLeft(k) == AddrLeft(k) ++ DataLeft(k)

InStep(k, h, c) ==
  /\ k \in 0..Len(asked) /\ ToCome(asked, k + 1, h, c)
  /\ ~ExpectNandreq => k > 0 /\ nand_state.cmd = k
  /\ fifo ++ hostLeft = InputLeft(k) ++ h
  /\ due = chip ++ ((InputLeft(k) ++ ReadLeft(k)) ++ c)

Types ==
  /\ fifo \in Seq(Byte) /\ hostLeft \in Seq(Byte) /\ due \in Seq(Byte) /\ chip \in Seq(Byte)
  /\ asked \in Seq(Shape)
  /\ nand_state \in [cmd : Nat, addr_bytes : Nat, writelen : Nat, readlen : Nat]

\* Lengths whose sum does not wrap, as those of all valid requests.
Small  == nand_state.addr_bytes <= AddrLimit /\ nand_state.writelen < WordSize \div 2
Proper == \A i \in 1..Len(asked) : Valid(asked[i]) /\ ~TooLong(asked[i])

Orderly == Types /\ Small /\ Proper /\ \E k \in Nat, h, c \in Seq(Byte) : InStep(k, h, c)

Port == /\ ~ExpectNandreq => open
        /\ pc \in {"header", "discard"} => ExpectNandreq

IInv == Port /\ (clean => Orderly)

LEMMA InitInv == Init => IInv
<1> SUFFICES ASSUME Init PROVE IInv
  OBVIOUS
<1>1. Types /\ Small /\ Proper /\ Port
  <2>1. Types
    BY NoneBefore DEF Init, Types
  <2>2. Small
    BY SizeAssumption DEF Init, Small
  <2>3. Proper
    BY DEF Init, Proper
  <2>4. Port
    BY DEF Init, Port, ExpectNandreq
  <2> QED BY <2>1, <2>2, <2>3, <2>4
<1>2. InStep(0, <<>>, <<>>)
  <2>1. AddrLeft(0) = <<>> /\ DataLeft(0) = <<>> /\ ReadLeft(0) = <<>>
    BY LeftNone DEF Init, AddrLeft, DataLeft, ReadLeft
  <2>2. InputLeft(0) = <<>> /\ <<>> ++ <<>> = <<>>
    BY <2>1, NoneBefore DEF InputLeft
  <2>3. 0 \in 0..Len(asked) /\ ToCome(asked, 0 + 1, <<>>, <<>>)
    BY NothingToCome DEF Init
  <2>4. ExpectNandreq
    BY DEF Init, ExpectNandreq
  <2>5. fifo = <<>> /\ hostLeft = <<>> /\ due = <<>> /\ chip = <<>>
    BY DEF Init
  <2> QED BY <2>1, <2>2, <2>3, <2>4, <2>5 DEF InStep
<1>3. Orderly
  BY <1>1, <1>2, NoneBefore DEF Orderly
<1> QED BY <1>1, <1>3 DEF IInv

LEMMA LeftTypes ==
  ASSUME Types, NEW k \in 0..Len(asked), ~ExpectNandreq => k > 0
  PROVE  /\ k \in Nat /\ AddrLeft(k) \in Seq(Byte) /\ DataLeft(k) \in Seq(Byte)
         /\ ReadLeft(k) \in Seq(Byte) /\ InputLeft(k) \in Seq(Byte)
         /\ InputLeft(k) ++ ReadLeft(k) \in Seq(Byte)
         /\ ExpectNandreq => /\ AddrLeft(k) = <<>> /\ DataLeft(k) = <<>> /\ ReadLeft(k) = <<>>
                             /\ InputLeft(k) = <<>>
<1>1. k \in Nat /\ Len(asked) \in Nat
  BY DEF Types
<1>2. CASE ExpectNandreq
  <2>1. AddrLeft(k) = <<>> /\ DataLeft(k) = <<>> /\ ReadLeft(k) = <<>>
    BY <1>2, LeftNone DEF AddrLeft, DataLeft, ReadLeft, ExpectNandreq
  <2> QED BY <1>1, <2>1, NoneBefore DEF InputLeft
<1>3. CASE ~ExpectNandreq
  <2>1. asked[k] \in Shape
    BY <1>1, <1>3 DEF Types
  <2>2. asked[k].addr \in Int /\ asked[k].write \in Int /\ asked[k].read \in Int
    BY <2>1 DEF Shape
  <2>3. nand_state.addr_bytes \in Nat /\ nand_state.writelen \in Nat /\ nand_state.readlen \in Nat
    BY DEF Types
  <2>4. AddrLeft(k) \in Seq(Byte) /\ DataLeft(k) \in Seq(Byte) /\ ReadLeft(k) \in Seq(Byte)
    BY <1>1, <2>2, <2>3, LeftFacts DEF AddrLeft, DataLeft, ReadLeft, Parts
  <2>5. InputLeft(k) \in Seq(Byte)
    BY <2>4, Joined DEF InputLeft
  <2>6. InputLeft(k) ++ ReadLeft(k) \in Seq(Byte)
    BY <2>4, <2>5, Joined
  <2> QED BY <1>1, <1>3, <2>4, <2>5, <2>6
<1> QED BY <1>2, <1>3

LEMMA MovedAlong ==
  \A x, t, w, r, c \in Seq(Byte) :
    x ++ (((t ++ w) ++ r) ++ c) = (x ++ t) ++ ((w ++ r) ++ c)
<1> SUFFICES ASSUME NEW x \in Seq(Byte), NEW t \in Seq(Byte), NEW w \in Seq(Byte),
                    NEW r \in Seq(Byte), NEW c \in Seq(Byte)
             PROVE  x ++ (((t ++ w) ++ r) ++ c) = (x ++ t) ++ ((w ++ r) ++ c)
  OBVIOUS
<1> DEFINE m == w ++ r
           o == m ++ c
<1>1. m \in Seq(Byte) /\ o \in Seq(Byte)
  BY Joined
<1>2. (t ++ w) ++ r = t ++ m
  BY Regroup
<1> HIDE DEF m
<1>3. (t ++ m) ++ c = t ++ o
  BY <1>1, Regroup
<1> HIDE DEF o
<1>4. x ++ (t ++ o) = (x ++ t) ++ o
  <2>1. x \in Seq(Byte) /\ t \in Seq(Byte) /\ o \in Seq(Byte)
    BY <1>1
  <2> QED BY <2>1, Regroup
<1> QED BY <1>2, <1>3, <1>4 DEF m, o

LEMMA PutBehind ==
  \A x, y, c, e \in Seq(Byte) : (x ++ (y ++ c)) ++ e = x ++ (y ++ (c ++ e))
<1> SUFFICES ASSUME NEW x \in Seq(Byte), NEW y \in Seq(Byte), NEW c \in Seq(Byte), NEW e \in Seq(Byte)
             PROVE  (x ++ (y ++ c)) ++ e = x ++ (y ++ (c ++ e))
  OBVIOUS
<1> DEFINE m == y ++ c
<1>1. m \in Seq(Byte)
  BY Joined
<1>2. m ++ e = y ++ (c ++ e)
  BY Regroup
<1> HIDE DEF m
<1>3. (x ++ m) ++ e = x ++ (m ++ e)
  BY <1>1, Regroup
<1> QED BY <1>2, <1>3 DEF m
----------------------------------------------------------------------------
\* Steps that move no byte.
LEMMA NoByteMoves ==
  ASSUME Orderly, UNCHANGED <<fifo, hostLeft, due, chip, asked, nand_state>>
  PROVE  Orderly'
  BY DEF Orderly, Types, Small, Proper, InStep, InputLeft, AddrLeft, DataLeft, ReadLeft,
         ExpectNandreq

\* A new request.
LEMMA NewRequestStep ==
  ASSUME Orderly, NewRequest, clean' PROVE Orderly'
<1>1. PICK s \in Shapes :
        /\ asked' = Append(asked, s)
        /\ hostLeft' = hostLeft ++ HostBytes(Len(asked'), s)
        /\ due' = due ++ ChipBytes(Len(asked'), s)
        /\ Valid(s) /\ ~TooLong(s)
  BY DEF NewRequest, ++
<1>2. UNCHANGED <<fifo, chip, nand_state>>
  BY DEF NewRequest, nandVars
<1>3. PICK k \in Nat, h \in Seq(Byte), c \in Seq(Byte) : InStep(k, h, c)
  BY DEF Orderly
<1> DEFINE l == Len(asked) + 1
           hb == HostBytes(l, s)
           cb == ChipBytes(l, s)
<1>4. /\ Types /\ s \in Shape /\ Len(asked) \in Nat /\ l \in Nat /\ asked \in Seq(Shape)
      /\ k \in 0..Len(asked) /\ (~ExpectNandreq => k > 0)
  <2>1. Types /\ asked \in Seq(Shape)
    BY DEF Orderly, Types
  <2>2. s \in Shape
    BY ShapeType
  <2>3. k \in 0..Len(asked) /\ (~ExpectNandreq => k > 0)
    BY <1>3 DEF InStep
  <2>4. Len(asked) \in Nat /\ l \in Nat
    BY <2>1
  <2> QED BY <2>1, <2>2, <2>3, <2>4
<1>5. Len(asked') = l /\ \A i \in 1..Len(asked) : asked'[i] = asked[i]
  BY <1>1, <1>4
<1>6. asked'[l] = s /\ asked' \in Seq(Shape)
  BY <1>1, <1>4
<1>7. hb \in Seq(Byte) /\ cb \in Seq(Byte)
  BY <1>4, RequestBytes
<1>8. hostLeft' = hostLeft ++ hb /\ due' = due ++ cb
  BY <1>1, <1>5
<1>9. ToCome(asked', k + 1, h ++ hb, c ++ cb)
  <2>1. k + 1 \in 1..Len(asked)+1 /\ ToCome(asked, k + 1, h, c)
    BY <1>3, <1>4 DEF InStep
  <2> QED BY <1>1, <1>4, <2>1, MoreToCome
<1> HIDE DEF hb, cb
<1>10. AddrLeft(k)' = AddrLeft(k) /\ DataLeft(k)' = DataLeft(k) /\ ReadLeft(k)' = ReadLeft(k)
  <2>1. CASE ExpectNandreq
    BY <1>2, <2>1, LeftNone DEF AddrLeft, DataLeft, ReadLeft, ExpectNandreq
  <2>2. CASE ~ExpectNandreq
    <3>1. asked'[k] = asked[k]
      BY <1>4, <1>5, <2>2
    <3> QED BY <1>2, <3>1 DEF AddrLeft, DataLeft, ReadLeft
  <2> QED BY <2>1, <2>2
<1>11. Types'
  <2>1. hostLeft' \in Seq(Byte) /\ due' \in Seq(Byte)
    BY <1>4, <1>7, <1>8, Joined DEF Types
  <2> QED BY <1>2, <1>4, <1>6, <2>1 DEF Types
<1>12. Small'
  BY <1>2 DEF Orderly, Small
<1>13. Proper'
  <2> SUFFICES ASSUME NEW i \in 1..l PROVE Valid(asked'[i]) /\ ~TooLong(asked'[i])
    BY <1>5 DEF Proper, Valid, TooLong, Signed
  <2>1. CASE i = l
    BY <1>1, <1>6, <2>1
  <2>2. CASE i # l
    <3>1. i \in 1..Len(asked)
      BY <1>4, <2>2
    <3> QED BY <1>5, <3>1 DEF Orderly, Proper
  <2> QED BY <2>1, <2>2
<1>14. ASSUME NEW h2 \in Seq(Byte), NEW c2 \in Seq(Byte), h2 = h ++ hb, c2 = c ++ cb
       PROVE  InStep(k, h2, c2)'
  <2> DEFINE in == InputLeft(k)
             both == InputLeft(k) ++ ReadLeft(k)
  <2>1. /\ in \in Seq(Byte) /\ both \in Seq(Byte) /\ chip \in Seq(Byte) /\ fifo \in Seq(Byte)
        /\ hostLeft \in Seq(Byte)
    BY <1>4, LeftTypes DEF Types
  <2>2. fifo ++ hostLeft = in ++ h /\ due = chip ++ (both ++ c)
    BY <1>3 DEF InStep
  <2>3. InputLeft(k)' = in /\ (InputLeft(k) ++ ReadLeft(k))' = both
    BY <1>10 DEF InputLeft
  <2> HIDE DEF in, both
  <2>4. fifo ++ (hostLeft ++ hb) = in ++ (h ++ hb)
    <3>0. fifo \in Seq(Byte) /\ hostLeft \in Seq(Byte) /\ hb \in Seq(Byte) /\ in \in Seq(Byte)
      BY <1>7, <2>1
    <3>1. fifo ++ (hostLeft ++ hb) = (fifo ++ hostLeft) ++ hb
      BY <3>0, Regroup
    <3>2. (in ++ h) ++ hb = in ++ (h ++ hb)
      BY <3>0, Regroup
    <3> QED BY <2>2, <3>1, <3>2
  <2>5. due' = chip ++ (both ++ (c ++ cb))
    <3>1. chip \in Seq(Byte) /\ both \in Seq(Byte) /\ cb \in Seq(Byte)
      BY <1>7, <2>1
    <3>2. (chip ++ (both ++ c)) ++ cb = chip ++ (both ++ (c ++ cb))
      BY <3>1, PutBehind
    <3> QED BY <1>8, <2>2, <3>2
  <2>6. k \in 0..Len(asked')
    BY <1>4, <1>5
  <2>7. (fifo ++ hostLeft)' = InputLeft(k)' ++ h2
    BY <1>2, <1>8, <1>14, <2>3, <2>4
  <2>8. due' = chip' ++ ((InputLeft(k) ++ ReadLeft(k))' ++ c2)
    BY <1>2, <1>14, <2>3, <2>5
  <2>9. ~ExpectNandreq' => k > 0 /\ nand_state'.cmd = k
    BY <1>2, <1>3 DEF InStep, ExpectNandreq
  <2>10. ToCome(asked', k + 1, h2, c2)
    BY <1>9, <1>14
  <2> QED BY <2>6, <2>7, <2>8, <2>9, <2>10 DEF InStep
<1>15. h ++ hb \in Seq(Byte) /\ c ++ cb \in Seq(Byte)
  <2>1. hb \in Seq(Byte) /\ cb \in Seq(Byte)
    BY <1>7
  <2> QED BY <2>1, Joined
<1>16. \E h2, c2 \in Seq(Byte) : InStep(k, h2, c2)'
  BY <1>14, <1>15
<1> QED BY <1>11, <1>12, <1>13, <1>16 DEF Orderly

\* A packet.
LEMMA HostSendsStep ==
  ASSUME Orderly, HostSends PROVE Orderly'
<1>1. PICK n \in 1..SmallerOf(PktSize, Len(hostLeft)) :
        fifo' = fifo ++ SubSeq(hostLeft, 1, n) /\ hostLeft' = Drop(hostLeft, n)
  BY DEF HostSends, ++
<1>2. UNCHANGED <<due, chip, asked, nand_state>> /\ Types
  BY DEF HostSends, nandVars, Orderly
<1> DEFINE p == SubSeq(hostLeft, 1, n)
           q == Drop(hostLeft, n)
<1>3. n \in Nat /\ n <= Len(hostLeft)
  <2>1. Len(hostLeft) \in Nat /\ PktSize \in Nat
    BY <1>2, SizeAssumption DEF Types
  <2> QED BY <2>1 DEF SmallerOf
<1>4. p \in Seq(Byte) /\ q \in Seq(Byte) /\ hostLeft = p ++ q /\ fifo \in Seq(Byte)
  BY <1>2, <1>3, Halves DEF Types
<1> HIDE DEF p, q
<1>5. fifo' ++ hostLeft' = fifo ++ hostLeft
  <2>1. fifo ++ (p ++ q) = (fifo ++ p) ++ q
    BY <1>4, Regroup
  <2> QED BY <1>1, <1>4, <2>1 DEF p, q
<1>6. Types'
  <2>1. fifo' \in Seq(Byte) /\ hostLeft' \in Seq(Byte)
    BY <1>1, <1>4, Joined DEF p, q
  <2> QED BY <1>2, <2>1 DEF Types
<1>7. \A k \in Nat, h, c \in Seq(Byte) : InStep(k, h, c) => InStep(k, h, c)'
  BY <1>2, <1>5 DEF InStep, InputLeft, AddrLeft, DataLeft, ReadLeft, ExpectNandreq
<1>8. Small' /\ Proper'
  BY <1>2 DEF Orderly, Small, Proper
<1> QED BY <1>6, <1>7, <1>8 DEF Orderly

\* The command of the next request: its header is first in the queue.
LEMMA HeaderStep ==
  ASSUME Orderly, ReadHeader, ExpectNandreq, clean' PROVE Orderly'
<1>1. PICK k \in Nat, h \in Seq(Byte), c \in Seq(Byte) : InStep(k, h, c)
  BY DEF Orderly
<1>2. /\ Types /\ asked \in Seq(Shape) /\ fifo \in Seq(Byte) /\ hostLeft \in Seq(Byte)
      /\ chip \in Seq(Byte) /\ Len(asked) \in Nat
  BY DEF Orderly, Types
<1>3. fifo ++ hostLeft = h /\ due = chip ++ c
  <2>1. k \in 0..Len(asked)
    BY <1>1 DEF InStep
  <2>2. InputLeft(k) = <<>> /\ ReadLeft(k) = <<>>
    BY <1>2, <2>1, LeftTypes
  <2>3. fifo ++ hostLeft = <<>> ++ h /\ due = chip ++ ((<<>> ++ <<>>) ++ c)
    BY <1>1, <2>2 DEF InStep
  <2> QED BY <1>1, <2>3, NoneBefore
<1>4. HdrSize \in Nat /\ HdrSize >= 1 /\ HdrSize <= Len(fifo)
  <2>1. HdrSize \in Nat /\ HdrSize >= 1
    BY SizeAssumption
  <2>2. BytesInUSBBuffer >= HdrSize
    BY DEF ReadHeader
  <2> QED BY <1>2, <2>1, <2>2 DEF BytesInUSBBuffer
<1>5. k + 1 \in 1..Len(asked)
  <2>1. Len(h) = Len(fifo) + Len(hostLeft) /\ Len(fifo) \in Nat /\ Len(hostLeft) \in Nat
    <3>1. fifo \in Seq(Byte) /\ hostLeft \in Seq(Byte)
      BY <1>2
    <3>2. Len(fifo ++ hostLeft) = Len(fifo) + Len(hostLeft)
      BY <3>1, Joined
    <3> QED BY <1>3, <3>1, <3>2
  <2>2. h # <<>>
    BY <1>4, <2>1
  <2>3. k + 1 \in 1..Len(asked)+1 /\ ToCome(asked, k + 1, h, c)
    BY <1>1, <1>2 DEF InStep
  <2> QED BY <1>2, <2>2, <2>3, SomeToCome
<1> DEFINE j == k + 1
<1>6. j \in 1..Len(asked) /\ j \in Nat /\ ToCome(asked, j, h, c)
  BY <1>1, <1>5 DEF InStep
<1> HIDE DEF j
<1>7. PICK h2 \in Seq(Byte), c2 \in Seq(Byte) :
        /\ h = HostBytes(j, asked[j]) ++ h2 /\ c = ChipBytes(j, asked[j]) ++ c2
        /\ ToCome(asked, j + 1, h2, c2)
  BY <1>2, <1>6, NextToCome
<1> DEFINE s == asked[j]
           header == Part(j, "header", HdrSize)
           cmd == Part(j, "cmd", 1)
           addr == Part(j, "addr", s.addr)
           data == Part(j, "data", s.write)
           read == Part(j, "read", s.read)
<1>8. /\ s \in Shape /\ s.addr \in Nat /\ s.write \in 0..WordSize-1 /\ s.read \in 0..WordSize-1
      /\ s.write \in Nat /\ s.read \in Nat
  <2>1. s \in Shape
    BY <1>2, <1>6
  <2>2. WordSize \in Nat
    BY SizeAssumption
  <2> QED BY <2>1, <2>2 DEF Shape
<1>9. s.addr < AddrLimit /\ Valid(s) /\ s.write < WordSize \div 2
  <2>1. Valid(s) /\ ~TooLong(s)
    BY <1>6 DEF Orderly, Proper
  <2> QED BY <1>8, <2>1, SizeAssumption DEF Valid, TooLong, Signed
<1>10. /\ header \in Seq(Byte) /\ Len(header) = HdrSize /\ header[1].req = j
       /\ cmd = Append(<<>>, [req |-> j, part |-> "cmd", n |-> 1])
       /\ addr = Left(j, "addr", s.addr, s.addr) /\ data = Left(j, "data", s.write, s.write)
       /\ read = Left(j, "read", s.read, s.read)
  <2>1. \A part \in Parts, n \in Nat :
          Part(j, part, n) \in Seq(Byte) /\ Len(Part(j, part, n)) = n
            /\ Part(j, part, n) = Left(j, part, n, n)
    BY <1>6, PartFacts
  <2>2. "header" \in Parts /\ "addr" \in Parts /\ "data" \in Parts /\ "read" \in Parts
    BY DEF Parts
  <2>3. header \in Seq(Byte) /\ Len(header) = HdrSize
    BY <1>4, <2>1, <2>2
  <2>4. header[1].req = j
    BY <1>4 DEF Part
  <2>5. cmd = Append(<<>>, [req |-> j, part |-> "cmd", n |-> 1])
    BY DEF Part
  <2>6. addr = Left(j, "addr", s.addr, s.addr)
    BY <1>8, <2>1, <2>2
  <2>7. data = Left(j, "data", s.write, s.write) /\ read = Left(j, "read", s.read, s.read)
    BY <1>8, <2>1, <2>2
  <2> QED BY <2>3, <2>4, <2>5, <2>6, <2>7
<1>11. /\ addr \in Seq(Byte) /\ data \in Seq(Byte) /\ read \in Seq(Byte) /\ cmd \in Seq(Byte)
  <2>1. \A part \in Parts, n \in Nat : Part(j, part, n) \in Seq(Byte)
    BY <1>6, PartFacts
  <2>2. /\ "addr" \in Parts /\ "data" \in Parts /\ "read" \in Parts /\ "cmd" \in Parts
        /\ 1 \in Nat
    BY DEF Parts
  <2> QED BY <1>8, <2>1, <2>2
<1>12. HostBytes(j, s) = (header ++ addr) ++ data /\ ChipBytes(j, s) = ((cmd ++ addr) ++ data) ++ read
  BY DEF HostBytes, ChipBytes, ++
<1> HIDE DEF header, cmd, addr, data, read, s
<1> DEFINE rest == (addr ++ data) ++ h2
<1>13. /\ h = header ++ rest /\ rest \in Seq(Byte)
  <2>1. h = ((header ++ addr) ++ data) ++ h2
    BY <1>7, <1>12 DEF s
  <2>2. (header ++ addr) ++ data = header ++ (addr ++ data)
    BY <1>10, <1>11, Regroup
  <2>3. addr ++ data \in Seq(Byte) /\ rest \in Seq(Byte)
    BY <1>7, <1>11, Joined
  <2>4. (header ++ (addr ++ data)) ++ h2 = header ++ rest
    BY <1>7, <1>10, <2>3, Regroup
  <2> QED BY <2>1, <2>2, <2>3, <2>4
<1>14. due = (chip ++ cmd) ++ (((addr ++ data) ++ read) ++ c2)
  <2>1. due = chip ++ ((((cmd ++ addr) ++ data) ++ read) ++ c2)
    BY <1>3, <1>7, <1>12 DEF s
  <2>2. (cmd ++ addr) ++ data = cmd ++ (addr ++ data) /\ addr ++ data \in Seq(Byte)
    BY <1>11, Regroup, Joined
  <2>3. chip ++ (((cmd ++ (addr ++ data)) ++ read) ++ c2)
          = (chip ++ cmd) ++ (((addr ++ data) ++ read) ++ c2)
    <3> DEFINE w == addr ++ data
    <3>1. /\ chip \in Seq(Byte) /\ cmd \in Seq(Byte) /\ w \in Seq(Byte) /\ read \in Seq(Byte)
          /\ c2 \in Seq(Byte)
      BY <1>2, <1>7, <1>11, <2>2
    <3> HIDE DEF w
    <3>2. chip ++ (((cmd ++ w) ++ read) ++ c2) = (chip ++ cmd) ++ ((w ++ read) ++ c2)
      BY <3>1, MovedAlong
    <3> QED BY <3>2 DEF w
  <2> QED BY <2>1, <2>2, <2>3
<1> HIDE DEF rest
<1>15. /\ SubSeq(fifo, 1, HdrSize) = header /\ Drop(fifo, HdrSize) \in Seq(Byte)
       /\ Drop(fifo, HdrSize) ++ hostLeft = rest
  <2>1. fifo ++ hostLeft = header ++ rest /\ HdrSize = Len(header) /\ HdrSize <= Len(fifo)
    BY <1>3, <1>4, <1>10, <1>13
  <2> QED BY <1>2, <1>10, <1>13, <2>1, TakeFirst
<1> DEFINE q == [cmd |-> j, addr_bytes |-> s.addr, writelen |-> s.write, readlen |-> s.read]
<1>16. Parsed(SubSeq(fifo, 1, HdrSize)) = {q}
  <2>1. Parsed(header) = {q}
    BY <1>10 DEF Parsed, header, s
  <2> QED BY <1>15, <2>1
<1>17. /\ fifo' = Drop(fifo, HdrSize) /\ nand_state' = q
       /\ chip' = Append(chip, [req |-> j, part |-> "cmd", n |-> 1])
       /\ UNCHANGED <<asked, hostLeft, due>>
  <2>1. \E r \in Parsed(SubSeq(fifo, 1, HdrSize)) :
          \/ /\ Valid([addr |-> r.addr_bytes, write |-> r.writelen, read |-> r.readlen])
             /\ ProcessNandreq(r) /\ fifo' = Drop(fifo, HdrSize)
          \/ ~Valid([addr |-> r.addr_bytes, write |-> r.writelen, read |-> r.readlen])
    BY DEF ReadHeader
  <2>2. Valid([addr |-> q.addr_bytes, write |-> q.writelen, read |-> q.readlen])
    BY <1>9 DEF Valid
  <2>3. ProcessNandreq(q) /\ fifo' = Drop(fifo, HdrSize)
    BY <1>16, <2>1, <2>2
  <2> QED BY <2>3 DEF ProcessNandreq, ReadHeader, hostVars
<1>18. chip' = chip ++ cmd
  <2>1. Append(chip, [req |-> j, part |-> "cmd", n |-> 1])
          = chip \o Append(<<>>, [req |-> j, part |-> "cmd", n |-> 1])
    <3> DEFINE e == [req |-> j, part |-> "cmd", n |-> 1]
    <3>1. e \in Byte
      BY <1>6 DEF Byte
    <3> HIDE DEF e
    <3>2. Append(chip, e) = chip \o <<e>>
      BY <1>2, <3>1, AppendIsConcat
    <3>3. Append(<<>>, e) = <<e>>
      OBVIOUS
    <3> QED BY <3>2, <3>3 DEF e
  <2> QED BY <1>10, <1>17, <2>1 DEF ++
<1>19. /\ nand_state'.cmd = j /\ nand_state'.addr_bytes = s.addr /\ nand_state'.writelen = s.write
       /\ nand_state'.readlen = s.read
       /\ nand_state' \in [cmd : Nat, addr_bytes : Nat, writelen : Nat, readlen : Nat]
  BY <1>6, <1>8, <1>17
<1>20. Types'
  <2>1. fifo' \in Seq(Byte) /\ chip' \in Seq(Byte)
    BY <1>2, <1>11, <1>15, <1>17, <1>18, Joined
  <2> QED BY <1>2, <1>17, <1>19, <2>1 DEF Types
<1>21. Small' /\ Proper'
  <2>1. Small'
    BY <1>8, <1>9, <1>19, SizeAssumption DEF Small
  <2>2. Proper'
    BY <1>17 DEF Orderly, Proper
  <2> QED BY <2>1, <2>2
<1>22. InStep(j, h2, c2)'
  <2>1. AddrLeft(j)' = addr /\ DataLeft(j)' = data /\ ReadLeft(j)' = read
    BY <1>10, <1>17, <1>19 DEF AddrLeft, DataLeft, ReadLeft, s
  <2>2. InputLeft(j)' = addr ++ data /\ (InputLeft(j) ++ ReadLeft(j))' = (addr ++ data) ++ read
    BY <2>1 DEF InputLeft
  <2>3. j \in 0..Len(asked') /\ ToCome(asked', j + 1, h2, c2)
    BY <1>2, <1>6, <1>7, <1>17
  <2>4. j > 0 /\ nand_state'.cmd = j
    BY <1>6, <1>19
  <2>5. (fifo ++ hostLeft)' = InputLeft(j)' ++ h2
    BY <1>15, <1>17, <2>2 DEF rest
  <2>6. due' = chip' ++ ((InputLeft(j) ++ ReadLeft(j))' ++ c2)
    BY <1>14, <1>17, <1>18, <2>2
  <2> QED BY <2>3, <2>4, <2>5, <2>6 DEF InStep
<1> QED BY <1>6, <1>7, <1>20, <1>21, <1>22 DEF Orderly

\* The sum of the lengths does not wrap.
LEMMA NoWrap ==
  ASSUME Types, Small
  PROVE  ExpectNanddata = nand_state.addr_bytes + nand_state.writelen
<1> DEFINE x == nand_state.addr_bytes + nand_state.writelen
<1>1. WordSize \in Nat /\ x \in 0..WordSize-1
  <2>1. nand_state.addr_bytes \in Nat /\ nand_state.writelen \in Nat
    BY DEF Types
  <2>2. nand_state.addr_bytes <= AddrLimit /\ nand_state.writelen < WordSize \div 2
    BY DEF Small
  <2>3. /\ WordSize \in Nat /\ WordSize \div 2 \in Nat /\ AddrLimit < WordSize \div 2
        /\ AddrLimit \in Nat
    BY SizeAssumption
  <2> QED BY <2>1, <2>2, <2>3
<1>2. ExpectNanddata = x % WordSize
  BY DEF ExpectNanddata
<1> HIDE DEF x
<1>3. x % WordSize = x
  BY <1>1
<1> QED BY <1>2, <1>3 DEF x

\* How much TakeData takes, without a wrap.
Taken     == SmallerOf(Wanted, BytesInUSBBuffer)
TakenAddr == AddressPart(Taken)
TakenData == WritePart(Taken - TakenAddr)

LEMMA TakenSizes ==
  ASSUME Types, Small, ~ExpectNandreq, ExpectNanddata > 0
  PROVE  /\ Taken \in Nat /\ Taken <= Len(fifo) /\ TakenAddr \in Nat /\ TakenData \in Nat
         /\ TakenAddr + TakenData = Taken
         /\ TakenAddr <= nand_state.addr_bytes /\ TakenData <= nand_state.writelen
         /\ TakenData > 0 => TakenAddr = nand_state.addr_bytes
         /\ (nand_state.writelen - TakenData) % WordSize = nand_state.writelen - TakenData
<1> DEFINE n == Taken
           alen == TakenAddr
           wrlen == TakenData
           ab == nand_state.addr_bytes
           wl == nand_state.writelen
<1>1. ab \in Nat /\ wl \in Nat /\ Len(fifo) \in Nat
  BY DEF Types
<1>2. /\ WordSize \in Nat /\ WordSize \div 2 \in Nat /\ AddrLimit < WordSize \div 2 /\ BufSize \in Nat
      /\ AddrLimit \in Nat
  BY SizeAssumption
<1>3. ab <= AddrLimit /\ wl < WordSize \div 2
  BY DEF Small
<1> HIDE DEF ab, wl
<1>4. ab + wl \in 0..WordSize-1 /\ wl \in 0..WordSize-1
  BY <1>1, <1>2, <1>3
<1>5. ExpectNanddata = ab + wl
  BY NoWrap DEF ab, wl
<1>6. n \in Nat /\ n <= Len(fifo) /\ n <= ab + wl
  BY <1>1, <1>2, <1>5 DEF SmallerOf, Wanted, BytesInUSBBuffer, Taken
<1>7. alen \in Nat /\ alen <= ab /\ alen <= n /\ (alen = n \/ alen = ab)
  BY <1>1, <1>6 DEF AddressPart, SmallerOf, TakenAddr, ab
<1>8. wrlen = n - alen
  <2>0. wrlen = WritePart(n - alen)
    BY DEF TakenData
  <2>1. CASE n - alen = 0
    BY <2>0, <2>1 DEF WritePart
  <2>2. CASE n - alen > 0
    <3>0. alen = ab
      BY <1>6, <1>7, <2>2
    <3>1. n - alen <= wl /\ wl > 0 /\ n - alen \in 0..WordSize-1
      <4>1. n \in Nat /\ n <= ab + wl /\ wl < WordSize
        BY <1>2, <1>4, <1>6
      <4> QED BY <1>1, <1>2, <2>2, <3>0, <4>1
    <3>2. Signed(wl) = wl
      BY <1>3 DEF Signed
    <3> DEFINE x == n - alen
    <3>3. WritePart(x) = (IF x < wl THEN x ELSE wl) % WordSize
      BY <2>2, <3>1, <3>2 DEF WritePart, wl
    <3>4. x \in Nat /\ x <= wl
      BY <1>6, <1>7, <2>2, <3>1
    <3> HIDE DEF x
    <3>5. (IF x < wl THEN x ELSE wl) = x
      BY <1>1, <3>4
    <3>6. x % WordSize = x
      BY <1>2, <3>1 DEF x
    <3> QED BY <2>0, <3>3, <3>5, <3>6 DEF x
  <2> QED BY <1>6, <1>7, <2>1, <2>2
<1>9. wrlen \in Nat /\ alen + wrlen = n /\ wrlen <= wl /\ (wrlen > 0 => alen = ab)
  BY <1>1, <1>6, <1>7, <1>8
<1>10. (wl - wrlen) % WordSize = wl - wrlen
  <2>1. wl - wrlen \in 0..WordSize-1
    BY <1>1, <1>2, <1>4, <1>9
  <2> QED BY <1>2, <2>1
<1> QED BY <1>6, <1>7, <1>9, <1>10 DEF ab, wl

\* The next bytes of the address and of the data, and what is left behind
\* them: data only behind the whole of the address.
NextAddr(k) == Left(k, "addr", asked[k].addr - (nand_state.addr_bytes - TakenAddr), TakenAddr)
NextData(k) == Left(k, "data", asked[k].write - (nand_state.writelen - TakenData), TakenData)
RestAddr(k) == Left(k, "addr", asked[k].addr, nand_state.addr_bytes - TakenAddr)
RestData(k) == Left(k, "data", asked[k].write, nand_state.writelen - TakenData)

LEMMA NextInput ==
  ASSUME Types, Small, ~ExpectNandreq, ExpectNanddata > 0, NEW k \in 1..Len(asked)
  PROVE  /\ NextAddr(k) \in Seq(Byte) /\ Len(NextAddr(k)) = TakenAddr
         /\ NextData(k) \in Seq(Byte) /\ Len(NextData(k)) = TakenData
         /\ RestAddr(k) \in Seq(Byte) /\ RestData(k) \in Seq(Byte)
         /\ InputLeft(k) = (NextAddr(k) ++ NextData(k)) ++ (RestAddr(k) ++ RestData(k))
<1> DEFINE sa == asked[k].addr
           sw == asked[k].write
           ab == nand_state.addr_bytes
           wl == nand_state.writelen
           alen == TakenAddr
           m == TakenData
           a == Left(k, "addr", sa, ab)
           d == Left(k, "data", sw, wl)
           ta == NextAddr(k)
           td == NextData(k)
           ra == RestAddr(k)
           rd == RestData(k)
<1>0. /\ k \in Nat /\ sa \in Int /\ sw \in Int /\ ab \in Nat /\ wl \in Nat /\ alen \in Nat /\ m \in Nat
      /\ alen <= ab /\ m <= wl /\ (m > 0 => alen = ab)
  <2>1. alen \in Nat /\ m \in Nat /\ alen <= ab /\ m <= wl /\ (m > 0 => alen = ab)
    BY TakenSizes
  <2>2. asked[k] \in Shape
    BY DEF Types
  <2>3. sa \in Int /\ sw \in Int
    BY <2>2, SizeAssumption DEF Shape
  <2>4. ab \in Nat /\ wl \in Nat
    BY DEF Types
  <2> QED BY <2>1, <2>3, <2>4
<1>9. /\ ta = Left(k, "addr", sa - (ab - alen), alen) /\ td = Left(k, "data", sw - (wl - m), m)
      /\ ra = Left(k, "addr", sa, ab - alen) /\ rd = Left(k, "data", sw, wl - m)
      /\ InputLeft(k) = a ++ d
  BY DEF NextAddr, NextData, RestAddr, RestData, InputLeft, AddrLeft, DataLeft
<1> HIDE DEF sa, sw, ab, wl, alen, m
<1>1. /\ \A part \in Parts, total \in Int, n \in Nat :
            Left(k, part, total, n) \in Seq(Byte) /\ Len(Left(k, part, total, n)) = n
      /\ "addr" \in Parts /\ "data" \in Parts
  <2>1. \A part \in Parts, total \in Int, n \in Nat :
          Left(k, part, total, n) \in Seq(Byte) /\ Len(Left(k, part, total, n)) = n
    BY <1>0, LeftFacts
  <2> QED BY <2>1 DEF Parts
<1>2. ab - alen \in Nat /\ wl - m \in Nat /\ sa - (ab - alen) \in Int /\ sw - (wl - m) \in Int
  BY <1>0
<1>3. /\ ta \in Seq(Byte) /\ Len(ta) = alen /\ td \in Seq(Byte) /\ Len(td) = m
      /\ ra \in Seq(Byte) /\ rd \in Seq(Byte)
  BY <1>0, <1>1, <1>2, <1>9
<1>4. a = ta ++ ra
  <2>1. "addr" \in Parts
    BY <1>1
  <2> QED BY <1>0, <1>9, <2>1, LeftSplit
<1>5. d = td ++ rd
  <2>1. "data" \in Parts
    BY <1>1
  <2> QED BY <1>0, <1>9, <2>1, LeftSplit
<1>6. alen = ab => ra = <<>>
  <2>1. alen = ab => ab - alen = 0
    BY <1>0
  <2> QED BY <1>9, <2>1, LeftNone
<1>7. m = 0 => td = <<>>
  BY <1>9, LeftNone
<1> HIDE DEF a, d, ta, td, ra, rd
<1>8. a ++ d = (ta ++ td) ++ (ra ++ rd)
  <2>1. CASE m = 0
    <3>1. td = <<>> /\ d = rd /\ ta ++ td = ta
      BY <1>3, <1>5, <1>7, <2>1, NoneBefore
    <3>2. (ta ++ ra) ++ rd = ta ++ (ra ++ rd)
      BY <1>3, Regroup
    <3> QED BY <1>4, <3>1, <3>2
  <2>2. CASE m # 0
    <3>1. ra = <<>> /\ a = ta /\ ra ++ rd = rd
      <4>1. alen = ab
        BY <1>0, <2>2
      <4> QED BY <1>3, <1>4, <1>6, <4>1, NoneBefore
    <3>2. ta ++ (td ++ rd) = (ta ++ td) ++ rd
      BY <1>3, Regroup
    <3> QED BY <1>5, <3>1, <3>2
  <2> QED BY <2>1, <2>2
<1> QED BY <1>3, <1>8, <1>9 DEF a, d, ta, td, ra, rd, alen, m

\* On its port the chip sees the bytes that were sent to it.
LEMMA SeenAsSent ==
  ASSUME Types, Small, ~ExpectNandreq, ExpectNanddata > 0, NEW k \in 1..Len(asked),
         \A i \in 1..TakenAddr+TakenData : (NextAddr(k) ++ NextData(k))[i] = fifo[i]
  PROVE  [i \in 1..TakenAddr+TakenData |->
             [fifo[i] EXCEPT !.part = IF i <= TakenAddr THEN "addr" ELSE "data"]]
           = NextAddr(k) ++ NextData(k)
<1> DEFINE u == asked[k].addr - (nand_state.addr_bytes - TakenAddr)
           v == asked[k].write - (nand_state.writelen - TakenData)
           alen == TakenAddr
           m == TakenData
           ta == NextAddr(k)
           td == NextData(k)
           t == ta ++ td
           f == fifo
           g == [i \in 1..alen+m |-> [f[i] EXCEPT !.part = IF i <= alen THEN "addr" ELSE "data"]]
<1>0. /\ k \in Nat /\ u \in Int /\ v \in Int /\ alen \in Nat /\ m \in Nat
      /\ ta = Left(k, "addr", u, alen) /\ td = Left(k, "data", v, m)
  <2>1. alen \in Nat /\ m \in Nat
    BY TakenSizes
  <2>2. asked[k] \in Shape
    BY DEF Types
  <2>3. asked[k].addr \in Int /\ asked[k].write \in Int
    BY <2>2, SizeAssumption DEF Shape
  <2>4. nand_state.addr_bytes \in Nat /\ nand_state.writelen \in Nat
    BY DEF Types
  <2> QED BY <2>1, <2>3, <2>4 DEF NextAddr, NextData
<1>7. \A i \in 1..alen+m : t[i] = f[i]
  OBVIOUS
<1> HIDE DEF u, v, alen, m
<1>1. "addr" \in Parts /\ "data" \in Parts
  BY DEF Parts
<1>2. /\ ta \in Seq(Byte) /\ Len(ta) = alen
      /\ \A i \in 1..alen : ta[i] = [req |-> k, part |-> "addr", n |-> u - alen + i]
  BY <1>0, <1>1, LeftFacts
<1>3. /\ td \in Seq(Byte) /\ Len(td) = m
      /\ \A i \in 1..m : td[i] = [req |-> k, part |-> "data", n |-> v - m + i]
  BY <1>0, <1>1, LeftFacts
<1> HIDE DEF ta, td, alen, m
<1>4. /\ t \in Seq(Byte) /\ Len(t) = alen + m
      /\ \A i \in 1..alen+m : t[i] = IF i <= alen THEN ta[i] ELSE td[i - alen]
  <2>1. t = ta \o td
    BY DEF ++
  <2>2. /\ ta \o td \in Seq(Byte) /\ Len(ta \o td) = Len(ta) + Len(td)
        /\ \A i \in 1..Len(ta)+Len(td) :
              (ta \o td)[i] = IF i <= Len(ta) THEN ta[i] ELSE td[i - Len(ta)]
    BY <1>2, <1>3, ConcatProperties
  <2> QED BY <1>0, <1>2, <1>3, <2>1, <2>2
<1>5. ASSUME NEW i \in 1..alen+m PROVE t[i] = g[i]
  <2>1. g[i] = [f[i] EXCEPT !.part = IF i <= alen THEN "addr" ELSE "data"] /\ t[i] = f[i]
    BY <1>5, <1>7
  <2>2. CASE i <= alen
    <3>1. i \in 1..alen
      BY <1>0, <2>2
    <3>2. t[i] = [req |-> k, part |-> "addr", n |-> u - alen + i]
      BY <1>2, <1>4, <1>5, <2>2, <3>1
    <3> QED BY <2>1, <2>2, <3>2
  <2>3. CASE ~(i <= alen)
    <3>1. i - alen \in 1..m
      BY <1>0, <2>3
    <3>2. t[i] = [req |-> k, part |-> "data", n |-> v - m + (i - alen)]
      BY <1>3, <1>4, <1>5, <2>3, <3>1
    <3> QED BY <2>1, <2>3, <3>2
  <2> QED BY <2>2, <2>3
<1>6. t = g
  <2>1. t \in [1..alen+m -> Byte]
    <3>1. t \in [1..Len(t) -> Byte]
      BY <1>4
    <3> QED BY <1>4, <3>1
  <2>2. t = [i \in 1..alen+m |-> t[i]]
    BY <2>1
  <2> HIDE DEF g
  <2>3. [i \in 1..alen+m |-> t[i]] = [i \in 1..alen+m |-> g[i]]
    BY <1>5
  <2>4. g = [i \in 1..alen+m |-> g[i]]
    BY DEF g
  <2> QED BY <2>2, <2>3, <2>4
<1> QED BY <1>6 DEF ta, td, alen, m

\* Address and data: the next bytes of the queue go to the chip.
LEMMA TakeDataStep ==
  ASSUME Orderly, TakeData PROVE Orderly'
<1>1. PICK k \in Nat, h \in Seq(Byte), c \in Seq(Byte) : InStep(k, h, c)
  BY DEF Orderly
<1>2. /\ Types /\ Small /\ asked \in Seq(Shape) /\ fifo \in Seq(Byte) /\ hostLeft \in Seq(Byte)
      /\ chip \in Seq(Byte) /\ ~ExpectNandreq /\ ExpectNanddata > 0
  BY DEF Orderly, Types, TakeData
<1>3. /\ k \in 1..Len(asked) /\ k \in 0..Len(asked) /\ nand_state.cmd = k
      /\ fifo ++ hostLeft = InputLeft(k) ++ h
      /\ due = chip ++ ((InputLeft(k) ++ ReadLeft(k)) ++ c)
      /\ ToCome(asked, k + 1, h, c)
  BY <1>1, <1>2 DEF InStep
<1> DEFINE n == Taken
           alen == TakenAddr
           m == TakenData
           ab == nand_state.addr_bytes
           wl == nand_state.writelen
           sa == asked[k].addr
           sw == asked[k].write
<1>4. /\ n \in Nat /\ n <= Len(fifo) /\ alen \in Nat /\ m \in Nat /\ alen + m = n
      /\ alen <= ab /\ m <= wl /\ (m > 0 => alen = ab)
      /\ (wl - m) % WordSize = wl - m
  <2>1. Types /\ Small /\ ~ExpectNandreq /\ ExpectNanddata > 0
    BY <1>2
  <2> QED BY <2>1, TakenSizes
<1>5. /\ fifo' = Drop(fifo, n)
      /\ nand_state' = [nand_state EXCEPT !.addr_bytes = @ - alen, !.writelen = (@ - m) % WordSize]
      /\ chip' = chip \o [i \in 1..alen+m |->
                   IF i > n THEN Junk
                   ELSE [fifo[i] EXCEPT !.part = IF i <= alen THEN "addr" ELSE "data"]]
      /\ UNCHANGED <<asked, hostLeft, due>>
  BY DEF TakeData, hostVars, Taken, TakenAddr, TakenData
<1>6. /\ ab \in Nat /\ wl \in Nat /\ sa \in Int /\ sw \in Int /\ nand_state.readlen \in Nat
      /\ nand_state \in [cmd : Nat, addr_bytes : Nat, writelen : Nat, readlen : Nat]
  <2>1. asked[k] \in Shape
    BY <1>2, <1>3
  <2>2. sa \in Int /\ sw \in Int
    BY <2>1, SizeAssumption DEF Shape
  <2> QED BY <1>2, <2>2 DEF Types
<1> HIDE DEF n, alen, m
<1>7. /\ nand_state'.cmd = k /\ nand_state'.addr_bytes = ab - alen /\ nand_state'.writelen = wl - m
      /\ nand_state'.readlen = nand_state.readlen
      /\ nand_state' \in [cmd : Nat, addr_bytes : Nat, writelen : Nat, readlen : Nat]
  <2>1. ab - alen \in Nat /\ wl - m \in Nat
    BY <1>4, <1>6
  <2>2. nand_state' = [nand_state EXCEPT !.addr_bytes = ab - alen, !.writelen = wl - m]
    BY <1>4, <1>5
  <2> HIDE DEF ab, wl, sa, sw
  <2> QED BY <1>3, <1>6, <2>1, <2>2
<1> DEFINE ta == NextAddr(k)
           td == NextData(k)
           ra == RestAddr(k)
           rd == RestData(k)
           taken == ta ++ td
           rest == ra ++ rd
<1>8. /\ ta \in Seq(Byte) /\ Len(ta) = alen /\ td \in Seq(Byte) /\ Len(td) = m
      /\ ra \in Seq(Byte) /\ rd \in Seq(Byte)
      /\ InputLeft(k) = taken ++ rest
  <2>1. Types /\ Small /\ ~ExpectNandreq /\ ExpectNanddata > 0 /\ k \in 1..Len(asked)
    BY <1>2, <1>3
  <2> QED BY <2>1, NextInput DEF alen, m
<1>9. taken \in Seq(Byte) /\ Len(taken) = n /\ rest \in Seq(Byte)
  <2> HIDE DEF ta, td, ra, rd
  <2>1. taken \in Seq(Byte) /\ Len(taken) = Len(ta) + Len(td)
    BY <1>8, Joined
  <2>2. rest \in Seq(Byte)
    BY <1>8, Joined
  <2> QED BY <1>4, <1>8, <2>1, <2>2
<1>10. AddrLeft(k)' = ra /\ DataLeft(k)' = rd /\ ReadLeft(k)' = ReadLeft(k)
  BY <1>5, <1>7 DEF AddrLeft, DataLeft, ReadLeft, RestAddr, RestData, alen, m
<1>11. InputLeft(k)' = rest /\ (InputLeft(k) ++ ReadLeft(k))' = rest ++ ReadLeft(k)
  BY <1>10 DEF InputLeft
<1>12. ReadLeft(k) \in Seq(Byte) /\ InputLeft(k) \in Seq(Byte)
  BY <1>2, <1>3, LeftTypes
<1> HIDE DEF rest, ab, wl, sa, sw
<1>13. /\ SubSeq(fifo, 1, n) = taken /\ fifo' \in Seq(Byte)
       /\ fifo' ++ hostLeft' = rest ++ h
  <2> HIDE DEF taken
  <2>1. fifo ++ hostLeft = taken ++ (rest ++ h)
    <3>1. (taken ++ rest) ++ h = taken ++ (rest ++ h)
      BY <1>9, Regroup
    <3> QED BY <1>3, <1>8, <3>1
  <2>2. rest ++ h \in Seq(Byte)
    BY <1>9, Joined
  <2>3. n = Len(taken) /\ n <= Len(fifo)
    BY <1>4, <1>9
  <2> DEFINE r == rest ++ h
  <2>4. r \in Seq(Byte) /\ fifo ++ hostLeft = taken ++ r
    BY <2>1, <2>2
  <2> HIDE DEF r
  <2>5. SubSeq(fifo, 1, n) = taken /\ Drop(fifo, n) \in Seq(Byte) /\ Drop(fifo, n) ++ hostLeft = r
    BY <1>2, <1>9, <2>3, <2>4, TakeFirst
  <2> QED BY <1>5, <2>5 DEF r
<1>14. chip' = chip ++ taken
  <2>1. \A i \in 1..alen+m : taken[i] = fifo[i]
    <3>1. \A i \in 1..n : SubSeq(fifo, 1, n)[i] = fifo[i]
      BY <1>2, <1>4, Halves
    <3> QED BY <1>4, <1>13, <3>1
  <2>2. [i \in 1..alen+m |-> [fifo[i] EXCEPT !.part = IF i <= alen THEN "addr" ELSE "data"]] = taken
    <3>1. Types /\ Small /\ ~ExpectNandreq /\ ExpectNanddata > 0 /\ k \in 1..Len(asked)
      BY <1>2, <1>3
    <3>2. \A i \in 1..TakenAddr+TakenData : (NextAddr(k) ++ NextData(k))[i] = fifo[i]
      BY <2>1 DEF alen, m
    <3> QED BY <3>1, <3>2, SeenAsSent DEF alen, m
  <2>3. \A i \in 1..alen+m : ~(i > n)
    BY <1>4
  <2>4. [i \in 1..alen+m |->
                   IF i > n THEN Junk
                   ELSE [fifo[i] EXCEPT !.part = IF i <= alen THEN "addr" ELSE "data"]]
          = [i \in 1..alen+m |-> [fifo[i] EXCEPT !.part = IF i <= alen THEN "addr" ELSE "data"]]
    BY <2>3
  <2> QED BY <1>5, <2>2, <2>4 DEF ++
<1> HIDE DEF taken
<1>15. due' = chip' ++ ((InputLeft(k) ++ ReadLeft(k))' ++ c)
  <2> DEFINE r == ReadLeft(k)
  <2>1. r \in Seq(Byte) /\ due = chip ++ (((taken ++ rest) ++ r) ++ c)
    BY <1>3, <1>8, <1>12
  <2>2. (InputLeft(k) ++ ReadLeft(k))' = rest ++ r
    BY <1>11
  <2> HIDE DEF r
  <2>3. chip ++ (((taken ++ rest) ++ r) ++ c) = (chip ++ taken) ++ ((rest ++ r) ++ c)
    BY <1>2, <1>9, <2>1, MovedAlong
  <2> QED BY <1>5, <1>14, <2>1, <2>2, <2>3
<1>16. Types'
  <2>1. chip' \in Seq(Byte)
    BY <1>2, <1>9, <1>14, Joined
  <2> QED BY <1>2, <1>5, <1>7, <1>13, <2>1 DEF Types
<1>17. Small' /\ Proper'
  <2>0. /\ ab <= AddrLimit /\ wl < WordSize \div 2 /\ AddrLimit \in Nat /\ WordSize \div 2 \in Nat
    BY <1>2, SizeAssumption DEF Small, ab, wl
  <2>1. nand_state'.addr_bytes <= AddrLimit
    <3>1. ab - alen <= AddrLimit
      BY <1>4, <1>6, <2>0
    <3> QED BY <1>7, <3>1
  <2>2. nand_state'.writelen < WordSize \div 2
    <3> DEFINE half == WordSize \div 2
    <3>1. wl < half /\ half \in Nat
      BY <2>0
    <3> HIDE DEF half
    <3>2. wl - m < half
      BY <1>4, <1>6, <3>1
    <3> QED BY <1>7, <3>2 DEF half
  <2>3. Proper'
    BY <1>5 DEF Orderly, Proper
  <2> QED BY <2>1, <2>2, <2>3 DEF Small
<1>18. InStep(k, h, c)'
  <2>1. (fifo ++ hostLeft)' = InputLeft(k)' ++ h
    BY <1>11, <1>13
  <2>2. k \in 0..Len(asked') /\ ToCome(asked', k + 1, h, c) /\ k > 0
    BY <1>3, <1>5
  <2> QED BY <1>7, <1>15, <2>1, <2>2 DEF InStep
<1> QED BY <1>16, <1>17, <1>18 DEF Orderly

\* Reads: the chip is read for the next bytes of the reply.
LEMMA ProduceDataStep ==
  ASSUME Orderly, ProduceData PROVE Orderly'
<1>1. PICK k \in Nat, h \in Seq(Byte), c \in Seq(Byte) : InStep(k, h, c)
  BY DEF Orderly
<1> DEFINE rl == nand_state.readlen
           r == ReplySize
           sr == asked[k].read
<1>2. /\ Types /\ Small /\ asked \in Seq(Shape) /\ chip \in Seq(Byte)
      /\ rl \in Nat /\ rl > 0 /\ ExpectNanddata = 0
      /\ nand_state \in [cmd : Nat, addr_bytes : Nat, writelen : Nat, readlen : Nat]
  BY DEF Orderly, Types, ProduceData
<1>3. ~ExpectNandreq
  BY <1>2 DEF ExpectNandreq
<1>4. /\ k \in 1..Len(asked) /\ k \in 0..Len(asked) /\ nand_state.cmd = k /\ k # 0
      /\ fifo ++ hostLeft = InputLeft(k) ++ h
      /\ due = chip ++ ((InputLeft(k) ++ ReadLeft(k)) ++ c)
      /\ ToCome(asked, k + 1, h, c)
  BY <1>1, <1>2, <1>3 DEF InStep
<1>5. nand_state.addr_bytes = 0 /\ nand_state.writelen = 0
  <2>1. ExpectNanddata = nand_state.addr_bytes + nand_state.writelen
    BY <1>2, NoWrap
  <2>2. nand_state.addr_bytes \in Nat /\ nand_state.writelen \in Nat
    BY <1>2
  <2> QED BY <1>2, <2>1, <2>2
<1>6. r \in Nat /\ r <= rl /\ rl - r \in Nat /\ sr \in Int
  <2>1. asked[k] \in Shape
    BY <1>2, <1>4
  <2>2. sr \in Int /\ MaxReply \in Nat
    BY <2>1, SizeAssumption DEF Shape
  <2> QED BY <1>2, <2>2 DEF ReplySize, SmallerOf
<1> DEFINE u == sr - (rl - r)
           bytes == Left(k, "read", u, r)
           rest == Left(k, "read", sr, rl - r)
<1>7. chip' = chip ++ bytes
  <2>1. chip' = chip \o [i \in 1..r |-> [req |-> k, part |-> "read", n |-> sr - rl + i]]
    BY <1>4 DEF ProduceData
  <2>2. \A i \in 1..r : sr - rl + i = u - r + i
    BY <1>2, <1>6
  <2>3. [i \in 1..r |-> [req |-> k, part |-> "read", n |-> sr - rl + i]] = bytes
    <3> HIDE DEF r, u, sr, rl
    <3> QED BY <2>2 DEF Left
  <2> QED BY <2>1, <2>3 DEF ++
<1>8. /\ nand_state' = [nand_state EXCEPT !.readlen = rl - r]
      /\ UNCHANGED <<fifo, asked, hostLeft, due>>
  BY DEF ProduceData, hostVars
<1> HIDE DEF r, rl, sr
<1>9. /\ nand_state'.cmd = k /\ nand_state'.addr_bytes = 0 /\ nand_state'.writelen = 0
      /\ nand_state'.readlen = rl - r
      /\ nand_state' \in [cmd : Nat, addr_bytes : Nat, writelen : Nat, readlen : Nat]
  BY <1>2, <1>4, <1>5, <1>6, <1>8
<1>10. /\ bytes \in Seq(Byte) /\ rest \in Seq(Byte) /\ ReadLeft(k) = bytes ++ rest
       /\ ReadLeft(k)' = rest
  <2>1. u \in Int /\ "read" \in Parts /\ k \in Nat
    BY <1>1, <1>2, <1>6 DEF Parts
  <2>2. bytes \in Seq(Byte)
    <3> HIDE DEF u
    <3> QED BY <1>6, <2>1, LeftFacts
  <2>3. rest \in Seq(Byte)
    <3> DEFINE x == rl - r
    <3>1. x \in Nat
      BY <1>6
    <3> HIDE DEF x
    <3>2. Left(k, "read", sr, x) \in Seq(Byte)
      BY <1>6, <2>1, <3>1, LeftFacts
    <3> QED BY <3>2 DEF x
  <2>4. Left(k, "read", sr, rl) = bytes ++ rest
    BY <1>2, <1>6, <2>1, LeftSplit
  <2>5. ReadLeft(k) = Left(k, "read", sr, rl) /\ ReadLeft(k)' = rest
    BY <1>8, <1>9 DEF ReadLeft, sr, rl
  <2> QED BY <2>2, <2>3, <2>4, <2>5
<1>11. InputLeft(k) = <<>> /\ InputLeft(k)' = <<>>
  <2>1. AddrLeft(k) = <<>> /\ DataLeft(k) = <<>> /\ AddrLeft(k)' = <<>> /\ DataLeft(k)' = <<>>
    BY <1>5, <1>9, LeftNone DEF AddrLeft, DataLeft
  <2> QED BY <2>1, NoneBefore DEF InputLeft
<1> HIDE DEF bytes, rest
<1>12. due' = chip' ++ ((InputLeft(k) ++ ReadLeft(k))' ++ c)
  <2>1. due = chip ++ (((bytes ++ <<>>) ++ rest) ++ c)
    <3>1. <<>> ++ (bytes ++ rest) = bytes ++ rest /\ bytes ++ <<>> = bytes
      <4>1. bytes ++ rest \in Seq(Byte)
        BY <1>10, Joined
      <4> QED BY <1>10, <4>1, NoneBefore
    <3> QED BY <1>4, <1>10, <1>11, <3>1
  <2>2. chip ++ (((bytes ++ <<>>) ++ rest) ++ c) = (chip ++ bytes) ++ ((<<>> ++ rest) ++ c)
    <3> DEFINE none == <<>>
    <3>1. /\ chip \in Seq(Byte) /\ bytes \in Seq(Byte) /\ none \in Seq(Byte) /\ rest \in Seq(Byte)
          /\ c \in Seq(Byte)
      BY <1>1, <1>2, <1>10, NoneBefore
    <3> HIDE DEF none
    <3>2. chip ++ (((bytes ++ none) ++ rest) ++ c) = (chip ++ bytes) ++ ((none ++ rest) ++ c)
      BY <3>1, MovedAlong
    <3> QED BY <3>2 DEF none
  <2> QED BY <1>7, <1>8, <1>10, <1>11, <2>1, <2>2
<1>13. Types'
  <2>1. chip' \in Seq(Byte)
    BY <1>2, <1>7, <1>10, Joined
  <2> QED BY <1>2, <1>8, <1>9, <2>1 DEF Types
<1>14. Small' /\ Proper'
  <2>1. Small'
    BY <1>2, <1>5, <1>9 DEF Small
  <2>2. Proper'
    BY <1>8 DEF Orderly, Proper
  <2> QED BY <2>1, <2>2
<1>15. InStep(k, h, c)'
  <2>1. (fifo ++ hostLeft)' = InputLeft(k)' ++ h
    BY <1>4, <1>8, <1>11
  <2>2. k \in 0..Len(asked') /\ ToCome(asked', k + 1, h, c) /\ k > 0
    BY <1>4, <1>8
  <2> QED BY <1>9, <1>12, <2>1, <2>2 DEF InStep
<1> QED BY <1>1, <1>13, <1>14, <1>15 DEF Orderly

\* Every step keeps the order of the bytes, unless it cuts off a request.
LEMMA OrderlyStep ==
  ASSUME IInv, [Next]_vars, clean' PROVE Orderly'
<1>1. clean
  BY DEF Next, Loop, vars, NewRequest, HostSends, ChipReady, EnterActive, ChipIsBusy, LookForRequest,
         Discard, ReadHeader, TakeData, ProduceData, NothingExpected, Suspend, Resume, BusDown, BusUp
<1>2. Orderly
  BY <1>1 DEF IInv
<1>3. CASE NewRequest
  BY <1>2, <1>3, NewRequestStep
<1>4. CASE HostSends
  BY <1>2, <1>4, HostSendsStep
<1>5. CASE ReadHeader
  <2>1. ExpectNandreq
    BY <1>5 DEF IInv, Port, ReadHeader
  <2> QED BY <1>2, <1>5, <2>1, HeaderStep
<1>6. CASE TakeData
  BY <1>2, <1>6, TakeDataStep
<1>7. CASE ProduceData
  BY <1>2, <1>7, ProduceDataStep
<1>8. CASE Discard
  BY <1>8 DEF Discard
<1>9. CASE BusDown
  <2>1. fifo = <<>> /\ hostLeft = <<>>
    BY <1>9 DEF BusDown
  <2>2. UNCHANGED <<fifo, hostLeft, due, chip, asked, nand_state>>
    BY <1>9, <2>1 DEF BusDown, nandVars
  <2> QED BY <1>2, <2>2, NoByteMoves
<1>10. CASE \/ ChipReady \/ EnterActive \/ ChipIsBusy \/ LookForRequest \/ NothingExpected
            \/ Suspend \/ Resume \/ BusUp \/ UNCHANGED vars
  <2>1. UNCHANGED <<fifo, hostLeft, due, chip, asked, nand_state>>
    BY <1>10 DEF ChipReady, EnterActive, ChipIsBusy, LookForRequest, NothingExpected, Suspend,
         Resume, BusUp, vars, nandVars, hostVars
  <2> QED BY <1>2, <2>1, NoByteMoves
<1> QED BY <1>3, <1>4, <1>5, <1>6, <1>7, <1>8, <1>9, <1>10 DEF Next, Loop

\* No step takes the chip away while a request is under way.
LEMMA PortStep ==
  ASSUME Port, [Next]_vars PROVE Port'
<1>1. CASE ReadHeader
  <2>1. pc' = "elsewhere"
    BY <1>1 DEF ReadHeader
  <2>2. CASE open'
    BY <2>1, <2>2 DEF Port
  <2>3. CASE ~open'
    <3>1. \E r : nand_state' = [r EXCEPT !.addr_bytes = 0, !.writelen = 0, !.readlen = 0]
      BY <1>1, <2>3 DEF ReadHeader, ProcessNandreq
    <3> QED BY <2>1, <3>1 DEF Port, ExpectNandreq
  <2> QED BY <2>2, <2>3
<1>2. CASE TakeData \/ ProduceData
  <2>1. ~ExpectNandreq /\ open' = open /\ pc' = "elsewhere"
    BY <1>2 DEF TakeData, ProduceData, ExpectNandreq
  <2> QED BY <2>1 DEF Port
<1>3. CASE LookForRequest
  BY <1>3 DEF LookForRequest, Port, ExpectNandreq
<1>4. CASE \/ NewRequest \/ HostSends \/ ChipReady \/ EnterActive \/ ChipIsBusy \/ Discard
           \/ NothingExpected \/ Suspend \/ Resume \/ BusDown \/ BusUp \/ UNCHANGED vars
  <2>1. /\ UNCHANGED <<nand_state, open>>
        /\ pc' = pc \/ pc' \notin {"header", "discard"}
    BY <1>4 DEF NewRequest, HostSends, ChipReady, EnterActive, ChipIsBusy, Discard, NothingExpected,
         Suspend, Resume, BusDown, BusUp, vars, nandVars
  <2> QED BY <2>1 DEF Port, ExpectNandreq
<1> QED BY <1>1, <1>2, <1>3, <1>4 DEF Next, Loop

\* IInv is inductive.
THEOREM RequestsInvariance == Spec => []IInv
<1>1. IInv /\ [Next]_vars => IInv'
  <2>1. ASSUME IInv, [Next]_vars PROVE IInv'
    <3>1. Port'
      BY <2>1, PortStep DEF IInv
    <3>2. clean' => Orderly'
      BY <2>1, OrderlyStep
    <3> QED BY <3>1, <3>2 DEF IInv
  <2> QED BY <2>1
<1> QED BY <1>1, InitInv, PTL DEF Spec
----------------------------------------------------------------------------
\* As long as the host keeps to the protocol and no request is cut off, the
\* chip sees each command, its address, its data and its reads, in order and
\* nothing else, whatever packets they come in (nand_ordb3.c, process_nandreq,
\* process_nanddata and produce_nanddata).
THEOREM ChipSeesItsRequests == Spec => []ChipSeesRequests
<1>1. IInv => ChipSeesRequests
  <2> SUFFICES ASSUME IInv, clean
               PROVE  Len(chip) <= Len(due) /\ SubSeq(due, 1, Len(chip)) = chip
    BY DEF ChipSeesRequests
  <2>1. Orderly
    BY DEF IInv
  <2>2. PICK k \in Nat, h \in Seq(Byte), c \in Seq(Byte) : InStep(k, h, c)
    BY <2>1 DEF Orderly
  <2> DEFINE rest == (InputLeft(k) ++ ReadLeft(k)) ++ c
  <2>3. rest \in Seq(Byte)
    <3>1. k \in 0..Len(asked) /\ (~ExpectNandreq => k > 0) /\ Types
      BY <2>1, <2>2 DEF InStep, Orderly
    <3>2. InputLeft(k) ++ ReadLeft(k) \in Seq(Byte)
      BY <3>1, LeftTypes
    <3> QED BY <2>2, <3>2, Joined
  <2>4. due = chip ++ rest /\ chip \in Seq(Byte)
    BY <2>1, <2>2 DEF InStep, Orderly, Types
  <2> HIDE DEF rest
  <2>5. /\ Len(due) = Len(chip) + Len(rest) /\ Len(chip) \in Nat /\ Len(rest) \in Nat
        /\ SubSeq(due, 1, Len(chip)) = chip
    BY <2>3, <2>4, TwoParts
  <2> QED BY <2>5
<1> QED BY <1>1, RequestsInvariance, PTL

\* The chip's port is used only between nand_open and nand_close, in every
\* behaviour: also when the bus goes away in the middle of a request.
THEOREM PortIsOpen == Spec => UsesOpenChip
<1>1. IInv /\ [Next]_vars => [chip' # chip => open']_vars
  <2> SUFFICES ASSUME IInv, Next, chip' # chip PROVE open'
    OBVIOUS
  <2>1. CASE ReadHeader
    BY <2>1 DEF ReadHeader, ProcessNandreq
  <2>2. CASE TakeData \/ ProduceData
    BY <2>2 DEF TakeData, ProduceData, IInv, Port, ExpectNandreq
  <2>3. ReadHeader \/ TakeData \/ ProduceData
    BY DEF Next, Loop, vars, nandVars, NewRequest, HostSends, ChipReady, EnterActive, ChipIsBusy,
         LookForRequest, Discard, NothingExpected, Suspend, Resume, BusDown, BusUp
  <2> QED BY <2>1, <2>2, <2>3
<1> QED BY <1>1, RequestsInvariance, PTL DEF Spec, UsesOpenChip

----------------------------------------------------------------------------
(***************************************************************************)
(* Mass storage.  The invariant follows a command from the endpoint, where *)
(* it waits, through the driver that performs it to its status, which the  *)
(* host takes: it is there once, no other packet passes for it, nothing is *)
(* left to do once its status is made, and there is a reason in the device *)
(* for every status that says it failed.                                   *)
(***************************************************************************)
XY == {"X", "Y"}

\* Phases of the host: in a command, between two of them, after a reset.  A reset
\* that left blocks or packets behind is not followed.
Current(h)  == h.ph \in {"in", "out", "status", "haltIn", "haltOut"}
Rests(h, o) == h.ph = "idle" /\ "reset" \notin o
Fresh(h, o) == h.ph \in {"setup", "resetIn", "resetOut"} /\ "reset" \notin o

\* The host's command: still to be performed, performed, its status made.
Mine(pkt, h) == pkt.kind = "cbw" /\ pkt.tag = h.n
Waits(d, h)  == (\E b \in XY : Mine(d.oep[b], h)) \/ (d.received /\ d.tag = h.n)
Done(d, h)   == d.sendCsw /\ d.tag = h.n
Told(d, h)   == d.csw.tag = h.n
MyStatus(pkt, h) == pkt.kind = "csw" /\ pkt.tag = h.n

Before(d, h, o) == Rests(h, o) \/ (Current(h) /\ Waits(d, h))
Alive(d, h, o)  == Before(d, h, o) \/ (Current(h) /\ (Done(d, h) \/ Told(d, h)))

Expl(d)    == d.sense # "none" \/ d.attention
Still(d)   == d.rw.op = "none" /\ d.r.count = 0 /\ ~d.w.busy
Answers(d) == d.r.src = "response" /\ d.r.left # 0
Moves(h)   == h.c.op \in {"READ", "WRITE"}

Tags(d, h) ==
  /\ h.n \in Nat /\ d.tag \in 0..h.n /\ d.csw.tag \in 0..h.n
  /\ h.n = 0 => h.c = NoCbw
  /\ Current(h) => h.n # 0 /\ h.c \in Command
  /\ d.cbw \in Command \cup {NoCbw} /\ (d.tag = h.n => d.cbw = h.c)
  /\ \A b \in XY :
       /\ d.iep[b].kind = "csw" => d.iep[b].tag \in 0..h.n
       /\ d.oep[b].kind = "cbw" => /\ d.oep[b].tag \in 0..h.n /\ d.oep[b].c \in Command
                                   /\ Mine(d.oep[b], h) => d.oep[b].c = h.c

\* A command block is there once, and before its status.
Once(d, h) ==
  Current(h) =>
    /\ \A b \in XY : Mine(d.oep[b], h) =>
         ~Mine(d.oep[Other(b)], h) /\ d.tag # h.n /\ ~Told(d, h)
    /\ d.received /\ d.tag = h.n => ~Told(d, h)

\* No other packet passes for a command.
Own(d, h, o) ==
  Current(h) \/ Rests(h, o) \/ Fresh(h, o) =>
    /\ \A b \in XY : d.oep[b].kind = "cbw" => Current(h) /\ Mine(d.oep[b], h)
    /\ d.received => ~d.cbw.good \/ (Current(h) /\ d.tag = h.n)

\* A bad command block leaves the endpoint halted, a halt the host has met is
\* still there, and what is being sent has the driver busy.
Sending(d, h, o) ==
  /\ d.resetRequired => d.inHalt
  /\ h.ph = "haltIn" => d.inHalt
  /\ Alive(d, h, o) => (d.r.left # 0 => d.r.busy)

\* Blocks are moved only for a READ or WRITE that is performed and has no status.
Stills(d, h, o) ==
  Before(d, h, o) \/ (Current(h) /\ (Told(d, h) \/ ~Moves(h))) => Still(d)

\* Before a command is performed no answer to another is on its way.
Quiet(d, h, o) ==
  Before(d, h, o) =>
    /\ ~d.sendCsw /\ ~Answers(d) /\ (d.inHalt => d.resetRequired)
    /\ ~d.resetRequired => \A b \in XY : d.iep[b].kind # "response"

\* The status is made once, after the answer, and sent after it was made.
CswSent(d, h) ==
  Current(h) =>
    /\ \A b \in XY : MyStatus(d.iep[b], h) => Told(d, h) /\ ~d.sendCsw
    /\ Told(d, h) => ~Answers(d)
    /\ Told(d, h) /\ d.r.src = "csw" /\ d.r.left # 0 => ~d.sendCsw
    /\ Done(d, h) => ~d.resetRequired

\* Where there is a status that says "failed" there is sense data, or the call
\* for attention that becomes sense data; while only the driver knows of the
\* failure, no work goes on that would clear it.
Reasons(d, h) ==
  Current(h) /\ ~FailsInSilence(h.c) =>
    /\ Told(d, h) /\ d.csw.status = "failed" => Expl(d)
    /\ \A b \in XY : MyStatus(d.iep[b], h) /\ d.iep[b].status = "failed" => Expl(d)
    /\ Done(d, h) /\ d.status = "failed" => d.attention \/ (d.sense # "none" /\ Still(d))

\* The reason is kept until the host has asked for it, and is in the answer.
Asked(l) == l.status = "failed" /\ ~FailsInSilence(l.c)
Explains(d, h, l, o) ==
  Asked(l) =>
    /\ Rests(h, o) \/ (Current(h) /\ h.c.op = "SENSE" /\ Waits(d, h)) => Expl(d)
    /\ Current(h) /\ h.c.op = "SENSE" =>
         /\ Answers(d) => d.sense # "none"
         /\ \A b \in XY :
              d.iep[b].kind = "response" /\ ~d.resetRequired => d.iep[b].key # "none"

\* The driver and the hardware agree on the endpoint buffer that is next.
Alternates(d) ==
  LET p == d.hwIn  q == Other(d.hwIn)  IN
  /\ d.iep[p] = Free => d.iep[q] = Free /\ d.r.cur = p
  /\ d.iep[p] # Free /\ d.iep[q] = Free => d.r.cur = q
  /\ d.iep[p] # Free /\ d.iep[q] # Free => d.r.cur = p
Order(d, h, o) ==
  Alive(d, h, o) /\ ~d.resetRequired =>
    /\ Alternates(d)
    /\ d.inHalt => d.iep = NoPackets /\ Still(d)
    /\ Current(h) /\ MyStatus(d.iep[d.hwIn], h) => d.iep[Other(d.hwIn)].kind # "response"

\* A command moves blocks in its own direction only.
Directions(d, h) ==
  Current(h) /\ Done(d, h) =>
    /\ d.cbw.dir = "in" => ~d.w.busy
    /\ d.cbw.dir = "out" => d.r.count = 0

\* After a reset nothing is left of the commands before it.
NoneFull(d) == d.rw.full = [b \in XY |-> FALSE]
AfterReset(d, h, l, o) ==
  Fresh(h, o) =>
    /\ d.iep = NoPackets /\ d.oep = NoPackets /\ d.r.left = 0 /\ Still(d)
    /\ NoneFull(d) /\ ~d.sendCsw /\ ~d.received
    /\ d.hwIn = "X" /\ ~d.resetRequired /\ ~d.inHalt
    /\ h.ph # "resetIn" => d.r.cur = "X"
    /\ l.status # "failed"

\* The records of the device, the driver and the host.
DevFields ==
  {"status", "residue", "supported", "received", "sendCsw", "configured", "attention",
   "resetRequired", "stallEndpoint", "r", "w", "rw", "cbw", "tag", "csw", "sense",
   "present", "protected", "double", "buf", "iep", "oep", "inHalt", "outHalt", "hwIn",
   "hwOut", "iepIfg", "oepIfg"}
ReadFields == {"busy", "left", "src", "pos", "lba", "count", "cur", "xy"}
WriteFields == {"busy", "left", "free", "ptr", "lba", "count", "byte", "cur", "ct1", "xy"}
RwFields ==
  {"op", "lba", "count", "xy", "full", "packets", "lbas", "counts", "processed", "first"}
IsRead(r) ==
  r = [f \in ReadFields |-> r[f]] /\ r.left \in Nat /\ r.count \in Nat /\ r.cur \in XY /\ r.xy \in XY
IsWrite(w) == w = [f \in WriteFields |-> w[f]] /\ w.count \in Nat /\ w.cur \in XY /\ w.xy \in XY
IsRw(rw) ==
  /\ rw = [f \in RwFields |-> rw[f]] /\ rw.count \in Nat /\ rw.xy \in XY
  /\ rw.packets \in [XY -> Nat] /\ rw.counts \in [XY -> Nat]
  /\ rw.full = [b \in XY |-> rw.full[b]]
IsDev(d) ==
  /\ d = [f \in DevFields |-> d[f]] /\ IsRead(d.r) /\ IsWrite(d.w) /\ IsRw(d.rw)
  /\ d.hwIn \in XY /\ d.hwOut \in XY
  /\ d.iep = [b \in XY |-> d.iep[b]] /\ d.oep = [b \in XY |-> d.oep[b]]

\* What holds of device d, host h, last status l and oddities o.
DevInv(d, h, l, o) ==
  /\ Tags(d, h) /\ Once(d, h) /\ Own(d, h, o) /\ Sending(d, h, o) /\ Stills(d, h, o)
  /\ Quiet(d, h, o) /\ CswSent(d, h) /\ Reasons(d, h) /\ Explains(d, h, l, o)
  /\ Order(d, h, o) /\ Directions(d, h) /\ AfterReset(d, h, l, o)
LastFields == {"status", "exact", "explained", "c"}
HostFields == {"ph", "n", "c", "got", "sent", "retried"}
IsLast(l) == l = [f \in LastFields |-> l[f]]
IsHost(h) == h = [f \in HostFields |-> h[f]]
Clean(o) == o \cap {"noBlocks", "inFlight"} = {}

USE DEF XY

----------------------------------------------------------------------------
\* What the invariant says of the device is about these.
SameTalk(d, e) ==
  /\ e.status = d.status /\ e.received = d.received /\ e.sendCsw = d.sendCsw
  /\ e.attention = d.attention /\ e.resetRequired = d.resetRequired
  /\ e.cbw = d.cbw /\ e.tag = d.tag /\ e.csw = d.csw /\ e.sense = d.sense
  /\ e.iep = d.iep /\ e.r.cur = d.r.cur /\ e.inHalt = d.inHalt /\ e.hwIn = d.hwIn
SameSending(d, e) == e.r.left = d.r.left /\ e.r.src = d.r.src /\ e.r.busy = d.r.busy
SameWork(d, e) == /\ e.w.busy = d.w.busy /\ e.rw.op = d.rw.op /\ e.r.count = d.r.count
                  /\ (NoneFull(d) => NoneFull(e)) /\ e.oep = d.oep
Alike(d, e) == SameTalk(d, e) /\ SameSending(d, e) /\ SameWork(d, e)

LEMMA AlikeInv ==
  ASSUME NEW d, NEW e, NEW h, NEW l, NEW o, DevInv(d, h, l, o), Alike(d, e)
  PROVE  DevInv(e, h, l, o)
<1> USE DEF Alike, SameTalk, SameSending, SameWork
<1>1. /\ Waits(e, h) = Waits(d, h) /\ Done(e, h) = Done(d, h) /\ Told(e, h) = Told(d, h)
      /\ Expl(e) = Expl(d) /\ Still(e) = Still(d) /\ Answers(e) = Answers(d)
      /\ Before(e, h, o) = Before(d, h, o) /\ Alive(e, h, o) = Alive(d, h, o)
      /\ Alternates(e) = Alternates(d)
  BY DEF Waits, Done, Told, Expl, Still, Answers, Before, Alive, Alternates
<1>2. Tags(e, h) /\ Once(e, h) /\ Own(e, h, o) /\ Sending(e, h, o)
  BY <1>1 DEF DevInv, Tags, Once, Own, Sending
<1>3. Stills(e, h, o) /\ Quiet(e, h, o) /\ CswSent(e, h) /\ Reasons(e, h)
  BY <1>1 DEF DevInv, Stills, Quiet, CswSent, Reasons
<1>4. Explains(e, h, l, o) /\ Order(e, h, o) /\ Directions(e, h) /\ AfterReset(e, h, l, o)
  BY <1>1 DEF DevInv, Explains, Order, Directions, AfterReset
<1> QED BY <1>2, <1>3, <1>4 DEF DevInv

\* What is sent ends, or blocks are sent.
LEMMA SendsBlocks ==
  ASSUME NEW d, NEW e, NEW h, NEW l, NEW o, DevInv(d, h, l, o), SameTalk(d, e), SameWork(d, e),
         e.r.left # 0 => e.r.busy /\ e.r.src \notin {"csw", "response"} /\ ~Fresh(h, o)
  PROVE  DevInv(e, h, l, o)
<1> USE DEF SameTalk, SameWork
<1>1. /\ Waits(e, h) = Waits(d, h) /\ Done(e, h) = Done(d, h) /\ Told(e, h) = Told(d, h)
      /\ Expl(e) = Expl(d) /\ Still(e) = Still(d) /\ ~Answers(e)
      /\ Before(e, h, o) = Before(d, h, o) /\ Alive(e, h, o) = Alive(d, h, o)
      /\ Alternates(e) = Alternates(d)
  BY DEF Waits, Done, Told, Expl, Still, Answers, Before, Alive, Alternates
<1>2. Tags(e, h) /\ Once(e, h) /\ Own(e, h, o) /\ Sending(e, h, o)
  BY <1>1 DEF DevInv, Tags, Once, Own, Sending
<1>3. Stills(e, h, o) /\ Quiet(e, h, o) /\ CswSent(e, h) /\ Reasons(e, h)
  BY <1>1 DEF DevInv, Stills, Quiet, CswSent, Reasons
<1>4. Explains(e, h, l, o) /\ Order(e, h, o) /\ Directions(e, h) /\ AfterReset(e, h, l, o)
  BY <1>1 DEF DevInv, Explains, Order, Directions, AfterReset
<1> QED BY <1>2, <1>3, <1>4 DEF DevInv

\* While there is work on blocks no command waits and none is over.
LEMMA AtWork ==
  ASSUME NEW d, NEW h, NEW l, NEW o, DevInv(d, h, l, o), ~Still(d)
  PROVE  /\ ~Before(d, h, o) /\ ~Rests(h, o) /\ ~Fresh(h, o)
         /\ Current(h) => /\ ~Waits(d, h) /\ ~Told(d, h) /\ Moves(h)
                          /\ d.received => d.tag # h.n
                          /\ \A b \in XY : ~Mine(d.oep[b], h)
         /\ Alive(d, h, o) /\ d.inHalt => d.resetRequired
BY DEF DevInv, Stills, AfterReset, Before, Alive, Waits, Order

\* It goes on: packets are taken, the application is asked, the work ends.
Works(d, e) ==
  /\ SameTalk(d, e) /\ SameSending(d, e) /\ (e.w.busy => d.w.busy)
  /\ (d.r.count = 0 => e.r.count = 0) /\ \A b \in XY : e.oep[b] \in {d.oep[b], Free}

LEMMA WorkInv ==
  ASSUME NEW d, NEW e, NEW h, NEW l, NEW o, DevInv(d, h, l, o), ~Still(d), Works(d, e)
  PROVE  DevInv(e, h, l, o)
<1> USE DEF Works, SameTalk, SameSending
<1>1. /\ Done(e, h) = Done(d, h) /\ Told(e, h) = Told(d, h)
      /\ Expl(e) = Expl(d) /\ Answers(e) = Answers(d) /\ Alternates(e) = Alternates(d)
      /\ \A b \in XY : e.oep[b].kind = "cbw" => e.oep[b] = d.oep[b]
  BY DEF Done, Told, Expl, Answers, Alternates, Free
<1>2. /\ ~Before(d, h, o) /\ ~Rests(h, o) /\ ~Fresh(h, o)
      /\ Current(h) => /\ ~Waits(d, h) /\ ~Told(d, h) /\ Moves(h)
                       /\ d.received => d.tag # h.n
                       /\ \A b \in XY : ~Mine(d.oep[b], h)
      /\ Alive(d, h, o) /\ d.inHalt => d.resetRequired
  BY AtWork
<1>3. /\ \A b \in XY : Mine(e.oep[b], h) => Mine(d.oep[b], h) /\ e.oep[b] = d.oep[b]
      /\ ~Before(e, h, o) /\ Alive(e, h, o) = Alive(d, h, o)
  BY <1>1, <1>2 DEF Before, Alive, Waits, Mine
<1>4. Tags(e, h) /\ Once(e, h) /\ Own(e, h, o) /\ Sending(e, h, o)
  BY <1>1, <1>2, <1>3 DEF DevInv, Tags, Once, Own, Sending
<1>5. Stills(e, h, o) /\ Quiet(e, h, o) /\ CswSent(e, h) /\ Reasons(e, h)
  BY <1>1, <1>2, <1>3 DEF DevInv, Stills, Quiet, CswSent, Reasons
<1>6. Explains(e, h, l, o) /\ Order(e, h, o) /\ Directions(e, h) /\ AfterReset(e, h, l, o)
  BY <1>1, <1>2, <1>3 DEF DevInv, Explains, Order, Directions, AfterReset, Moves
<1> QED BY <1>4, <1>5, <1>6 DEF DevInv

\* The invariant says less of a longer history.
LEMMA LongerHistory ==
  ASSUME NEW d, NEW h, NEW l, NEW o, NEW x, DevInv(d, h, l, o), o \subseteq x
  PROVE  DevInv(d, h, l, x)
<1>1. /\ Rests(h, x) => Rests(h, o)
      /\ Fresh(h, x) => Fresh(h, o)
      /\ Before(d, h, x) => Before(d, h, o)
      /\ Alive(d, h, x) => Alive(d, h, o)
  BY DEF Rests, Fresh, Before, Alive
<1>2. Own(d, h, x) /\ Sending(d, h, x) /\ Stills(d, h, x) /\ Quiet(d, h, x)
  BY <1>1 DEF DevInv, Own, Sending, Stills, Quiet
<1>3. Explains(d, h, l, x) /\ Order(d, h, x) /\ AfterReset(d, h, l, x)
  BY <1>1 DEF DevInv, Explains, Order, AfterReset
<1> QED BY <1>2, <1>3 DEF DevInv

\* The invariant tells only the phases apart, not how far a command is.
LEMMA SamePhase ==
  ASSUME NEW d, NEW h, NEW k, NEW l, NEW o, DevInv(d, h, l, o),
         k.n = h.n, k.c = h.c, Current(h), Current(k), k.ph = "haltIn" => d.inHalt
  PROVE  DevInv(d, k, l, o)
<1>1. /\ ~Rests(k, o) /\ ~Fresh(k, o) /\ ~Rests(h, o) /\ ~Fresh(h, o)
      /\ \A p : Mine(p, k) = Mine(p, h) /\ MyStatus(p, k) = MyStatus(p, h)
      /\ Waits(d, k) = Waits(d, h) /\ Done(d, k) = Done(d, h) /\ Told(d, k) = Told(d, h)
      /\ Before(d, k, o) = Before(d, h, o) /\ Alive(d, k, o) = Alive(d, h, o)
      /\ Moves(k) = Moves(h)
  BY DEF Current, Rests, Fresh, Mine, MyStatus, Waits, Done, Told, Before, Alive, Moves
<1>2. Tags(d, k) /\ Once(d, k) /\ Own(d, k, o) /\ Sending(d, k, o)
  BY <1>1 DEF DevInv, Tags, Once, Own, Sending
<1>3. Stills(d, k, o) /\ Quiet(d, k, o) /\ CswSent(d, k) /\ Reasons(d, k)
  BY <1>1 DEF DevInv, Stills, Quiet, CswSent, Reasons
<1>4. Explains(d, k, l, o) /\ Order(d, k, o) /\ Directions(d, k) /\ AfterReset(d, k, l, o)
  BY <1>1 DEF DevInv, Explains, Order, Directions, AfterReset
<1> QED BY <1>2, <1>3, <1>4 DEF DevInv

\* In a phase that is not followed only the numbers of commands count.
LEMMA NotFollowed ==
  ASSUME NEW d, NEW h, NEW l, NEW o, Tags(d, h), d.resetRequired => d.inHalt,
         h.ph # "haltIn", ~Current(h), ~Rests(h, o), ~Fresh(h, o)
  PROVE  DevInv(d, h, l, o)
<1>1. ~Before(d, h, o) /\ ~Alive(d, h, o)
  BY DEF Before, Alive
<1> QED BY <1>1 DEF DevInv, Once, Own, Sending, Stills, Quiet, CswSent, Reasons, Explains,
             Order, Directions, AfterReset

----------------------------------------------------------------------------
(* Packets to the host. *)
LEMMA LoadIsDev == ASSUME NEW d, IsDev(d), d.r.left # 0 PROVE IsDev(Load(d))
<1> DEFINE e == Load(d)
           p == Content(d)
           R == [d.r EXCEPT !.cur = Other(@), !.left = @ - 1, !.pos = @ + 1]
<1>1. e = [d EXCEPT !.iep[d.r.cur] = p, !.r = R]
  BY DEF IsDev, IsRead, DevFields, ReadFields, Load
<1>2. IsRead(R)
  <2>1. R = [f \in ReadFields |-> R[f]]
    BY DEF IsDev, IsRead, ReadFields
  <2>2. /\ R.left = d.r.left - 1 /\ R.count = d.r.count /\ R.cur = Other(d.r.cur)
        /\ R.xy = d.r.xy
    BY DEF IsDev, IsRead, ReadFields
  <2> HIDE DEF R
  <2> QED BY <2>1, <2>2 DEF IsDev, IsRead, Other
<1> HIDE DEF e, p, R
<1> QED BY <1>1, <1>2, ZenonT(60) DEF IsDev, DevFields, e

LEMMA ContentIs ==
  ASSUME NEW d
  PROVE  LET p == Content(d) IN
         /\ p # Free
         /\ p.kind = "csw" => /\ d.r.src = "csw" /\ p.tag = d.csw.tag
                              /\ p.status = d.csw.status
         /\ p.kind = "response" => d.r.src = "response" /\ p.key = d.sense
BY DEF Content, Free, Data

LEMMA LoadInv ==
  ASSUME NEW d, NEW h, NEW l, NEW o, IsDev(d), DevInv(d, h, l, o),
         d.r.left # 0, ~d.inHalt, d.iep[d.r.cur] = Free
  PROVE  DevInv(Load(d), h, l, o)
<1> DEFINE e == Load(d)
           p == Content(d)
<1>1. /\ e.iep = [d.iep EXCEPT ![d.r.cur] = p]
      /\ e.r.cur = Other(d.r.cur) /\ e.r.left = d.r.left - 1
      /\ e.r.src = d.r.src /\ e.r.busy = d.r.busy /\ e.r.count = d.r.count
      /\ e.status = d.status /\ e.received = d.received /\ e.sendCsw = d.sendCsw
      /\ e.attention = d.attention /\ e.resetRequired = d.resetRequired
      /\ e.cbw = d.cbw /\ e.tag = d.tag /\ e.csw = d.csw /\ e.sense = d.sense
      /\ e.w.busy = d.w.busy /\ e.rw.op = d.rw.op
      /\ e.oep = d.oep /\ e.inHalt = d.inHalt /\ e.hwIn = d.hwIn
  BY DEF IsDev, IsRead, DevFields, ReadFields, Load
<1>2. d.r.cur \in XY /\ d.hwIn \in XY /\ d.r.left \in Nat /\ d.iep = [b \in XY |-> d.iep[b]]
  BY DEF IsDev, IsRead
<1>3. p # Free
      /\ (p.kind = "csw" => d.r.src = "csw" /\ p.tag = d.csw.tag /\ p.status = d.csw.status)
      /\ (p.kind = "response" => d.r.src = "response" /\ p.key = d.sense)
  BY ContentIs
<1> HIDE DEF e, p
<1>4. /\ Waits(e, h) = Waits(d, h) /\ Done(e, h) = Done(d, h) /\ Told(e, h) = Told(d, h)
      /\ Expl(e) = Expl(d) /\ Still(e) = Still(d) /\ (Answers(e) => Answers(d))
      /\ Before(e, h, o) = Before(d, h, o) /\ Alive(e, h, o) = Alive(d, h, o)
      /\ (p.kind = "response" => Answers(d))
  BY <1>1, <1>2, <1>3 DEF Waits, Done, Told, Expl, Still, Answers, Before, Alive
<1>5. ~Fresh(h, o) /\ ~d.resetRequired
  BY DEF DevInv, AfterReset, Sending
<1>6. \A b \in XY : e.iep[b] = IF b = d.r.cur THEN p ELSE d.iep[b]
  BY <1>1, <1>2
<1>7. Tags(e, h) /\ Once(e, h) /\ Own(e, h, o) /\ Sending(e, h, o)
  BY <1>1, <1>3, <1>4, <1>6 DEF DevInv, Tags, Once, Own, Sending
<1>8. Stills(e, h, o) /\ Quiet(e, h, o) /\ CswSent(e, h) /\ Directions(e, h)
  BY <1>1, <1>2, <1>3, <1>4, <1>6
     DEF DevInv, Tags, Stills, Quiet, CswSent, Directions, MyStatus, Told
<1>9. Reasons(e, h) /\ Explains(e, h, l, o) /\ AfterReset(e, h, l, o)
  BY <1>1, <1>3, <1>4, <1>5, <1>6
     DEF DevInv, Reasons, Explains, AfterReset, MyStatus, Told, Answers
<1>10. Order(e, h, o)
  <2> SUFFICES ASSUME Alive(e, h, o)
               PROVE  /\ Alternates(e)
                      /\ Current(h) /\ MyStatus(e.iep[e.hwIn], h) =>
                           e.iep[Other(e.hwIn)].kind # "response"
    BY <1>1 DEF Order
  <2>1. Alternates(d)
    BY <1>4, <1>5 DEF DevInv, Order
  <2>2. Alternates(e)
    <3> DEFINE a == d.hwIn
               z == Other(d.hwIn)
    <3>1. a \in XY /\ z \in XY /\ a # z /\ Other(z) = a /\ d.r.cur \in {a, z}
      BY <1>2 DEF Other
    <3>2. CASE d.r.cur = a
      <4>1. e.iep[a] = p /\ e.iep[z] = d.iep[z] /\ e.r.cur = z /\ e.hwIn = a
        BY <1>1, <1>6, <3>1, <3>2
      <4> HIDE DEF a, z
      <4> QED BY <1>3, <2>1, <3>1, <3>2, <4>1 DEF Alternates, a, z
    <3>3. CASE d.r.cur = z
      <4>1. e.iep[z] = p /\ e.iep[a] = d.iep[a] /\ e.r.cur = a /\ e.hwIn = a
        BY <1>1, <1>6, <3>1, <3>3
      <4> HIDE DEF a, z
      <4> QED BY <1>3, <2>1, <3>1, <3>3, <4>1 DEF Alternates, a, z
    <3> QED BY <3>1, <3>2, <3>3
  <2>3. ASSUME Current(h), MyStatus(e.iep[e.hwIn], h), e.iep[Other(e.hwIn)].kind = "response"
        PROVE  FALSE
    <3>1. CASE d.r.cur = d.hwIn
      BY <1>1, <1>2, <1>6, <2>1, <2>3, <3>1 DEF Alternates, Other, Free
    <3>2. CASE d.r.cur # d.hwIn
      <4>1. MyStatus(d.iep[d.hwIn], h) /\ p.kind = "response"
        BY <1>1, <1>2, <1>6, <2>3, <3>2 DEF Other
      <4> QED BY <1>2, <1>4, <2>3, <4>1 DEF DevInv, CswSent
    <3> QED BY <3>1, <3>2
  <2> QED BY <2>2, <2>3
<1> QED BY <1>7, <1>8, <1>9, <1>10 DEF DevInv, e

LEMMA LoadBusy ==
  ASSUME NEW d, IsDev(d)
  PROVE  /\ Load(d).inHalt = d.inHalt /\ Load(d).r.left = d.r.left - 1
         /\ d.r.left \in Nat
BY DEF IsDev, IsRead, DevFields, ReadFields, Load

LEMMA FillInv ==
  ASSUME NEW d, NEW h, NEW l, NEW o, IsDev(d), DevInv(d, h, l, o), d.r.left # 0
  PROVE  IsDev(FillEps(d)) /\ DevInv(FillEps(d), h, l, o)
<1> DEFINE e == Load(d)
<1>1. CASE d.inHalt \/ d.iep[d.r.cur] # Free
  BY <1>1 DEF FillEps
<1>2. CASE ~(d.inHalt \/ d.iep[d.r.cur] # Free)
  <2>1. IsDev(e) /\ DevInv(e, h, l, o) /\ ~e.inHalt /\ e.r.left \in Nat
    BY <1>2, LoadIsDev, LoadInv, LoadBusy DEF IsDev, IsRead
  <2> HIDE DEF e
  <2>2. CASE e.r.left > 0 /\ e.iep[e.r.cur] = Free
    BY <2>1, <2>2, <1>2, LoadIsDev, LoadInv DEF FillEps, e
  <2>3. CASE ~(e.r.left > 0 /\ e.iep[e.r.cur] = Free)
    BY <2>1, <2>3, <1>2 DEF FillEps, e
  <2> QED BY <2>2, <2>3
<1> QED BY <1>1, <1>2

\* The application is asked for blocks, and blocks are sent.
LEMMA AskInv ==
  ASSUME NEW d, NEW b \in XY, NEW h, NEW l, NEW o, IsDev(d), DevInv(d, h, l, o), d.r.count > 0
  PROVE  LET e == AskBlocks(d, b) IN
         IsDev(e) /\ DevInv(e, h, l, o) /\ e.r = d.r /\ e.rw.full = d.rw.full
<1> DEFINE n == Smaller(BufBlocks, d.r.count)
           e == AskBlocks(d, b)
           RW == [d.rw EXCEPT !.op = "read", !.xy = b, !.lba = d.r.lba, !.count = n]
<1>1. n \in Nat /\ d.r.count \in Int
  BY MassStorageAssumption DEF IsDev, IsRead, Smaller
<1> HIDE DEF n
<1>2. IsRw(RW) /\ RW.full = d.rw.full
  BY <1>1 DEF IsDev, IsRw, RwFields
<1>3. e = [d EXCEPT !.rw = RW]
  BY DEF IsDev, IsRw, DevFields, RwFields, AskBlocks, n
<1> HIDE DEF e, RW
<1>4. IsDev(e) /\ e.r = d.r /\ e.rw = RW
  BY <1>2, <1>3 DEF IsDev, DevFields
<1>5. Works(d, e)
  BY <1>3 DEF IsDev, DevFields, Works, SameTalk, SameSending
<1>6. ~Still(d)
  BY <1>1 DEF Still
<1> QED BY <1>2, <1>4, <1>5, <1>6, WorkInv DEF e

LEMMA EndsInv ==
  ASSUME NEW d, NEW h, NEW l, NEW o, IsDev(d), DevInv(d, h, l, o), d.r.left = 0
  PROVE  LET e == [d EXCEPT !.r.busy = FALSE] IN
         IsDev(e) /\ DevInv(e, h, l, o) /\ e.r.count = d.r.count /\ e.rw = d.rw
         /\ e.r.left = 0 /\ ~e.r.busy /\ e.r.xy = d.r.xy
<1> DEFINE e == [d EXCEPT !.r.busy = FALSE]
           R == [d.r EXCEPT !.busy = FALSE]
<1>1. IsRead(R) /\ R.left = 0 /\ R.count = d.r.count /\ R.cur = d.r.cur /\ ~R.busy
      /\ R.xy = d.r.xy
  BY DEF IsDev, IsRead, ReadFields
<1>2. e = [d EXCEPT !.r = R]
  BY DEF IsDev, DevFields
<1> HIDE DEF e, R
<1>3. IsDev(e) /\ e.r = R /\ e.rw = d.rw
  BY <1>1, <1>2 DEF IsDev, DevFields
<1>4. SameTalk(d, e) /\ SameWork(d, e)
  BY <1>1, <1>2, <1>3 DEF IsDev, DevFields, SameTalk, SameWork, NoneFull
<1> QED BY <1>1, <1>3, <1>4, SendsBlocks DEF e

LEMMA SendBlocksInv ==
  ASSUME NEW d, NEW b \in XY, NEW n \in Nat, NEW h, NEW l, NEW o,
         IsDev(d), DevInv(d, h, l, o), ~Fresh(h, o)
  PROVE  LET e == MscSendData(d, b, n) IN
         IsDev(e) /\ DevInv(e, h, l, o) /\ e.rw = d.rw /\ e.r.count = d.r.count
         /\ e.w = d.w /\ e.oep = d.oep /\ SameTalk(d, e) /\ e.r.xy = d.r.xy
<1> DEFINE e == MscSendData(d, b, n)
           R == [d.r EXCEPT !.busy = TRUE, !.left = n, !.src = b, !.pos = 1]
<1>1. CASE ~CanSend(d, n)
  BY <1>1 DEF MscSendData, SameTalk
<1>2. CASE CanSend(d, n)
  <2>1. IsRead(R) /\ R.busy /\ R.src = b /\ R.count = d.r.count /\ R.cur = d.r.cur
        /\ R.xy = d.r.xy
    BY DEF IsDev, IsRead, ReadFields
  <2>2. e = [d EXCEPT !.r = R, !.iepIfg = TRUE]
    BY <1>2 DEF IsDev, DevFields, IsRead, ReadFields, MscSendData
  <2> HIDE DEF e, R
  <2>3. IsDev(e) /\ e.r = R /\ e.rw = d.rw /\ e.w = d.w /\ e.oep = d.oep
    BY <2>1, <2>2 DEF IsDev, DevFields
  <2>4. SameTalk(d, e) /\ SameWork(d, e)
    BY <2>1, <2>2, <2>3 DEF IsDev, DevFields, SameTalk, SameWork, NoneFull
  <2> QED BY <2>1, <2>3, <2>4, SendsBlocks DEF e
<1> QED BY <1>1, <1>2
----------------------------------------------------------------------------
\* The interrupt of the IN endpoint.
LEMMA ToHostSingleInv ==
  ASSUME NEW d, NEW h, NEW l, NEW o, IsDev(d), DevInv(d, h, l, o)
  PROVE  IsDev(ToHostSingle(d)) /\ DevInv(ToHostSingle(d), h, l, o)
<1>1. CASE d.r.left # 0
  BY <1>1, FillInv DEF ToHostSingle
<1>2. CASE d.r.left = 0
  BY <1>2, EndsInv, AskInv DEF ToHostSingle
<1> QED BY <1>1, <1>2

LEMMA ToHostDoubleInv ==
  ASSUME NEW d, NEW h, NEW l, NEW o, IsDev(d), DevInv(d, h, l, o)
  PROVE  IsDev(ToHostDouble(d)) /\ DevInv(ToHostDouble(d), h, l, o)
<1> DEFINE free == Other(d.rw.xy)
           c == [d EXCEPT !.rw.processed = FALSE]
           asks == d.r.count > 0 /\ d.rw.processed /\ ~d.rw.full[free]
           e == IF asks THEN AskBlocks(c, free) ELSE d
<1>1. free \in XY
  BY DEF Other
<1>2. IsDev(c) /\ DevInv(c, h, l, o) /\ c.r = d.r /\ c.rw.full = d.rw.full
  <2> DEFINE RW == [d.rw EXCEPT !.processed = FALSE]
  <2>1. IsRw(RW) /\ RW.op = d.rw.op /\ RW.full = d.rw.full
    BY DEF IsDev, IsRw, RwFields
  <2>2. c = [d EXCEPT !.rw = RW]
    BY DEF IsDev, DevFields
  <2> HIDE DEF c, RW
  <2>3. IsDev(c) /\ c.rw = RW /\ c.r = d.r
    BY <2>1, <2>2 DEF IsDev, DevFields
  <2>4. Alike(d, c)
    BY <2>1, <2>2 DEF IsDev, DevFields, Alike, SameTalk, SameSending, SameWork, NoneFull
  <2> QED BY <2>1, <2>3, <2>4, AlikeInv
<1> HIDE DEF c, free
<1>3. IsDev(e) /\ DevInv(e, h, l, o) /\ e.r = d.r /\ e.rw.full = d.rw.full
  <2>1. CASE asks
    BY <1>1, <1>2, <2>1, AskInv
  <2> QED BY <2>1
<1> DEFINE x == e.r.xy
           next == Other(x)
           f == [e EXCEPT !.r.busy = FALSE, !.rw.full[x] = FALSE, !.rw.packets[x] = 0]
           g == MscSendData(f, next, f.rw.packets[next])
<1>4. ToHostDouble(d) = IF e.r.left # 0 THEN FillEps(e)
                        ELSE IF f.rw.full[next] THEN [g EXCEPT !.r.xy = next] ELSE f
  BY DEF ToHostDouble, c, free
<1> HIDE DEF e
<1>5. CASE e.r.left # 0
  BY <1>3, <1>4, <1>5, FillInv
<1>6. CASE e.r.left = 0
  <2> DEFINE a == [e EXCEPT !.r.busy = FALSE]
             RW == [a.rw EXCEPT !.full[x] = FALSE, !.packets[x] = 0]
  <2>1. IsDev(a) /\ DevInv(a, h, l, o) /\ a.rw = e.rw /\ x \in XY /\ next \in XY /\ x # next
    <3>1. IsDev(a) /\ DevInv(a, h, l, o) /\ a.rw = e.rw
      BY <1>3, <1>6, EndsInv
    <3>2. x \in XY
      BY <1>3 DEF IsDev, IsRead
    <3> QED BY <3>1, <3>2 DEF Other
  <2>2. f = [a EXCEPT !.rw = RW]
    BY <1>3 DEF IsDev, IsRw, IsRead, DevFields, RwFields, ReadFields
  <2> HIDE DEF a
  <2>3. IsRw(RW) /\ RW.op = a.rw.op
        /\ RW.full = [a.rw.full EXCEPT ![x] = FALSE] /\ RW.packets \in [XY -> Nat]
    BY <2>1 DEF IsDev, IsRw, RwFields
  <2> HIDE DEF RW, f
  <2>4. IsDev(f) /\ f.rw = RW
    BY <2>1, <2>2, <2>3 DEF IsDev, DevFields
  <2>5. Alike(a, f)
    <3>1. NoneFull(a) => NoneFull(f)
      BY <2>1, <2>3, <2>4 DEF NoneFull
    <3>2. SameTalk(a, f) /\ SameSending(a, f) /\ f.w = a.w /\ f.r = a.r /\ f.oep = a.oep
      BY <2>1, <2>2 DEF IsDev, DevFields, SameTalk, SameSending
    <3> QED BY <2>3, <2>4, <3>1, <3>2 DEF Alike, SameWork
  <2>6. DevInv(f, h, l, o)
    BY <2>1, <2>5, AlikeInv
  <2>7. CASE f.rw.full[next]
    <3>1. f.rw.packets[next] \in Nat
      BY <2>1, <2>3, <2>4
    <3>2. ~Fresh(h, o)
      <4>1. ~NoneFull(f)
        BY <2>1, <2>7 DEF NoneFull
      <4> QED BY <2>6, <4>1 DEF DevInv, AfterReset
    <3>3. IsDev(g) /\ DevInv(g, h, l, o)
      BY <2>1, <2>4, <2>6, <3>1, <3>2, SendBlocksInv
    <3> HIDE DEF g
    <3> DEFINE k == [g EXCEPT !.r.xy = next]
               R == [g.r EXCEPT !.xy = next]
    <3>4. IsRead(R) /\ R.left = g.r.left /\ R.src = g.r.src /\ R.busy = g.r.busy
          /\ R.count = g.r.count /\ R.cur = g.r.cur
      BY <2>1, <3>3 DEF IsDev, IsRead, ReadFields
    <3>5. k = [g EXCEPT !.r = R]
      BY <3>3 DEF IsDev, DevFields
    <3> HIDE DEF R, k
    <3>6. IsDev(k) /\ k.r = R
      BY <3>3, <3>4, <3>5 DEF IsDev, DevFields
    <3>7. Alike(g, k)
      BY <3>3, <3>4, <3>5, <3>6
         DEF IsDev, DevFields, Alike, SameTalk, SameSending, SameWork, NoneFull
    <3> QED BY <1>4, <1>6, <2>7, <3>3, <3>6, <3>7, AlikeInv DEF k
  <2> QED BY <1>4, <1>6, <2>4, <2>6, <2>7
<1> QED BY <1>5, <1>6

----------------------------------------------------------------------------
(* From the host. *)

\* The data stage of a write moves packets and blocks.
Copies(d, e) ==
  /\ IsDev(e) /\ SameTalk(d, e) /\ e.r = d.r /\ (e.w.busy => d.w.busy)
  /\ \A b \in XY : e.oep[b] \in {d.oep[b], Free}

LEMMA CopiesTwice ==
  ASSUME NEW d, NEW e, NEW f, Copies(d, e), Copies(e, f)
  PROVE  Copies(d, f)
BY DEF Copies, SameTalk

LEMMA CopiesSelf == ASSUME NEW d, IsDev(d) PROVE Copies(d, d)
BY DEF Copies, SameTalk

\* Changes of the blocks being written and of what the application was given.
Changes(d, e, w, rw, oep) ==
  /\ e = [f \in DevFields |-> e[f]] /\ SameTalk(d, e) /\ e.r = d.r /\ e.hwOut = d.hwOut
  /\ e.w = w /\ e.rw = rw /\ e.oep = oep
LEMMA CopiesParts ==
  ASSUME NEW d, NEW e, NEW w, NEW rw, NEW oep, IsDev(d), Changes(d, e, w, rw, oep),
         IsWrite(w), IsRw(rw), w.busy => d.w.busy,
         oep = [b \in XY |-> oep[b]], \A b \in XY : oep[b] \in {d.oep[b], Free}
  PROVE  Copies(d, e)
BY DEF Changes, Copies, IsDev, SameTalk

LEMMA WriteChange ==
  ASSUME NEW d, NEW w, IsDev(d), IsWrite(w), w.busy => d.w.busy
  PROVE  LET e == [d EXCEPT !.w = w] IN Copies(d, e) /\ e.w = w /\ e.rw = d.rw
BY DEF Copies, IsDev, DevFields, SameTalk

LEMMA RwChange ==
  ASSUME NEW d, NEW rw, IsDev(d), IsRw(rw)
  PROVE  LET e == [d EXCEPT !.rw = rw] IN Copies(d, e) /\ e.rw = rw /\ e.w = d.w
BY DEF Copies, IsDev, DevFields, SameTalk

LEMMA CopyCopies ==
  ASSUME NEW d, NEW b \in XY, IsDev(d)
  PROVE  Copies(d, MscCopyUsbToBuff(d, b)) /\ MscCopyUsbToBuff(d, b).rw = d.rw
<1> DEFINE whole == d.w.byte + 1 >= LbaPackets
           W == [d.w EXCEPT !.left = @ - 1, !.free = @ - 1, !.cur = Other(@),
                            !.byte = IF whole THEN 0 ELSE @ + 1,
                            !.count = IF whole THEN @ + 1 ELSE @]
           O == [d.oep EXCEPT ![b] = Free]
<1>1. IsWrite(W) /\ W.busy = d.w.busy
  <2>1. W = [f \in WriteFields |-> W[f]] /\ W.busy = d.w.busy
    BY DEF IsDev, IsWrite, WriteFields
  <2>2. /\ W.count = IF whole THEN d.w.count + 1 ELSE d.w.count
        /\ W.cur = Other(d.w.cur) /\ W.xy = d.w.xy
    BY DEF IsDev, IsWrite, WriteFields
  <2> HIDE DEF W, whole
  <2> QED BY <2>1, <2>2 DEF IsDev, IsWrite, Other
<1>2. O = [x \in XY |-> O[x]] /\ \A x \in XY : O[x] \in {d.oep[x], Free}
  BY DEF IsDev
<1>3. Changes(d, MscCopyUsbToBuff(d, b), W, d.rw, O)
  BY ZenonT(60) DEF MscCopyUsbToBuff, Changes, SameTalk, IsDev, DevFields
<1> HIDE DEF W, O
<1> QED BY <1>1, <1>2, <1>3, CopiesParts DEF IsDev, Changes

LEMMA DeliverCopies ==
  ASSUME NEW d, IsDev(d)
  PROVE  Copies(d, DeliverSingle(d)) /\ Copies(d, DeliverDouble(d))
<1>1. Copies(d, DeliverSingle(d))
  <2> DEFINE W == [d.w EXCEPT !.lba = @ + d.w.count, !.byte = 0, !.count = 0]
             RW == [d.rw EXCEPT !.op = "write", !.lba = d.w.lba, !.count = d.w.count]
  <2>1. IsWrite(W) /\ W.busy = d.w.busy
    BY DEF IsDev, IsWrite, WriteFields
  <2>2. IsRw(RW)
    BY DEF IsDev, IsWrite, IsRw, RwFields
  <2>3. Changes(d, DeliverSingle(d), W, RW, d.oep)
    <3>1. DeliverSingle(d).rw = RW
      BY DEF DeliverSingle, IsDev, DevFields, IsRw, RwFields
    <3>2. DeliverSingle(d).w = W
      BY DEF DeliverSingle, IsDev, DevFields, IsWrite, WriteFields
    <3> DEFINE e == DeliverSingle(d)
    <3>3. e = [d EXCEPT !.rw = e.rw, !.w = e.w]
      <4> DEFINE x == [d EXCEPT !.rw.op = "write", !.rw.lba = d.w.lba, !.rw.count = d.w.count]
      <4>1. x = [d EXCEPT !.rw = x.rw]
        BY DEF IsDev, DevFields
      <4>2. e = [x EXCEPT !.w.lba = x.w.lba + d.w.count, !.w.byte = 0, !.w.count = 0]
        BY DEF DeliverSingle, IsDev, DevFields
      <4> HIDE DEF x, e
      <4>3. e = [x EXCEPT !.w = e.w]
        BY <4>1, <4>2 DEF IsDev, DevFields
      <4> QED BY <4>1, <4>3 DEF IsDev, DevFields
    <3> HIDE DEF e, W, RW
    <3>4. e = [f \in DevFields |-> e[f]] /\ SameTalk(d, e) /\ e.r = d.r
          /\ e.hwOut = d.hwOut /\ e.oep = d.oep
      BY <3>3, ZenonT(60) DEF IsDev, DevFields, SameTalk
    <3> QED BY <3>1, <3>2, <3>4 DEF Changes, e
  <2> HIDE DEF W, RW
  <2> QED BY <2>1, <2>2, <2>3, CopiesParts DEF IsDev
<1>2. Copies(d, DeliverDouble(d))
  <2> DEFINE First == [d.rw EXCEPT !.first = TRUE, !.op = "write", !.lba = d.w.lba,
                                   !.count = d.w.count]
             r1 == IF d.rw.first THEN d.rw ELSE First
             RW == [r1 EXCEPT !.full[d.w.xy] = TRUE, !.lbas[d.w.xy] = d.w.lba,
                              !.counts[d.w.xy] = d.w.count]
  <2>1. IsRw(First)
    BY DEF IsDev, IsWrite, IsRw, RwFields
  <2> HIDE DEF First
  <2>2. IsRw(r1)
    BY <2>1 DEF IsDev
  <2>3. Changes(d, DeliverDouble(d), d.w, RW, d.oep)
    <3> DEFINE e == IF d.rw.first THEN d
                    ELSE [d EXCEPT !.rw.first = TRUE, !.rw.op = "write", !.rw.lba = d.w.lba,
                                   !.rw.count = d.w.count]
    <3>1. e.rw = r1
      BY DEF First, IsDev, DevFields, IsRw, RwFields
    <3>2. e = [f \in DevFields |-> e[f]] /\ SameTalk(d, e) /\ e.r = d.r
          /\ e.hwOut = d.hwOut /\ e.w = d.w /\ e.oep = d.oep
      BY DEF IsDev, DevFields, SameTalk
    <3>3. DeliverDouble(d) = [e EXCEPT !.rw.full[d.w.xy] = TRUE, !.rw.lbas[d.w.xy] = d.w.lba,
                                       !.rw.counts[d.w.xy] = d.w.count]
      BY DEF DeliverDouble
    <3> HIDE DEF e, r1
    <3>4. DeliverDouble(d).rw = RW
      BY <2>2, <3>1, <3>2, <3>3 DEF DevFields, IsRw, RwFields
    <3> DEFINE x == DeliverDouble(d)
    <3>5. x = [e EXCEPT !.rw = x.rw]
      BY <3>2, <3>3 DEF DevFields
    <3> HIDE DEF x, RW
    <3>6. x = [f \in DevFields |-> x[f]] /\ SameTalk(d, x) /\ x.r = d.r
          /\ x.hwOut = d.hwOut /\ x.w = d.w /\ x.oep = d.oep
      BY <3>2, <3>5 DEF SameTalk, DevFields
    <3> QED BY <3>4, <3>6 DEF Changes, x
  <2> HIDE DEF r1
  <2>4. IsRw(RW)
    BY <2>2 DEF IsDev, IsWrite, IsRw, RwFields
  <2> HIDE DEF RW
  <2> QED BY <2>3, <2>4, CopiesParts DEF IsDev
<1> QED BY <1>1, <1>2

LEMMA TakeCopies == ASSUME NEW d, IsDev(d) PROVE Copies(d, TakePackets(d))
<1> DEFINE b  == d.w.cur
           W  == [d.w EXCEPT !.ct1 = b]
           d1 == [d EXCEPT !.w.ct1 = b]
           d2 == MscCopyUsbToBuff(d1, b)
           d3 == IF d2.w.left > 0 /\ CanTake(d2) THEN MscCopyUsbToBuff(d2, Other(b)) ELSE d2
<1>1. b \in XY /\ Other(b) \in XY
  BY DEF IsDev, IsWrite, Other
<1>2. Copies(d, d1)
  <2>1. IsWrite(W) /\ W.busy = d.w.busy
    BY DEF IsDev, IsWrite, WriteFields
  <2>2. d1 = [d EXCEPT !.w = W]
    BY DEF IsDev, DevFields
  <2> HIDE DEF W, d1
  <2> QED BY <2>1, <2>2, WriteChange
<1>3. TakePackets(d) = IF ~CanTake(d) THEN d1
        ELSE IF d3.w.free # 0 /\ d3.w.left # 0 THEN d3
             ELSE IF d.double THEN DeliverDouble(d3) ELSE DeliverSingle(d3)
  BY DEF TakePackets
<1> HIDE DEF d1
<1>4. Copies(d1, d2)
  BY <1>1, <1>2, CopyCopies DEF Copies
<1> HIDE DEF d2
<1>5. Copies(d2, d3)
  BY <1>1, <1>4, CopyCopies, CopiesSelf DEF Copies
<1> HIDE DEF d3
<1>6. Copies(d, d3)
  BY <1>2, <1>4, <1>5, CopiesTwice
<1>7. Copies(d3, DeliverDouble(d3)) /\ Copies(d3, DeliverSingle(d3))
  BY <1>6, DeliverCopies DEF Copies
<1> QED BY <1>2, <1>3, <1>6, <1>7, CopiesTwice

LEMMA HandOverCopies == ASSUME NEW d, IsDev(d) PROVE Copies(d, HandOver(d))
<1> DEFINE z == Other(d.rw.xy)
           e == [d EXCEPT !.rw.full[d.rw.xy] = FALSE]
           R1 == [d.rw EXCEPT !.full[d.rw.xy] = FALSE]
           R2 == [R1 EXCEPT !.processed = FALSE, !.xy = z, !.op = "write",
                            !.lba = R1.lbas[z], !.count = R1.counts[z]]
<1>1. z \in XY
  BY DEF Other
<1>2. IsRw(R1)
  BY DEF IsDev, IsRw, RwFields
<1>3. e = [d EXCEPT !.rw = R1] /\ e.rw = R1
  BY DEF IsDev, DevFields
<1>4. IsRw(R2)
  <2> HIDE DEF R1, z
  <2> QED BY <1>1, <1>2 DEF IsRw, RwFields
<1>5. [e EXCEPT !.rw.processed = FALSE, !.rw.xy = z, !.rw.op = "write",
                !.rw.lba = e.rw.lbas[z], !.rw.count = e.rw.counts[z]] = [d EXCEPT !.rw = R2]
  <2> DEFINE x == [e EXCEPT !.rw.processed = FALSE, !.rw.xy = z, !.rw.op = "write",
                            !.rw.lba = e.rw.lbas[z], !.rw.count = e.rw.counts[z]]
  <2>1. IsDev(e)
    BY <1>2, <1>3, RwChange DEF Copies
  <2> HIDE DEF e, R1
  <2>2. x.rw = R2
    BY <1>3, <2>1 DEF IsDev, DevFields, IsRw, RwFields
  <2> HIDE DEF R2
  <2>3. x = [e EXCEPT !.rw = x.rw]
    BY <2>1 DEF IsDev, DevFields
  <2> HIDE DEF x
  <2> QED BY <1>3, <2>2, <2>3 DEF IsDev, DevFields, x
<1>6. HandOver(d) \in {d, e, [d EXCEPT !.rw = R2]}
  BY <1>5 DEF HandOver
<1> HIDE DEF e, R1, R2
<1> QED BY <1>2, <1>3, <1>4, <1>6, RwChange, CopiesSelf

LEMMA SwitchCopies == ASSUME NEW d, IsDev(d) PROVE Copies(d, SwitchBuffer(d))
<1> DEFINE z == Other(d.w.xy)
           W == [d.w EXCEPT !.lba = @ + d.w.count, !.byte = 0, !.count = 0,
                            !.ptr = z, !.xy = z, !.free = BufPackets]
<1>1. z \in XY
  BY DEF Other
<1>2. SwitchBuffer(d) \in {d, [d EXCEPT !.w = W]}
  BY DEF SwitchBuffer
<1> HIDE DEF z
<1>3. IsWrite(W) /\ W.busy = d.w.busy
  BY <1>1 DEF IsDev, IsWrite, WriteFields
<1> HIDE DEF W
<1> QED BY <1>2, <1>3, WriteChange, CopiesSelf

LEMMA ReceiveDataCopies == ASSUME NEW d, IsDev(d) PROVE Copies(d, ReceiveData(d))
<1> DEFINE e == BeforeTake(d)
           W == [e.w EXCEPT !.ptr = "null", !.busy = FALSE]
<1>1. Copies(d, e)
  <2> DEFINE x == HandOver(d)
  <2>1. Copies(d, x)
    BY HandOverCopies
  <2> HIDE DEF x
  <2>2. Copies(x, SwitchBuffer(x))
    BY <2>1, SwitchCopies DEF Copies
  <2>3. e \in {d, x, SwitchBuffer(x)}
    BY DEF BeforeTake, x
  <2> HIDE DEF e
  <2> QED BY <2>1, <2>2, <2>3, CopiesTwice, CopiesSelf
<1>2. ReceiveData(d) \in {e, TakePackets(e), [e EXCEPT !.w.ptr = "null", !.w.busy = FALSE]}
  BY DEF ReceiveData
<1> HIDE DEF e
<1>3. Copies(e, TakePackets(e))
  BY <1>1, TakeCopies DEF Copies
<1>4. Copies(e, [e EXCEPT !.w.ptr = "null", !.w.busy = FALSE])
  <2>1. IsDev(e)
    BY <1>1 DEF Copies
  <2>2. IsWrite(W) /\ ~W.busy
    BY <2>1 DEF IsDev, IsWrite, WriteFields
  <2>3. [e EXCEPT !.w.ptr = "null", !.w.busy = FALSE] = [e EXCEPT !.w = W]
    BY <2>1 DEF IsDev, DevFields, IsWrite, WriteFields
  <2> HIDE DEF W
  <2> QED BY <2>1, <2>2, <2>3, WriteChange
<1> QED BY <1>1, <1>2, <1>3, <1>4, CopiesTwice

----------------------------------------------------------------------------
\* What the interrupt of the OUT endpoint keeps: the status and the reasons, and
\* no command block comes of nothing.
Keeps(d, e, h) ==
  /\ e.status = d.status /\ e.attention = d.attention /\ e.sendCsw = d.sendCsw
  /\ e.csw = d.csw /\ e.iep = d.iep /\ e.inHalt = d.inHalt /\ e.hwIn = d.hwIn /\ e.r = d.r
  /\ Waits(e, h) => Waits(d, h)
  /\ Done(e, h) => Done(d, h) \/ Waits(d, h)

LEMMA ReceiveCbwInv ==
  ASSUME NEW d, NEW h, NEW l, NEW o, IsDev(d), DevInv(d, h, l, o), ~d.received, ~d.w.busy
  PROVE  LET e == ReceiveCbw(d) IN IsDev(e) /\ DevInv(e, h, l, o)
                                  /\ (Current(h) => Keeps(d, e, h))
<1> DEFINE b == d.w.cur
           c == [d EXCEPT !.w.ct1 = b]
           W == [d.w EXCEPT !.ct1 = b]
           pkt == d.oep[b]
           e == ReceiveCbw(d)
<1>1. b \in XY
  BY DEF IsDev, IsWrite
<1>2. IsWrite(W) /\ W.busy = d.w.busy
  BY DEF IsDev, IsWrite, WriteFields
<1>3. c = [d EXCEPT !.w = W] /\ c.oep = d.oep /\ c.w = W
  BY DEF IsDev, DevFields
<1> HIDE DEF c, W
<1>4. IsDev(c) /\ Alike(d, c) /\ c.r = d.r
  BY <1>2, <1>3 DEF IsDev, DevFields, Alike, SameTalk, SameSending, SameWork, NoneFull
<1>5. CASE pkt = Free
  <2>1. e = c
    BY <1>3, <1>5 DEF ReceiveCbw, c
  <2>2. Keeps(d, e, h)
    BY <1>4, <2>1 DEF Alike, SameTalk, SameWork, Keeps, Waits, Done
  <2> QED BY <1>4, <2>1, <2>2, AlikeInv
<1>6. CASE pkt # Free
  <2> DEFINE V == [c.w EXCEPT !.cur = Other(b)]
             cbw == pkt.kind = "cbw"
  <2>1. IsWrite(V) /\ V.busy = d.w.busy
    BY <1>1, <1>2, <1>3 DEF IsWrite, WriteFields, Other
  <2>2. e = [c EXCEPT !.w.cur = Other(b), !.oep[b] = Free, !.received = TRUE,
                      !.cbw = IF cbw THEN pkt.c ELSE NoCbw,
                      !.tag = IF cbw THEN pkt.tag ELSE 0]
    BY <1>6 DEF ReceiveCbw, c
  <2>3. e.w = V
    BY <1>4, <2>2 DEF IsDev, DevFields
  <2>4. /\ e = [f \in DevFields |-> e[f]]
        /\ e.status = d.status /\ e.sendCsw = d.sendCsw
        /\ e.attention = d.attention /\ e.resetRequired = d.resetRequired
        /\ e.csw = d.csw /\ e.sense = d.sense /\ e.rw = c.rw
        /\ e.iep = d.iep /\ e.r = d.r /\ e.inHalt = d.inHalt /\ e.hwIn = d.hwIn
        /\ e.hwOut = c.hwOut
    <3> DEFINE O == [c.oep EXCEPT ![b] = Free]
               C == IF cbw THEN pkt.c ELSE NoCbw
               T == IF cbw THEN pkt.tag ELSE 0
    <3>1. e = [c EXCEPT !.w = V, !.oep = O, !.received = TRUE, !.cbw = C, !.tag = T]
      BY <2>2
    <3>2. SameTalk(d, c) /\ c.r = d.r
      BY <1>4 DEF Alike
    <3> HIDE DEF e, V, O, C, T
    <3>3. c = [f \in DevFields |-> c[f]]
      BY <1>4 DEF IsDev
    <3>4. /\ e = [f \in DevFields |-> e[f]]
          /\ e.status = c.status /\ e.sendCsw = c.sendCsw
          /\ e.attention = c.attention /\ e.resetRequired = c.resetRequired
          /\ e.csw = c.csw /\ e.sense = c.sense /\ e.rw = c.rw
          /\ e.iep = c.iep /\ e.r = c.r /\ e.inHalt = c.inHalt /\ e.hwIn = c.hwIn
          /\ e.hwOut = c.hwOut
      BY <3>1, <3>3, ZenonT(60) DEF DevFields
    <3> QED BY <3>2, <3>4 DEF SameTalk
  <2>5. /\ e.oep = [d.oep EXCEPT ![b] = Free] /\ e.received
        /\ e.cbw = (IF cbw THEN pkt.c ELSE NoCbw) /\ e.tag = (IF cbw THEN pkt.tag ELSE 0)
        /\ e.rw.op = d.rw.op
    BY <1>3, <1>4, <2>2, ZenonT(60) DEF IsDev, DevFields, Alike, SameWork
  <2> HIDE DEF e, V, cbw
  <2>6. IsDev(e)
    BY <1>1, <1>4, <2>1, <2>3, <2>4, <2>5 DEF IsDev
  <2>7. /\ e.oep[b] = Free /\ \A x \in XY : x # b => e.oep[x] = d.oep[x]
        /\ \A x \in XY : Mine(e.oep[x], h) => x # b /\ Mine(d.oep[x], h)
    <3>1. e.oep[b] = Free /\ \A x \in XY : x # b => e.oep[x] = d.oep[x]
      BY <1>1, <2>5 DEF IsDev
    <3>2. ~Mine(Free, h)
      BY DEF Mine, Free
    <3> QED BY <3>1, <3>2
  <2>8. h.n \in Nat /\ (e.tag = h.n => Mine(pkt, h) \/ h.n = 0)
        /\ (Current(h) => h.n # 0)
        /\ (Current(h) /\ e.tag = h.n => Mine(pkt, h))
    BY <2>5 DEF DevInv, Tags, Mine, cbw
  <2>9. /\ Waits(e, h) => Waits(d, h) \/ ~Current(h)
        /\ Told(e, h) = Told(d, h) /\ Expl(e) = Expl(d) /\ Still(e) = Still(d)
        /\ Answers(e) = Answers(d) /\ Alternates(e) = Alternates(d)
        /\ Current(h) /\ Done(e, h) => Waits(d, h)
    BY <1>1, <2>1, <2>3, <2>4, <2>5, <2>7, <2>8
       DEF Waits, Told, Expl, Still, Answers, Alternates, Done
  <2>10. /\ Before(e, h, o) => Before(d, h, o)
         /\ Alive(e, h, o) => Alive(d, h, o)
         /\ ~(Current(h) /\ Done(e, h))
    BY <2>4, <2>9 DEF Before, Alive, DevInv, Quiet, Done
  <2>11. Tags(e, h)
    <3>1. e.tag \in 0..h.n /\ e.cbw \in Command \cup {NoCbw} /\ (e.tag = h.n => e.cbw = h.c)
      BY <1>1, <2>5, <2>8 DEF DevInv, Tags, Mine, cbw
    <3> QED BY <2>4, <2>7, <3>1 DEF DevInv, Tags, Mine, Free
  <2>12. Once(e, h)
    <3> SUFFICES ASSUME Current(h)
                 PROVE  /\ \A x \in XY : Mine(e.oep[x], h) =>
                             ~Mine(e.oep[Other(x)], h) /\ e.tag # h.n /\ ~Told(e, h)
                        /\ e.received /\ e.tag = h.n => ~Told(e, h)
      BY DEF Once
    <3>1. \A x \in XY : Mine(d.oep[x], h) => ~Mine(d.oep[Other(x)], h) /\ ~Told(d, h)
      BY DEF DevInv, Once
    <3>2. ASSUME NEW x \in XY, Mine(e.oep[x], h)
          PROVE  ~Mine(e.oep[Other(x)], h) /\ e.tag # h.n /\ ~Told(e, h)
      <4>1. x # b /\ Mine(d.oep[x], h) /\ Other(x) = b
        BY <1>1, <2>7, <3>2 DEF Other
      <4>2. ~Mine(pkt, h)
        BY <3>1, <4>1
      <4>3. ~Mine(e.oep[b], h)
        BY <1>1, <2>7
      <4> QED BY <2>8, <2>9, <3>1, <4>1, <4>2, <4>3
    <3> QED BY <1>1, <2>8, <2>9, <3>1, <3>2
  <2>13. Own(e, h, o)
    <3>1. ~NoCbw.good
      BY DEF NoCbw
    <3> QED BY <1>1, <2>5, <2>7, <3>1 DEF DevInv, Own, Mine, cbw, Free
  <2>14. Sending(e, h, o) /\ Stills(e, h, o) /\ Quiet(e, h, o) /\ CswSent(e, h)
    BY <2>4, <2>9, <2>10 DEF DevInv, Sending, Stills, Quiet, CswSent
  <2>15. Reasons(e, h) /\ Explains(e, h, l, o) /\ Order(e, h, o) /\ Directions(e, h)
    BY <2>4, <2>9, <2>10 DEF DevInv, Reasons, Explains, Order, Directions
  <2>16. AfterReset(e, h, l, o)
    <3>1. ~Fresh(h, o)
      BY <1>1, <1>6 DEF DevInv, AfterReset, NoPackets
    <3> QED BY <3>1 DEF AfterReset
  <2>17. DevInv(e, h, l, o)
    BY <2>11, <2>12, <2>13, <2>14, <2>15, <2>16 DEF DevInv
  <2>18. Current(h) => Keeps(d, e, h)
    BY <2>4, <2>9 DEF Keeps
  <2> QED BY <2>6, <2>17, <2>18 DEF e
<1> QED BY <1>5, <1>6

\* The interrupt of the OUT endpoint, and its calls by the main program.
LEMMA FromHostInv ==
  ASSUME NEW d, NEW h, NEW l, NEW o, IsDev(d), DevInv(d, h, l, o)
  PROVE  LET e == MSCFromHostToBuffer(d)
         IN IsDev(e) /\ DevInv(e, h, l, o) /\ (Current(h) => Keeps(d, e, h))
<1> DEFINE e == MSCFromHostToBuffer(d)
<1>1. CASE d.stallEndpoint
  <2>1. e = [d EXCEPT !.outHalt = TRUE]
    BY <1>1 DEF MSCFromHostToBuffer
  <2>2. IsDev(e) /\ Alike(d, e) /\ e.r = d.r
    BY <2>1 DEF IsDev, DevFields, Alike, SameTalk, SameSending, SameWork, NoneFull
  <2> HIDE DEF e
  <2>3. Keeps(d, e, h)
    BY <2>2 DEF Alike, SameTalk, SameWork, Keeps, Waits, Done
  <2> QED BY <2>2, <2>3, AlikeInv DEF e
<1>2. CASE ~d.stallEndpoint /\ d.received
  BY <1>2 DEF MSCFromHostToBuffer, Keeps
<1>3. CASE ~d.stallEndpoint /\ ~d.received /\ ~d.w.busy
  BY <1>3, ReceiveCbwInv DEF MSCFromHostToBuffer
<1>4. CASE ~d.stallEndpoint /\ ~d.received /\ d.w.busy
  <2>1. e = ReceiveData(d)
    BY <1>4 DEF MSCFromHostToBuffer
  <2>2. Copies(d, e)
    BY <2>1, ReceiveDataCopies
  <2> HIDE DEF e
  <2>3. ~Still(d)
    BY <1>4 DEF Still
  <2>4. Works(d, e) /\ IsDev(e) /\ Keeps(d, e, h)
    BY <2>2 DEF Works, Copies, SameTalk, SameSending, Keeps, Waits, Done, Mine, Free
  <2> QED BY <2>3, <2>4, WorkInv DEF e
<1> QED BY <1>1, <1>2, <1>3, <1>4

----------------------------------------------------------------------------
(* Commands are performed. *)

\* A command keeps the numbers, the packets and the halts there are.
Keep(d, e) ==
  /\ IsDev(e) /\ e.cbw = d.cbw /\ e.tag = d.tag /\ e.csw = d.csw
  /\ e.resetRequired = d.resetRequired /\ e.iep = d.iep /\ e.oep = d.oep
  /\ e.hwIn = d.hwIn /\ e.r.cur = d.r.cur /\ (d.inHalt => e.inHalt)

\* When there is nothing else to do, it fails for a reason, begins to send or to
\* receive blocks or to answer, and stalls with no work left.
Good(d) == CanSend(d, 1) /\ Still(d) /\ d.status = "passed"
Well(d, e) ==
  /\ e.status = "failed" =>
       e.attention \/ (e.sense # "none" /\ Still(e)) \/ FailsInSilence(d.cbw)
  /\ d.cbw.op \notin {"READ", "WRITE"} => Still(e)
  /\ e.inHalt => d.inHalt \/ Still(e)
  /\ d.cbw.op = "SENSE" /\ Answers(e) /\ Expl(d) => e.sense # "none"
  /\ e.r.left # 0 => e.r.busy
  /\ d.cbw.dir = "in" => ~e.w.busy
  /\ d.cbw.dir = "out" => e.r.count = 0
Performs(d, e) == Keep(d, e) /\ (Good(d) => Well(d, e))

\* It may do no more than set the status, the sense data and halts.
Says(d, e) ==
  /\ e = [f \in DevFields |-> e[f]] /\ e.r = d.r /\ e.w = d.w /\ e.rw = d.rw
  /\ e.cbw = d.cbw /\ e.tag = d.tag /\ e.csw = d.csw /\ e.resetRequired = d.resetRequired
  /\ e.iep = d.iep /\ e.oep = d.oep /\ e.hwIn = d.hwIn /\ e.hwOut = d.hwOut
  /\ (d.inHalt => e.inHalt)

LEMMA SaysTwice ==
  ASSUME NEW d, NEW e, NEW f, Says(d, e), Says(e, f)
  PROVE  Says(d, f)
BY DEF Says

LEMMA SaysPerforms ==
  ASSUME NEW d, NEW e, IsDev(d), Says(d, e),
         Good(d) /\ e.status = "failed" =>
           e.attention \/ e.sense # "none" \/ FailsInSilence(d.cbw)
  PROVE  Performs(d, e)
<1>1. Keep(d, e)
  BY DEF Keep, Says, IsDev
<1>2. ASSUME Good(d) PROVE Well(d, e)
  <2>1. Still(e) /\ ~Answers(e) /\ e.r.left = 0
    BY <1>2 DEF Good, CanSend, Still, Answers, Says
  <2> QED BY <1>2, <2>1 DEF Well, Still
<1> QED BY <1>1, <1>2 DEF Performs

LEMMA FailedSays ==
  ASSUME NEW d, IsDev(d), NEW key
  PROVE  LET e == Failed(d, key) IN
         Says(d, e) /\ e.sense = key /\ e.status = "failed" /\ e.attention = d.attention
BY DEF Failed, Sense, IsDev, DevFields, Says

LEMMA StallSays ==
  ASSUME NEW d, d = [f \in DevFields |-> d[f]], NEW e, e \in {StallIn(d), StallOut(d), StallFor(d)}
  PROVE  Says(d, e) /\ e.sense = d.sense /\ e.status = d.status /\ e.attention = d.attention
<1>1. LET x == StallIn(d) IN
      Says(d, x) /\ x.sense = d.sense /\ x.status = d.status /\ x.attention = d.attention
  BY DEF StallIn, DevFields, Says
<1>2. LET x == StallOut(d) IN
      Says(d, x) /\ x.sense = d.sense /\ x.status = d.status /\ x.attention = d.attention
  BY DEF StallOut, DevFields, Says
<1>3. StallFor(d) \in {StallIn(d), StallOut(d)}
  BY DEF StallFor
<1> QED BY <1>1, <1>2, <1>3

LEMMA DisagreeSays ==
  ASSUME NEW d, IsDev(d), NEW dir
  PROVE  LET e == Disagree(d, dir) IN Says(d, e) /\ e.sense = "illegal"
<1> DEFINE mismatch == dir # d.cbw.dir
           st == IF ~mismatch /\ d.cbw.fit = "less" THEN "phase" ELSE "failed"
           re == IF mismatch \/ d.cbw.fit = "more" THEN "all" ELSE "0"
           e == [d EXCEPT !.sense = "illegal", !.status = st, !.residue = re]
<1>1. Disagree(d, dir) \in {e, StallFor(e)}
  BY DEF Disagree
<1> HIDE DEF st, re
<1>2. Says(d, e) /\ e.sense = "illegal" /\ e = [f \in DevFields |-> e[f]]
  BY DEF IsDev, DevFields, Says
<1> HIDE DEF e
<1>3. Says(e, StallFor(e)) /\ StallFor(e).sense = "illegal"
  BY <1>2, StallSays
<1> QED BY <1>1, <1>2, <1>3, SaysTwice

LEMMA RespondEffect ==
  ASSUME NEW d, IsDev(d)
  PROVE  LET e == Respond(d) IN
         /\ Keep(d, e) /\ e.sense = d.sense /\ e.attention = d.attention
         /\ e.w = d.w /\ e.rw = d.rw /\ e.r.count = d.r.count /\ e.inHalt = d.inHalt
         /\ CanSend(d, 1) => e.status = d.status /\ e.r.busy
<1>1. CASE CanSend(d, 1)
  <2> DEFINE R == [d.r EXCEPT !.busy = TRUE, !.left = 1, !.src = "response", !.pos = 1]
             e == [d EXCEPT !.r.busy = TRUE, !.r.left = 1, !.r.src = "response", !.r.pos = 1,
                            !.iepIfg = TRUE]
  <2>1. Respond(d) = e
    BY <1>1 DEF Respond, MscSendData
  <2>2. e = [d EXCEPT !.r = R, !.iepIfg = TRUE]
    BY DEF IsDev, DevFields, IsRead, ReadFields
  <2>3. IsRead(R) /\ R.cur = d.r.cur /\ R.count = d.r.count /\ R.busy
    BY DEF IsDev, IsRead, ReadFields
  <2> HIDE DEF R, e
  <2>4. e.r = R /\ IsDev(e)
    BY <2>2, <2>3 DEF IsDev, DevFields
  <2>5. /\ e.cbw = d.cbw /\ e.tag = d.tag /\ e.csw = d.csw /\ e.status = d.status
        /\ e.resetRequired = d.resetRequired /\ e.iep = d.iep /\ e.oep = d.oep
        /\ e.hwIn = d.hwIn /\ e.inHalt = d.inHalt /\ e.sense = d.sense
        /\ e.attention = d.attention /\ e.w = d.w /\ e.rw = d.rw
    BY <2>2 DEF IsDev, DevFields
  <2> QED BY <2>1, <2>3, <2>4, <2>5 DEF Keep
<1>2. CASE ~CanSend(d, 1)
  BY <1>2 DEF Respond, IsDev, DevFields, Keep
<1> QED BY <1>1, <1>2

\* A response, of a command that may say something first.
LEMMA RespondPerforms ==
  ASSUME NEW d, NEW c, NEW e, IsDev(d), Says(d, c), c.status = d.status,
         Keep(c, e), e.w = c.w, e.rw = c.rw, e.r.count = c.r.count,
         e.sense = c.sense, e.inHalt = c.inHalt, c.inHalt = d.inHalt,
         CanSend(c, 1) => e.status = c.status /\ e.r.busy,
         d.cbw.op = "SENSE" /\ Expl(d) => c.sense # "none"
  PROVE  Performs(d, e)
<1>1. Keep(d, e)
  BY DEF Keep, Says
<1>2. ASSUME Good(d) PROVE Well(d, e)
  <2>1. Still(e) /\ e.status = "passed" /\ e.r.busy
    BY <1>2 DEF Good, CanSend, Still, Says
  <2> QED BY <1>2, <2>1 DEF Well, Still, Says
<1> QED BY <1>1, <1>2 DEF Performs

LEMMA SaysSelf == ASSUME NEW d, IsDev(d) PROVE Says(d, d)
BY DEF Says, IsDev

\* Each command.
LEMMA Read10Performs ==
  ASSUME NEW d, IsDev(d), d.cbw \in Command, d.cbw.op = "READ"
  PROVE  Performs(d, Read10(d))
<1>1. CASE ~Agrees(d, "in")
  BY <1>1, DisagreeSays, SaysPerforms DEF Read10
<1>2. CASE Agrees(d, "in")
  <2> DEFINE n == Smaller(d.cbw.blocks, BufBlocks)
             R == [d.r EXCEPT !.lba = d.tag * MaxBlocks, !.count = d.cbw.blocks, !.xy = "X"]
             RW == [EmptyRw EXCEPT !.op = "read", !.lba = d.tag * MaxBlocks, !.count = n,
                                   !.lbas = d.rw.lbas, !.counts = d.rw.counts]
             e == [d EXCEPT !.r.lba = d.tag * MaxBlocks, !.r.count = d.cbw.blocks,
                            !.r.xy = "X", !.rw = RW]
  <2>1. Read10(d) = e
    BY <1>2 DEF Read10
  <2>2. e = [d EXCEPT !.r = R, !.rw = RW]
    BY DEF IsDev, DevFields, IsRead, ReadFields
  <2>3. d.cbw.blocks \in Nat /\ n \in Nat
    BY MassStorageAssumption DEF Command, Smaller
  <2> HIDE DEF n
  <2>4. /\ IsRead(R) /\ R.cur = d.r.cur /\ R.left = d.r.left /\ R.src = d.r.src
        /\ R.busy = d.r.busy
    <3>1. R = [f \in ReadFields |-> R[f]] /\ R.count = d.cbw.blocks /\ R.xy = "X"
          /\ R.cur = d.r.cur /\ R.left = d.r.left /\ R.src = d.r.src /\ R.busy = d.r.busy
      BY DEF IsDev, IsRead, ReadFields
    <3> HIDE DEF R
    <3> QED BY <2>3, <3>1 DEF IsDev, IsRead
  <2>5. IsRw(RW)
    BY <2>3 DEF IsDev, IsRw, RwFields, EmptyRw
  <2> HIDE DEF R, RW, e
  <2>6. e.r = R /\ IsDev(e)
    BY <2>2, <2>4, <2>5 DEF IsDev, DevFields
  <2>7. /\ e.cbw = d.cbw /\ e.tag = d.tag /\ e.csw = d.csw /\ e.status = d.status
        /\ e.resetRequired = d.resetRequired /\ e.iep = d.iep /\ e.oep = d.oep
        /\ e.hwIn = d.hwIn /\ e.inHalt = d.inHalt /\ e.w = d.w
    BY <2>2 DEF IsDev, DevFields
  <2>8. d.cbw.dir = "in"
    BY <1>2 DEF Agrees
  <2>9. Keep(d, e)
    BY <2>4, <2>6, <2>7 DEF Keep
  <2>10. Good(d) => Well(d, e)
    BY <2>4, <2>6, <2>7, <2>8 DEF Good, CanSend, Still, Well
  <2> QED BY <2>1, <2>9, <2>10 DEF Performs
<1> QED BY <1>1, <1>2

LEMMA Write10Performs ==
  ASSUME NEW d, IsDev(d), d.cbw \in Command, d.cbw.op = "WRITE"
  PROVE  Performs(d, Write10(d))
<1>1. CASE ~Agrees(d, "out")
  BY <1>1, DisagreeSays, SaysPerforms DEF Write10
<1>2. CASE Agrees(d, "out")
  <2> DEFINE W == [d.w EXCEPT !.left = d.cbw.blocks * LbaPackets, !.ptr = "X",
                          !.free = BufPackets, !.busy = TRUE, !.lba = d.tag * MaxBlocks,
                          !.byte = 0, !.count = 0, !.xy = "X"]
             RW == [EmptyRw EXCEPT !.packets = d.rw.packets]
             e == [d EXCEPT !.w = W, !.rw = RW]
  <2>1. Write10(d) = e
    BY <1>2 DEF Write10
  <2>2. IsWrite(W)
    BY DEF IsDev, IsWrite, WriteFields
  <2>3. IsRw(RW)
    BY DEF IsDev, IsRw, RwFields, EmptyRw
  <2> HIDE DEF W, RW
  <2>4. IsDev(e)
    BY <2>2, <2>3 DEF IsDev, DevFields
  <2>5. /\ e.cbw = d.cbw /\ e.tag = d.tag /\ e.csw = d.csw /\ e.status = d.status
        /\ e.resetRequired = d.resetRequired /\ e.iep = d.iep /\ e.oep = d.oep
        /\ e.hwIn = d.hwIn /\ e.inHalt = d.inHalt /\ e.r = d.r
    BY DEF IsDev, DevFields
  <2> HIDE DEF e
  <2>6. d.cbw.dir = "out"
    BY <1>2 DEF Agrees
  <2>7. Keep(d, e)
    BY <2>4, <2>5 DEF Keep
  <2>8. Good(d) => Well(d, e)
    BY <2>5, <2>6 DEF Good, CanSend, Still, Well
  <2> QED BY <2>1, <2>7, <2>8 DEF Performs
<1> QED BY <1>1, <1>2

LEMMA InquiryPerforms ==
  ASSUME NEW d, IsDev(d), d.cbw.op = "INQUIRY"
  PROVE  Performs(d, Inquiry(d))
<1>1. CASE d.cbw.fit = "more"
  <2> DEFINE c == Failed(d, "illegal")
             e == StallIn(c)
  <2> HIDE DEF c
  <2>1. Inquiry(d) = e
    BY <1>1 DEF Inquiry, c
  <2>2. Says(d, c) /\ c.sense = "illegal"
    BY FailedSays DEF c
  <2>3. Says(c, e) /\ e.sense = "illegal"
    BY <2>2, StallSays DEF Says
  <2> HIDE DEF e
  <2> QED BY <2>1, <2>2, <2>3, SaysTwice, SaysPerforms
<1>2. CASE d.cbw.fit # "more" /\ d.cbw.want = 0
  <2>1. LET e == [d EXCEPT !.residue = "0"] IN Says(d, e) /\ e.status = d.status
    BY DEF IsDev, DevFields, Says
  <2>2. Performs(d, [d EXCEPT !.residue = "0"])
    BY <2>1, SaysPerforms DEF Good
  <2> QED BY <1>2, <2>2 DEF Inquiry
<1>3. CASE d.cbw.fit # "more" /\ ~(d.cbw.want = 0)
  <2> DEFINE c == Respond(d)
             e == IF CanSend(d, 1) THEN [c EXCEPT !.residue = "0"] ELSE c
  <2>1. /\ Keep(d, c) /\ c.sense = d.sense /\ c.attention = d.attention
        /\ c.w = d.w /\ c.rw = d.rw /\ c.r.count = d.r.count /\ c.inHalt = d.inHalt
        /\ CanSend(d, 1) => c.status = d.status /\ c.r.busy
    BY RespondEffect
  <2>2. Inquiry(d) = e
    BY <1>3 DEF Inquiry
  <2> HIDE DEF c
  <2>3. Says(c, e) /\ IsDev(e) /\ e.status = c.status /\ e.sense = c.sense /\ e.inHalt = c.inHalt
    BY <2>1 DEF Keep, IsDev, DevFields, Says
  <2> HIDE DEF e
  <2>4. Keep(d, e)
    BY <2>1, <2>3 DEF Keep, Says
  <2>5. Performs(d, e)
    BY <2>1, <2>3, <2>4, SaysSelf, RespondPerforms DEF Says
  <2> QED BY <2>2, <2>5
<1> QED BY <1>1, <1>2, <1>3

LEMMA RequestSensePerforms ==
  ASSUME NEW d, IsDev(d), d.cbw.op = "SENSE"
  PROVE  Performs(d, RequestSense(d))
<1> DEFINE key == IF d.present THEN "attention" ELSE "notready"
           c == IF ~d.attention THEN d ELSE Sense(d, key)
           f == IF d.cbw.want = 0 THEN [c EXCEPT !.status = "failed"]
                ELSE IF CanSend(c, 1) THEN [Respond(c) EXCEPT !.residue = "0"] ELSE Respond(c)
           e == [f EXCEPT !.attention = FALSE]
<1>1. /\ IsDev(c) /\ Says(d, c) /\ c.status = d.status /\ c.inHalt = d.inHalt
      /\ Expl(d) => c.sense # "none"
  BY DEF IsDev, DevFields, Says, Sense, Expl
<1>2. RequestSense(d) = e
  BY DEF RequestSense
<1> HIDE DEF c
<1>3. CASE d.cbw.want = 0
  <2>1. e = [c EXCEPT !.status = "failed", !.attention = FALSE]
    BY <1>1, <1>3 DEF IsDev, DevFields
  <2> HIDE DEF e, f
  <2>2. Says(c, e)
    BY <1>1, <2>1 DEF IsDev, DevFields, Says
  <2>3. FailsInSilence(d.cbw)
    BY <1>3 DEF FailsInSilence
  <2> QED BY <1>1, <1>2, <2>2, <2>3, SaysTwice, SaysPerforms
<1>4. CASE d.cbw.want # 0
  <2> DEFINE x == Respond(c)
  <2>1. /\ Keep(c, x) /\ x.sense = c.sense /\ x.attention = c.attention
        /\ x.w = c.w /\ x.rw = c.rw /\ x.r.count = c.r.count /\ x.inHalt = c.inHalt
        /\ CanSend(c, 1) => x.status = c.status /\ x.r.busy
    BY <1>1, RespondEffect
  <2> HIDE DEF x
  <2>2. f = IF CanSend(c, 1) THEN [x EXCEPT !.residue = "0"] ELSE x
    BY <1>4 DEF x
  <2> HIDE DEF f
  <2>3. Says(x, f) /\ IsDev(f) /\ f.status = x.status /\ f.sense = x.sense /\ f.inHalt = x.inHalt
    BY <2>1, <2>2 DEF Keep, IsDev, DevFields, Says
  <2>4. Says(f, e) /\ IsDev(e) /\ e.status = f.status /\ e.sense = f.sense /\ e.inHalt = f.inHalt
    BY <2>3 DEF IsDev, DevFields, Says
  <2> HIDE DEF e
  <2>5. Says(x, e)
    BY <2>3, <2>4, SaysTwice
  <2>6. Keep(c, e)
    BY <2>1, <2>4, <2>5 DEF Keep, Says
  <2>7. Performs(d, e)
    BY <1>1, <2>1, <2>3, <2>4, <2>5, <2>6, RespondPerforms DEF Says
  <2> QED BY <1>2, <2>7
<1> QED BY <1>3, <1>4

LEMMA TestUnitReadyPerforms ==
  ASSUME NEW d, IsDev(d), d.cbw \in Command, d.cbw.op = "READY"
  PROVE  Performs(d, TestUnitReady(d))
<1> DEFINE x == Disagree(d, "out")
           c == IF Agrees(d, "out") THEN d ELSE [x EXCEPT !.status = "failed"]
           e == [c EXCEPT !.sense = "none"]
<1>1. TestUnitReady(d) = e
  BY DEF TestUnitReady, Sense
<1>2. Says(d, x)
  BY DisagreeSays
<1> HIDE DEF x
<1>3. Says(d, c)
  BY <1>2 DEF IsDev, DevFields, Says
<1>4. c.status = "failed" /\ d.status = "passed" => FailsInSilence(d.cbw)
  BY DEF Agrees, FailsInSilence, Command
<1> HIDE DEF c
<1>5. Says(c, e) /\ e.status = c.status
  BY <1>3 DEF DevFields, Says
<1> HIDE DEF e
<1> QED BY <1>1, <1>3, <1>4, <1>5, SaysTwice, SaysPerforms DEF Good

LEMMA UnknownPerforms ==
  ASSUME NEW d, IsDev(d)
  PROVE  Performs(d, UnknownRequest(d))
<1> DEFINE x == Failed(d, "illegal")
           e == [x EXCEPT !.residue = "0"]
           c == [e EXCEPT !.supported = FALSE]
<1>1. Says(d, x) /\ x.sense = "illegal"
  BY FailedSays
<1>2. UnknownRequest(d) \in {e, StallFor(c)}
  BY DEF UnknownRequest
<1> HIDE DEF x
<1>3. Says(d, e) /\ e.sense = "illegal"
  BY <1>1 DEF Says, DevFields
<1>4. Says(e, c) /\ c.sense = "illegal" /\ c = [f \in DevFields |-> c[f]]
  BY <1>1 DEF Says, DevFields
<1> HIDE DEF e, c
<1>5. Says(c, StallFor(c)) /\ StallFor(c).sense = "illegal"
  BY <1>4, StallSays
<1> QED BY <1>2, <1>3, <1>4, <1>5, SaysTwice, SaysPerforms

LEMMA ResponsePerforms ==
  ASSUME NEW d, IsDev(d), d.cbw.op # "SENSE"
  PROVE  Performs(d, Respond(d))
<1> DEFINE e == Respond(d)
<1>1. /\ Keep(d, e) /\ e.sense = d.sense /\ e.attention = d.attention
      /\ e.w = d.w /\ e.rw = d.rw /\ e.r.count = d.r.count /\ e.inHalt = d.inHalt
      /\ CanSend(d, 1) => e.status = d.status /\ e.r.busy
  BY RespondEffect
<1> HIDE DEF e
<1>2. Performs(d, e)
  BY <1>1, SaysSelf, RespondPerforms
<1> QED BY <1>2 DEF e

LEMMA StallPerforms ==
  ASSUME NEW d, IsDev(d), NEW key, key # "none", NEW c, c = Failed(d, key),
         NEW e, e \in {c, StallIn(c), StallOut(c), StallFor(c)}
  PROVE  Performs(d, e)
<1>1. Says(d, c) /\ c.sense # "none"
  BY FailedSays
<1>2. Says(c, e) /\ e.sense = c.sense
  <2>1. IsDev(c) /\ c = [f \in DevFields |-> c[f]]
    BY <1>1 DEF Says, IsDev
  <2> QED BY <2>1, StallSays, SaysSelf
<1> QED BY <1>1, <1>2, SaysTwice, SaysPerforms

LEMMA ProtectedPerforms ==
  ASSUME NEW d, IsDev(d), d.cbw.op = "WRITE"
  PROVE  Performs(d, StallOut([Failed(d, "protect") EXCEPT !.w.busy = FALSE, !.residue = "1"]))
<1> DEFINE c == Failed(d, "protect")
           W == [c.w EXCEPT !.busy = FALSE]
           x == [c EXCEPT !.w.busy = FALSE, !.residue = "1"]
           e == StallOut(x)
<1>1. Says(d, c) /\ c.sense = "protect" /\ IsDev(c)
  BY FailedSays DEF Says, IsDev
<1> HIDE DEF c
<1>2. IsWrite(W) /\ ~W.busy
  BY <1>1 DEF IsDev, IsWrite, WriteFields
<1>3. x = [c EXCEPT !.w = W, !.residue = "1"]
  BY <1>1 DEF IsDev, DevFields
<1> HIDE DEF W, x
<1>4. IsDev(x) /\ Keep(c, x) /\ x.sense = "protect" /\ x.w = W /\ x.r = c.r /\ x.rw = c.rw
  BY <1>1, <1>2, <1>3 DEF IsDev, DevFields, Keep
<1>5. Says(x, e) /\ e.sense = "protect"
  BY <1>4, StallSays DEF IsDev
<1> HIDE DEF e
<1>6. Keep(d, e)
  BY <1>1, <1>4, <1>5 DEF Keep, Says, IsDev
<1>7. Good(d) => Well(d, e)
  <2> SUFFICES ASSUME Good(d) PROVE Well(d, e)
    OBVIOUS
  <2>1. Still(e) /\ e.r.left = 0 /\ e.r = d.r /\ ~e.w.busy
    BY <1>1, <1>2, <1>4, <1>5 DEF Good, CanSend, Still, Says
  <2> QED BY <1>5, <2>1 DEF Well, Still
<1> QED BY <1>6, <1>7 DEF Performs, e, x, c

LEMMA Command10Performs ==
  ASSUME NEW d, IsDev(d), d.cbw \in Command
  PROVE  Performs(d, Command10(d))
<1> DEFINE op == d.cbw.op
<1>1. op \in Ops
  BY DEF Command
<1>2. CASE op = "READ"
  BY <1>2, Read10Performs, StallPerforms DEF Command10
<1>3. CASE op = "WRITE"
  BY <1>3, Write10Performs, StallPerforms, ProtectedPerforms DEF Command10
<1>4. CASE op = "READY"
  BY <1>4, TestUnitReadyPerforms, StallPerforms DEF Command10
<1>5. CASE op = "PASS"
  <2>1. Performs(d, d)
    BY SaysSelf, SaysPerforms DEF Good
  <2> QED BY <1>5, <2>1 DEF Command10
<1>6. CASE op = "INQUIRY"
  BY <1>6, InquiryPerforms DEF Command10
<1>7. CASE op = "SENSE"
  BY <1>7, RequestSensePerforms DEF Command10
<1>8. CASE op \in {"REPLY", "MODE"}
  <2>1. Performs(d, Disagree(d, "in"))
    BY DisagreeSays, SaysPerforms
  <2>2. Performs(d, Respond(d))
    BY <1>8, ResponsePerforms
  <2>3. Performs(d, StallFor(Failed(d, "notready")))
    BY StallPerforms
  <2> QED BY <1>8, <2>1, <2>2, <2>3 DEF Command10, ReportLuns, ModeSense
<1>9. CASE op = "UNKNOWN"
  BY <1>9, UnknownPerforms DEF Command10
<1> QED BY <1>1, <1>2, <1>3, <1>4, <1>5, <1>6, <1>7, <1>8, <1>9 DEF Ops

LEMMA CmdParserPerforms ==
  ASSUME NEW d, IsDev(d), d.cbw \in Command
  PROVE  Performs(d, CmdParser(d))
<1> DEFINE c == [d EXCEPT !.residue = "all"]
           x == [c EXCEPT !.status = "failed"]
<1>1. IsDev(c) /\ Says(d, c) /\ c.status = d.status /\ c.attention = d.attention
      /\ c.sense = d.sense /\ (Good(d) => Good(c)) /\ c.cbw = d.cbw /\ c.inHalt = d.inHalt
      /\ Expl(c) = Expl(d)
  BY DEF IsDev, DevFields, Says, Good, CanSend, Still, Expl
<1>2. CmdParser(d) =
        IF d.attention /\ d.cbw.op \notin {"INQUIRY", "SENSE"} THEN x
        ELSE IF ~c.cbw.cmdLen THEN c ELSE Command10(c)
  BY DEF CmdParser
<1> HIDE DEF c
<1>3. CASE d.attention /\ d.cbw.op \notin {"INQUIRY", "SENSE"}
  <2>1. Says(c, x) /\ x.attention
    BY <1>1, <1>3 DEF Says, DevFields
  <2> HIDE DEF x
  <2> QED BY <1>1, <1>2, <1>3, <2>1, SaysTwice, SaysPerforms
<1>4. CASE ~(d.attention /\ d.cbw.op \notin {"INQUIRY", "SENSE"})
  <2>1. Performs(d, c)
    BY <1>1, SaysPerforms DEF Good
  <2> DEFINE e == Command10(c)
  <2>2. Performs(c, e)
    BY <1>1, Command10Performs
  <2> HIDE DEF e
  <2>3. Performs(d, e)
    BY <1>1, <2>2 DEF Performs, Keep, Says, Well
  <2> QED BY <1>2, <1>4, <2>1, <2>3 DEF e
<1> QED BY <1>3, <1>4

LEMMA RefuseInv ==
  ASSUME NEW d, NEW h, NEW l, NEW o, IsDev(d), DevInv(d, h, l, o), d.received, ~d.sendCsw
  PROVE  LET e == [Refuse(d) EXCEPT !.received = FALSE] IN IsDev(e) /\ DevInv(e, h, l, o)
<1> DEFINE c == [d EXCEPT !.resetRequired = TRUE, !.outHalt = TRUE, !.inHalt = TRUE,
                          !.status = "failed", !.residue = "0"]
           e == [Refuse(d) EXCEPT !.received = FALSE]
<1>1. /\ c = [f \in DevFields |-> c[f]] /\ c.resetRequired /\ c.inHalt
      /\ c.cbw = d.cbw /\ c.tag = d.tag /\ c.csw = d.csw /\ c.sense = d.sense
      /\ c.attention = d.attention /\ c.sendCsw = d.sendCsw /\ c.r = d.r /\ c.w = d.w
      /\ c.rw = d.rw /\ c.iep = d.iep /\ c.hwIn = d.hwIn /\ c.hwOut = d.hwOut /\ c.oep = d.oep
  BY ZenonT(60) DEF IsDev, DevFields
<1>2. e = [[c EXCEPT !.oep["X"] = Free] EXCEPT !.received = FALSE]
  BY DEF Refuse, ClearOepByteCount
<1> HIDE DEF c, e
<1>3. /\ e = [f \in DevFields |-> e[f]] /\ e.resetRequired /\ e.inHalt /\ ~e.received
      /\ e.cbw = c.cbw /\ e.tag = c.tag /\ e.csw = c.csw /\ e.sense = c.sense
      /\ e.attention = c.attention /\ e.sendCsw = c.sendCsw /\ e.r = c.r /\ e.w = c.w
      /\ e.rw = c.rw /\ e.iep = c.iep /\ e.hwIn = c.hwIn /\ e.hwOut = c.hwOut
      /\ e.oep = [c.oep EXCEPT !["X"] = Free]
  BY <1>1, <1>2 DEF DevFields
<1>4. IsDev(e)
  BY <1>1, <1>3 DEF IsDev
<1>5. /\ \A b \in XY : e.oep[b] \in {d.oep[b], Free}
      /\ \A b \in XY : Mine(e.oep[b], h) => Mine(d.oep[b], h) /\ e.oep[b] = d.oep[b]
      /\ \A b \in XY : e.oep[b].kind = "cbw" => e.oep[b] = d.oep[b]
  BY <1>1, <1>3 DEF IsDev, Mine, Free
<1>6. /\ Waits(e, h) => Waits(d, h)
      /\ Told(e, h) = Told(d, h) /\ Expl(e) = Expl(d) /\ Still(e) = Still(d)
      /\ Answers(e) = Answers(d) /\ ~Done(e, h) /\ ~Fresh(h, o)
  BY <1>1, <1>3, <1>5 DEF Waits, Told, Expl, Still, Answers, Done, DevInv, AfterReset
<1>7. (Before(e, h, o) => Before(d, h, o)) /\ (Alive(e, h, o) => Alive(d, h, o))
  BY <1>6 DEF Before, Alive
<1>8. Tags(e, h) /\ Once(e, h) /\ Own(e, h, o) /\ Sending(e, h, o)
  <2>1. Tags(e, h)
    BY <1>1, <1>3, <1>5 DEF DevInv, Tags
  <2>2. Once(e, h)
    BY <1>1, <1>3, <1>5, <1>6 DEF DevInv, Once, Other
  <2>3. Own(e, h, o) /\ Sending(e, h, o)
    BY <1>1, <1>3, <1>5, <1>7 DEF DevInv, Own, Sending
  <2> QED BY <2>1, <2>2, <2>3
<1>9. Stills(e, h, o) /\ Quiet(e, h, o) /\ CswSent(e, h) /\ Reasons(e, h)
  BY <1>1, <1>3, <1>6, <1>7 DEF DevInv, Stills, Quiet, CswSent, Reasons
<1>10. Explains(e, h, l, o) /\ Order(e, h, o) /\ Directions(e, h) /\ AfterReset(e, h, l, o)
  BY <1>1, <1>3, <1>6, <1>7 DEF DevInv, Explains, Order, Directions, AfterReset
<1> QED BY <1>4, <1>8, <1>9, <1>10 DEF DevInv, e

\* The host's command is performed.
LEMMA ParseInv ==
  ASSUME NEW d, NEW h, NEW l, NEW o, IsDev(d), DevInv(d, h, l, o), d.received, ~d.sendCsw,
         ~d.r.busy, Current(h), d.tag = h.n, ~Meaningless(d), NEW e,
         e = [[CmdParser([d EXCEPT !.status = "passed"]) EXCEPT !.sendCsw = TRUE]
                EXCEPT !.received = FALSE],
         e.inHalt /\ ~d.inHalt => d.iep = NoPackets
  PROVE  IsDev(e) /\ DevInv(e, h, l, o)
<1> DEFINE c == [d EXCEPT !.status = "passed"]
           x == CmdParser(c)
<1>1. /\ d.cbw = h.c /\ h.c \in Command /\ ~d.resetRequired
      /\ Waits(d, h) /\ Before(d, h, o) /\ Alive(d, h, o)
      /\ ~Rests(h, o) /\ ~Fresh(h, o)
  BY DEF DevInv, Tags, Meaningless, Waits, Before, Alive, Current, Rests, Fresh
<1>2. /\ Still(d) /\ ~Answers(d) /\ ~d.inHalt /\ d.r.left = 0 /\ ~Told(d, h)
      /\ \A b \in XY : d.iep[b].kind # "response" /\ ~Mine(d.oep[b], h)
      /\ Alternates(d)
  BY <1>1 DEF DevInv, Stills, Quiet, Sending, Once, Order
<1>3. /\ IsDev(c) /\ c.status = "passed" /\ c.cbw = d.cbw /\ c.tag = d.tag /\ c.csw = d.csw
      /\ c.resetRequired = d.resetRequired /\ c.iep = d.iep /\ c.oep = d.oep
      /\ c.hwIn = d.hwIn /\ c.r = d.r /\ c.w = d.w /\ c.rw = d.rw /\ c.inHalt = d.inHalt
      /\ c.sense = d.sense /\ c.attention = d.attention
  BY DEF IsDev, DevFields
<1> HIDE DEF c
<1>4. Keep(c, x) /\ Well(c, x)
  <2>1. Good(c)
    BY <1>2, <1>3 DEF Good, CanSend, Still
  <2> QED BY <1>1, <1>3, <2>1, CmdParserPerforms DEF Performs
<1>5. e = [[x EXCEPT !.sendCsw = TRUE] EXCEPT !.received = FALSE]
  BY DEF c
<1> HIDE DEF x
<1>6. /\ e = [f \in DevFields |-> e[f]] /\ e.sendCsw /\ ~e.received
      /\ e.cbw = x.cbw /\ e.tag = x.tag /\ e.csw = x.csw /\ e.sense = x.sense
      /\ e.attention = x.attention /\ e.status = x.status /\ e.r = x.r /\ e.w = x.w
      /\ e.rw = x.rw /\ e.iep = x.iep /\ e.hwIn = x.hwIn /\ e.hwOut = x.hwOut
      /\ e.oep = x.oep /\ e.inHalt = x.inHalt /\ e.resetRequired = x.resetRequired
  <2> DEFINE y == [x EXCEPT !.sendCsw = TRUE]
  <2>1. x = [f \in DevFields |-> x[f]]
    BY <1>4 DEF Keep, IsDev
  <2>2. /\ y = [f \in DevFields |-> y[f]] /\ y.sendCsw
        /\ \A f \in DevFields \ {"sendCsw"} : y[f] = x[f]
    BY <2>1 DEF DevFields
  <2>3. e = [y EXCEPT !.received = FALSE]
    BY <1>5
  <2> HIDE DEF y
  <2>4. /\ e = [f \in DevFields |-> e[f]] /\ e.sendCsw /\ ~e.received
        /\ \A f \in DevFields \ {"sendCsw", "received"} : e[f] = x[f]
    BY <2>2, <2>3 DEF DevFields
  <2> QED BY <2>4 DEF DevFields
<1>7. IsDev(e)
  BY <1>4, <1>6, ZenonT(60) DEF Keep, IsDev
<1>8. /\ e.cbw = h.c /\ e.tag = h.n /\ e.csw = d.csw /\ ~e.resetRequired /\ e.iep = d.iep
      /\ e.oep = d.oep /\ e.hwIn = d.hwIn /\ e.r.cur = d.r.cur
  BY <1>1, <1>3, <1>4, <1>6 DEF Keep
<1>9. /\ ~Waits(e, h) /\ Done(e, h) /\ ~Told(e, h) /\ ~Before(e, h, o) /\ Alternates(e)
  BY <1>1, <1>2, <1>6, <1>8 DEF Waits, Done, Told, Before, Alternates
<1>10. /\ e.status = "failed" => e.attention \/ (e.sense # "none" /\ Still(e))
                                 \/ FailsInSilence(h.c)
       /\ ~Moves(h) => Still(e)
       /\ e.inHalt => Still(e) /\ d.iep = NoPackets
       /\ h.c.op = "SENSE" /\ Answers(e) /\ Expl(d) => e.sense # "none"
       /\ e.r.left # 0 => e.r.busy
       /\ h.c.dir = "in" => ~e.w.busy
       /\ h.c.dir = "out" => e.r.count = 0
  BY <1>1, <1>2, <1>3, <1>4, <1>6 DEF Well, Still, Moves, Answers, Expl
<1>11. Tags(e, h) /\ Once(e, h) /\ Own(e, h, o) /\ Sending(e, h, o)
  BY <1>1, <1>2, <1>6, <1>8, <1>9, <1>10 DEF DevInv, Tags, Once, Own, Sending, Current
<1>12. Stills(e, h, o) /\ Quiet(e, h, o) /\ CswSent(e, h) /\ Reasons(e, h)
  BY <1>1, <1>6, <1>8, <1>9, <1>10 DEF DevInv, Stills, Quiet, CswSent, Reasons, Told
<1>13. Explains(e, h, l, o)
  BY <1>1, <1>2, <1>8, <1>9, <1>10 DEF DevInv, Explains
<1>14. Order(e, h, o) /\ Directions(e, h) /\ AfterReset(e, h, l, o)
  BY <1>1, <1>2, <1>7, <1>8, <1>9, <1>10 DEF Order, Directions, AfterReset, IsDev, Other
<1> QED BY <1>7, <1>11, <1>12, <1>13, <1>14 DEF DevInv

----------------------------------------------------------------------------
(* The actions. *)

\* The inductive invariant: nothing is said of the device once a status was sent
\* with blocks still asked for, or a stall left packets in the endpoint.
MassInv ==
  /\ IsHost(host) /\ IsLast(last)
  /\ Clean(odd) => last.explained /\ IsDev(dev) /\ DevInv(dev, host, last, odd)

LEMMA StillClean == ASSUME NEW o, NEW x, o \subseteq x, Clean(x) PROVE Clean(o)
BY DEF Clean

\* The interrupts: the pending bit is cleared first.
LEMMA ClearedInv ==
  ASSUME NEW d, NEW e, NEW h, NEW l, NEW o, IsDev(d), DevInv(d, h, l, o),
         \/ \E v : e = [d EXCEPT !.iepIfg = v]
         \/ \E v : e = [d EXCEPT !.oepIfg = v]
         \/ \E v : e = [d EXCEPT !.configured = v]
  PROVE  IsDev(e) /\ DevInv(e, h, l, o)
<1>1. IsDev(e) /\ Alike(d, e)
  BY DEF IsDev, DevFields, Alike, SameTalk, SameSending, SameWork, NoneFull
<1> QED BY <1>1, AlikeInv

LEMMA InIsrStep == ASSUME MassInv, InIsr PROVE MassInv'
<1> SUFFICES ASSUME Clean(odd)
             PROVE  last.explained /\ IsDev(dev') /\ DevInv(dev', host, last, odd)
  BY DEF InIsr, MassInv
<1> DEFINE d == [dev EXCEPT !.iepIfg = FALSE]
<1>1. IsDev(d) /\ DevInv(d, host, last, odd) /\ last.explained
  BY ClearedInv DEF MassInv
<1> HIDE DEF d
<1>2. dev' = MSCToHostFromBuffer(d)
  BY DEF InIsr, d
<1> QED BY <1>1, <1>2, ToHostSingleInv, ToHostDoubleInv DEF MSCToHostFromBuffer

LEMMA OutIsrStep == ASSUME MassInv, OutIsr PROVE MassInv'
<1> SUFFICES ASSUME Clean(odd')
             PROVE  last.explained /\ IsDev(dev') /\ DevInv(dev', host, last, odd')
  BY DEF OutIsr, MassInv
<1> DEFINE d == [dev EXCEPT !.oepIfg = FALSE]
<1>1. odd \subseteq odd' /\ Clean(odd)
  BY StillClean DEF OutIsr
<1>2. IsDev(d) /\ DevInv(d, host, last, odd) /\ last.explained
  BY <1>1, ClearedInv DEF MassInv
<1> HIDE DEF d
<1>3. dev' = MSCFromHostToBuffer(d)
  BY DEF OutIsr, d
<1>4. IsDev(dev') /\ DevInv(dev', host, last, odd)
  BY <1>2, <1>3, FromHostInv
<1> QED BY <1>1, <1>2, <1>4, LongerHistory

LEMMA TakeStep == ASSUME MassInv, Take PROVE MassInv'
BY FromHostInv DEF Take, MassInv

LEMMA PerformInv ==
  ASSUME NEW d, NEW h, NEW l, NEW o, IsDev(d), DevInv(d, h, l, o), d.received, ~d.sendCsw,
         ~d.r.busy, NEW e, e = Perform(d), e.inHalt /\ ~d.inHalt => d.iep = NoPackets
  PROVE  IsDev(e) /\ DevInv(e, h, l, o)
<1>1. CASE Meaningless(d)
  BY <1>1, RefuseInv DEF Perform
<1>2. CASE ~Meaningless(d)
  <2>1. e = [[CmdParser([d EXCEPT !.status = "passed"]) EXCEPT !.sendCsw = TRUE]
               EXCEPT !.received = FALSE]
    BY <1>2 DEF Perform
  <2>2. d.cbw.good /\ ~d.resetRequired
    BY <1>2 DEF Meaningless
  <2>3. CASE Current(h) /\ d.tag = h.n
    BY <1>2, <2>1, <2>3, ParseInv
  <2>4. CASE ~(Current(h) /\ d.tag = h.n)
    <3>1. ~Current(h) /\ ~Rests(h, o) /\ ~Fresh(h, o) /\ h.ph # "haltIn"
      BY <2>2, <2>4 DEF DevInv, Own, Current
    <3> DEFINE c == [d EXCEPT !.status = "passed"]
               x == CmdParser(c)
    <3>2. d.cbw \in Command
      BY <2>2 DEF DevInv, Tags, NoCbw
    <3>3. IsDev(c) /\ Says(d, c)
      BY DEF IsDev, DevFields, Says
    <3> HIDE DEF c
    <3>4. Keep(c, x)
      BY <3>2, <3>3, CmdParserPerforms DEF Performs, Says
    <3>5. e = [[x EXCEPT !.sendCsw = TRUE] EXCEPT !.received = FALSE]
      BY <2>1 DEF c
    <3> HIDE DEF x
    <3>6. /\ e = [f \in DevFields |-> e[f]]
          /\ e.cbw = x.cbw /\ e.tag = x.tag /\ e.csw = x.csw
          /\ e.r = x.r /\ e.w = x.w /\ e.rw = x.rw /\ e.iep = x.iep /\ e.oep = x.oep
          /\ e.hwIn = x.hwIn /\ e.hwOut = x.hwOut /\ e.inHalt = x.inHalt
          /\ e.resetRequired = x.resetRequired
      BY <3>4, <3>5, ZenonT(60) DEF Keep, IsDev, DevFields
    <3>6a. IsDev(e)
      BY <3>4, <3>6 DEF Keep, IsDev
    <3>6b. Keep(x, e)
      BY <3>4, <3>6, <3>6a DEF Keep
    <3>7. Tags(e, h) /\ ~e.resetRequired
      BY <2>2, <3>3, <3>4, <3>6b DEF DevInv, Tags, Keep, Says
    <3> QED BY <3>1, <3>6a, <3>7, NotFollowed
  <2> QED BY <2>3, <2>4
<1> QED BY <1>1, <1>2

LEMMA OdditiesSay ==
  ASSUME NEW d, NEW e, NEW o, Clean(o \cup Oddities(d, e))
  PROVE  /\ e.inHalt /\ ~d.inHalt => d.iep = NoPackets /\ ~(d.r.left > 0)
         /\ ~(e.w.busy /\ ~d.w.busy /\ e.w.left = 0)
<1>1. "inFlight" \notin Oddities(d, e) /\ "noBlocks" \notin Oddities(d, e)
  BY DEF Clean
<1> QED BY <1>1 DEF Oddities

LEMMA PollStep == ASSUME MassInv, Poll PROVE MassInv'
<1> SUFFICES ASSUME Clean(odd')
             PROVE  last.explained /\ IsDev(dev') /\ DevInv(dev', host, last, odd')
  BY DEF Poll, MassInv
<1> DEFINE d == IF dev.r.busy THEN [dev EXCEPT !.r.busy = FALSE] ELSE dev
           p == Perform(d)
           goesOn == dev.r.busy /\ (dev.r.left # 0 \/ dev.r.count # 0)
<1>1. odd \subseteq odd' /\ Clean(odd)
  BY StillClean DEF Poll
<1>2. IsDev(dev) /\ DevInv(dev, host, last, odd) /\ last.explained
  BY <1>1 DEF MassInv
<1>3. CASE goesOn
  <2>1. dev' \in {dev, [dev EXCEPT !.iepIfg = TRUE]}
    BY <1>3 DEF Poll
  <2> QED BY <1>1, <1>2, <2>1, ClearedInv, LongerHistory
<1>4. CASE ~goesOn
  <2>1. IsDev(d) /\ DevInv(d, host, last, odd) /\ ~d.r.busy
    BY <1>2, <1>4, EndsInv
  <2>2. \/ dev' = d
        \/ /\ ~d.sendCsw /\ d.received /\ odd' = odd \cup Oddities(d, p)
           /\ dev' \in {p, [p EXCEPT !.oepIfg = TRUE]}
    BY <1>4 DEF Poll
  <2> HIDE DEF d, p
  <2>3. CASE dev' = d
    BY <1>1, <1>2, <2>1, <2>3, LongerHistory
  <2>4. CASE dev' # d
    <3>1. p.inHalt /\ ~d.inHalt => d.iep = NoPackets
      BY <2>2, <2>4, OdditiesSay
    <3>2. IsDev(p) /\ DevInv(p, host, last, odd)
      BY <2>1, <2>2, <2>4, <3>1, PerformInv DEF p
    <3> QED BY <1>1, <1>2, <2>2, <2>4, <3>2, ClearedInv, LongerHistory
  <2> QED BY <2>3, <2>4
<1> QED BY <1>3, <1>4

----------------------------------------------------------------------------
\* The status is given to the driver, which sends it when it sends nothing else.
SameButStatus(d, e) ==
  /\ e.received = d.received /\ e.attention = d.attention
  /\ e.resetRequired = d.resetRequired /\ e.cbw = d.cbw /\ e.tag = d.tag
  /\ e.sense = d.sense /\ e.iep = d.iep /\ e.oep = d.oep /\ e.inHalt = d.inHalt
  /\ e.w = d.w /\ e.rw = d.rw /\ e.hwIn = d.hwIn /\ e.hwOut = d.hwOut
  /\ e.r.cur = d.r.cur /\ e.r.count = d.r.count

LEMMA SendCswEffect ==
  ASSUME NEW d, IsDev(d), NEW s \in BOOLEAN
  PROVE  LET e == [SendCsw(d) EXCEPT !.sendCsw = s] IN
         /\ IsDev(e) /\ SameButStatus(d, e)
         /\ e.csw.tag = d.tag /\ e.csw.status = d.status /\ e.sendCsw = s
         /\ CanSend(d, 1) => e.r.busy /\ e.r.src = "csw"
         /\ ~CanSend(d, 1) => e.r = d.r
<1> DEFINE C == [tag |-> d.tag, status |-> d.status, residue |-> d.residue]
           c == [d EXCEPT !.csw = C]
           R == IF CanSend(d, 1)
                THEN [d.r EXCEPT !.busy = TRUE, !.left = 1, !.src = "csw", !.pos = 1] ELSE d.r
           p == IF CanSend(d, 1) THEN TRUE ELSE d.iepIfg
           e == [SendCsw(d) EXCEPT !.sendCsw = s]
<1>1. IsRead(R) /\ R.cur = d.r.cur /\ R.count = d.r.count
      /\ (CanSend(d, 1) => R.busy /\ R.src = "csw") /\ (~CanSend(d, 1) => R = d.r)
  BY DEF IsDev, IsRead, ReadFields
<1>2. MscSendData(c, "csw", 1) = [d EXCEPT !.csw = C, !.r = R, !.iepIfg = p]
  <2>1. CanSend(c, 1) = CanSend(d, 1) /\ c.r = d.r
    BY DEF CanSend, IsDev, DevFields
  <2> HIDE DEF C
  <2>2. CASE CanSend(d, 1)
    BY <2>1, <2>2, ZenonT(60) DEF MscSendData, IsDev, DevFields, IsRead, ReadFields
  <2>3. CASE ~CanSend(d, 1)
    BY <2>1, <2>3 DEF MscSendData, IsDev, DevFields
  <2> QED BY <2>2, <2>3
<1>3. e = [d EXCEPT !.csw = C, !.r = R, !.iepIfg = p, !.status = "passed", !.sendCsw = s]
  BY <1>2 DEF SendCsw
<1>4. C.tag = d.tag /\ C.status = d.status
  OBVIOUS
<1> HIDE DEF C, R, p, e
<1>5. /\ e = [f \in DevFields |-> e[f]] /\ e.csw = C /\ e.r = R /\ e.sendCsw = s
      /\ e.received = d.received /\ e.attention = d.attention
      /\ e.resetRequired = d.resetRequired /\ e.cbw = d.cbw /\ e.tag = d.tag
      /\ e.sense = d.sense /\ e.iep = d.iep /\ e.oep = d.oep /\ e.inHalt = d.inHalt
      /\ e.w = d.w /\ e.rw = d.rw /\ e.hwIn = d.hwIn /\ e.hwOut = d.hwOut
  BY <1>3, ZenonT(60) DEF IsDev, DevFields
<1>6. IsDev(e)
  BY <1>1, <1>5 DEF IsDev
<1> QED BY <1>1, <1>4, <1>5, <1>6 DEF SameButStatus, e

LEMMA SendCswInv ==
  ASSUME NEW d, NEW h, NEW l, NEW o, IsDev(d), DevInv(d, h, l, o), d.sendCsw,
         ~d.w.busy, ~d.r.busy, d.r.count = 0, d.rw.op = "none"
  PROVE  LET e == [SendCsw(d) EXCEPT !.sendCsw = ~CanSend(d, 1)]
         IN IsDev(e) /\ DevInv(e, h, l, o)
<1> DEFINE s == ~CanSend(d, 1)
           e == [SendCsw(d) EXCEPT !.sendCsw = s]
<1>1. /\ IsDev(e) /\ SameButStatus(d, e)
      /\ e.csw.tag = d.tag /\ e.csw.status = d.status /\ e.sendCsw = s
      /\ CanSend(d, 1) => e.r.busy /\ e.r.src = "csw"
      /\ ~CanSend(d, 1) => e.r = d.r
  <2>1. s \in BOOLEAN
    OBVIOUS
  <2> HIDE DEF s
  <2>2. /\ IsDev(e) /\ SameButStatus(d, e)
        /\ e.csw.tag = d.tag /\ e.csw.status = d.status /\ e.sendCsw = s
        /\ CanSend(d, 1) => e.r.busy /\ e.r.src = "csw"
        /\ ~CanSend(d, 1) => e.r = d.r
    BY <2>1, SendCswEffect
  <2> QED BY <2>2
<1>2. ~Before(d, h, o) /\ ~Rests(h, o) /\ ~Fresh(h, o)
  BY DEF DevInv, Quiet, AfterReset, Before
<1>3. /\ Current(h) => ~Waits(d, h)
      /\ Waits(e, h) = Waits(d, h) /\ Told(e, h) = (d.tag = h.n) /\ Expl(e) = Expl(d)
      /\ Still(d) /\ Still(e) /\ (Answers(e) => Answers(d) /\ ~CanSend(d, 1))
      /\ Alternates(e) = Alternates(d) /\ Done(e, h) = (s /\ d.tag = h.n)
  BY <1>1, <1>2
     DEF SameButStatus, Before, Waits, Told, Expl, Still, Answers, Alternates, Done
<1>4. Current(h) => \A b \in XY : ~MyStatus(d.iep[b], h)
  BY DEF DevInv, CswSent
<1>5. Current(h) /\ d.tag = h.n => CanSend(d, 1) /\ Alive(d, h, o) /\ Done(d, h) /\ ~d.received
  BY <1>3 DEF DevInv, Sending, Alive, Done, CanSend, Waits
<1> HIDE DEF e, s
<1>6. Alive(e, h, o) => Current(h) /\ d.tag = h.n
  BY <1>2, <1>3 DEF Alive, Before
<1>7. Tags(e, h) /\ Once(e, h) /\ Own(e, h, o)
  BY <1>1, <1>3, <1>5 DEF SameButStatus, DevInv, Tags, Once, Own
<1>8. Sending(e, h, o) /\ Stills(e, h, o) /\ Quiet(e, h, o)
  BY <1>1, <1>2, <1>3, <1>5, <1>6 DEF SameButStatus, DevInv, Sending, Stills, Quiet, Before
<1>9. CswSent(e, h) /\ Reasons(e, h) /\ Directions(e, h)
  BY <1>1, <1>3, <1>4, <1>5
     DEF SameButStatus, DevInv, CswSent, Reasons, Directions, s, Expl
<1>10. Explains(e, h, l, o) /\ Order(e, h, o) /\ AfterReset(e, h, l, o)
  BY <1>1, <1>2, <1>3, <1>4, <1>5, <1>6
     DEF SameButStatus, DevInv, Explains, Order, AfterReset
<1> QED BY <1>1, <1>7, <1>8, <1>9, <1>10 DEF DevInv, e, s

LEMMA StatusStep == ASSUME MassInv, Status PROVE MassInv'
<1> SUFFICES ASSUME Clean(odd')
             PROVE  last.explained /\ IsDev(dev') /\ DevInv(dev', host, last, odd')
  BY DEF Status, MassInv
<1>1. odd \subseteq odd' /\ Clean(odd)
  BY StillClean DEF Status
<1>2. IsDev(dev) /\ DevInv(dev, host, last, odd) /\ last.explained
  BY <1>1 DEF MassInv
<1>3. CASE dev' = dev
  BY <1>1, <1>2, <1>3, LongerHistory
<1>4. CASE dev' = MSCFromHostToBuffer(dev)
  BY <1>1, <1>2, <1>4, FromHostInv, LongerHistory
<1>5. CASE /\ dev.sendCsw /\ ~dev.w.busy /\ ~dev.r.busy /\ dev.r.count = 0
           /\ dev' = [SendCsw(dev) EXCEPT !.sendCsw = ~CanSend(dev, 1)]
           /\ dev.rw.op # "none" => "noBlocks" \in odd'
  <2>1. dev.rw.op = "none"
    BY <1>5 DEF Clean
  <2>2. IsDev(dev') /\ DevInv(dev', host, last, odd)
    BY <1>2, <1>5, <2>1, SendCswInv
  <2> QED BY <1>1, <1>2, <2>2, LongerHistory
<1> QED BY <1>3, <1>4, <1>5 DEF Status

----------------------------------------------------------------------------
(* The host. *)

\* Packets that are no command blocks come and go in the OUT endpoint.
OtherPackets(d, e) ==
  \A b \in XY : e.oep[b] = d.oep[b] \/ e.oep[b].kind # "cbw"

LEMMA OtherPacketsInv ==
  ASSUME NEW d, NEW e, NEW h, NEW l, NEW o, DevInv(d, h, l, o), SameTalk(d, e),
         SameSending(d, e), e.w.busy = d.w.busy, e.rw.op = d.rw.op, e.r.count = d.r.count,
         NoneFull(d) => NoneFull(e), OtherPackets(d, e), Fresh(h, o) => e.oep = d.oep
  PROVE  DevInv(e, h, l, o)
<1> USE DEF SameTalk, SameSending, OtherPackets
<1>1. /\ Done(e, h) = Done(d, h) /\ Told(e, h) = Told(d, h) /\ Still(e) = Still(d)
      /\ Expl(e) = Expl(d) /\ Answers(e) = Answers(d) /\ Alternates(e) = Alternates(d)
      /\ \A b \in XY : Mine(e.oep[b], h) => Mine(d.oep[b], h) /\ e.oep[b] = d.oep[b]
      /\ Waits(e, h) => Waits(d, h)
  BY DEF Done, Told, Expl, Answers, Alternates, Mine, Waits, Still
<1>2. /\ Before(e, h, o) => Before(d, h, o)
      /\ Alive(e, h, o) => Alive(d, h, o)
  BY <1>1 DEF Before, Alive
<1>3. Once(e, h)
  <2>1. ASSUME Current(h), NEW b \in XY, Mine(e.oep[b], h)
        PROVE  ~Mine(e.oep[Other(b)], h) /\ e.tag # h.n /\ ~Told(e, h)
    <3>1. Other(b) \in XY
      BY DEF Other
    <3> QED BY <1>1, <2>1, <3>1 DEF DevInv, Once
  <2> QED BY <1>1, <2>1 DEF DevInv, Once
<1>4. Tags(e, h) /\ Own(e, h, o) /\ Sending(e, h, o)
  BY <1>1, <1>2 DEF DevInv, Tags, Own, Sending
<1>5. Stills(e, h, o) /\ Quiet(e, h, o) /\ CswSent(e, h) /\ Reasons(e, h)
  BY <1>1, <1>2 DEF DevInv, Stills, Quiet, CswSent, Reasons
<1>6. Explains(e, h, l, o) /\ Order(e, h, o) /\ Directions(e, h) /\ AfterReset(e, h, l, o)
  BY <1>1, <1>2 DEF DevInv, Explains, Order, Directions, AfterReset
<1> QED BY <1>3, <1>4, <1>5, <1>6 DEF DevInv

\* After a reset, and before the first command, the host may go on.
LEMMA FreshRests ==
  ASSUME NEW d, NEW h, NEW k, NEW l, NEW o, IsDev(d), DevInv(d, h, l, o), Fresh(h, o),
         d.r.cur = "X", k.n = h.n, k.c = h.c, k.ph = "idle"
  PROVE  DevInv(d, k, l, o)
<1>1. /\ Rests(k, o) /\ ~Fresh(k, o) /\ ~Current(k)
      /\ d.iep = NoPackets /\ d.oep = NoPackets /\ d.r.left = 0 /\ Still(d)
      /\ ~d.sendCsw /\ ~d.received /\ d.hwIn = "X" /\ ~d.resetRequired /\ ~d.inHalt
      /\ l.status # "failed" /\ ~Answers(d)
  BY DEF DevInv, AfterReset, Rests, Fresh, Current, Answers
<1>2. Tags(d, k) /\ Once(d, k) /\ Own(d, k, o) /\ Sending(d, k, o) /\ Stills(d, k, o)
  BY <1>1 DEF DevInv, Tags, Once, Own, Sending, Stills, NoPackets, Free, Mine
<1>3. Quiet(d, k, o) /\ CswSent(d, k) /\ Reasons(d, k) /\ Explains(d, k, l, o)
  BY <1>1 DEF Quiet, CswSent, Reasons, Explains, Asked, NoPackets, Free
<1>4. Order(d, k, o) /\ Directions(d, k) /\ AfterReset(d, k, l, o)
  BY <1>1 DEF Order, Directions, AfterReset, Alternates, NoPackets, Other
<1> QED BY <1>2, <1>3, <1>4 DEF DevInv

LEMMA GetMaxLunStep == ASSUME MassInv, GetMaxLun PROVE MassInv'
<1>1. IsHost(host') /\ host'.ph = "idle" /\ host'.n = host.n /\ host'.c = host.c
  BY DEF GetMaxLun, HostTo, MassInv, IsHost, HostFields
<1>2. last' = last /\ odd' = odd
  BY DEF GetMaxLun, DevOnly
<1> SUFFICES ASSUME Clean(odd)
             PROVE  IsDev(dev') /\ DevInv(dev', host', last, odd)
  BY <1>1, <1>2 DEF MassInv
<1>3. IsDev(dev') /\ DevInv(dev', host, last, odd)
  BY ClearedInv DEF GetMaxLun, MassInv
<1>4. CASE "reset" \notin odd
  <2>1. Fresh(host, odd) /\ dev'.r.cur = "X"
    BY <1>3, <1>4 DEF GetMaxLun, Fresh, DevInv, AfterReset
  <2> QED BY <1>1, <1>3, <2>1, FreshRests
<1>5. CASE "reset" \in odd
  <2>1. ~Current(host') /\ ~Rests(host', odd) /\ ~Fresh(host', odd) /\ host'.ph # "haltIn"
    BY <1>1, <1>5 DEF Current, Rests, Fresh
  <2>2. Tags(dev', host') /\ (dev'.resetRequired => dev'.inHalt)
    BY <1>1, <1>3, <2>1 DEF DevInv, Tags, Mine, Sending
  <2> QED BY <1>3, <2>1, <2>2, NotFollowed
<1> QED BY <1>4, <1>5

LEMMA GiveUpStep == ASSUME MassInv, GiveUp PROVE MassInv'
<1>1. IsHost(host') /\ host'.ph = "reset" /\ host'.n = host.n /\ host'.c = host.c
  BY DEF GiveUp, HostTo, MassInv, IsHost, HostFields
<1>2. last' = last /\ odd' = odd /\ dev' = dev
  BY DEF GiveUp
<1> SUFFICES ASSUME Clean(odd)
             PROVE  DevInv(dev, host', last, odd)
  BY <1>1, <1>2 DEF MassInv
<1>3. ~Current(host') /\ ~Rests(host', odd) /\ ~Fresh(host', odd) /\ host'.ph # "haltIn"
  BY <1>1 DEF Current, Rests, Fresh
<1>4. Tags(dev, host') /\ (dev.resetRequired => dev.inHalt)
  BY <1>1, <1>3 DEF MassInv, DevInv, Tags, Mine, Sending
<1> QED BY <1>3, <1>4, NotFollowed

LEMMA SendPacketStep == ASSUME MassInv, SendPacket PROVE MassInv'
<1>1. last' = last /\ odd' = odd
  BY DEF SendPacket, DevOnly
<1>2. /\ IsHost(host') /\ host'.n = host.n /\ host'.c = host.c
      /\ host'.ph \in {"haltOut", "status", "out"} /\ host.ph = "out"
  <2>1. CASE host'.ph = "haltOut" /\ HostTo("haltOut")
    BY <2>1 DEF HostTo, MassInv, IsHost, HostFields, SendPacket
  <2>2. CASE host' = [host EXCEPT !.sent = @ + 1,
                        !.ph = IF host.sent + 1 = host.c.want THEN "status" ELSE @]
    <3> DEFINE ph == IF host.sent + 1 = host.c.want THEN "status" ELSE host.ph
               m == host.sent + 1
    <3>1. host' = [host EXCEPT !.sent = m, !.ph = ph]
      BY <2>2 DEF MassInv, IsHost, HostFields
    <3>2. host.ph = "out" /\ ph \in {"status", "out"}
      BY DEF SendPacket
    <3> HIDE DEF m, ph
    <3> QED BY <3>1, <3>2 DEF MassInv, IsHost, HostFields
  <2> QED BY <2>1, <2>2 DEF SendPacket, HostTo, MassInv, IsHost, HostFields
<1> SUFFICES ASSUME Clean(odd)
             PROVE  IsDev(dev') /\ DevInv(dev', host', last, odd)
  BY <1>1, <1>2 DEF MassInv
<1>3. IsDev(dev') /\ DevInv(dev', host, last, odd)
  <2>1. CASE dev' = dev
    BY <2>1 DEF MassInv
  <2>2. CASE dev' # dev
    <3> DEFINE p == Data(Base(host.n) + host.sent + 1)
               b == dev.hwOut
               n == Other(b)
               e == [dev EXCEPT !.oep[b] = p, !.hwOut = n, !.oepIfg = TRUE]
    <3>1. dev' = e
      BY <2>2 DEF SendPacket, MassInv, IsDev, DevFields
    <3>2. IsDev(dev) /\ DevInv(dev, host, last, odd)
      BY DEF MassInv
    <3>3. b \in XY /\ n \in XY /\ p.kind # "cbw"
      BY <3>2 DEF IsDev, Other, Data
    <3> DEFINE O == [dev.oep EXCEPT ![b] = p]
    <3> HIDE DEF b, n, p
    <3>4. O = [x \in XY |-> O[x]] /\ \A x \in XY : O[x] = dev.oep[x] \/ O[x] = p
      BY <3>2, <3>3 DEF IsDev
    <3>5. e = [dev EXCEPT !.oep = O, !.hwOut = n, !.oepIfg = TRUE]
      OBVIOUS
    <3> HIDE DEF O, e
    <3>6. IsDev(e) /\ e.oep = O /\ SameTalk(dev, e) /\ e.r = dev.r /\ e.w = dev.w
          /\ e.rw = dev.rw
      BY <3>2, <3>3, <3>4, <3>5 DEF IsDev, DevFields, SameTalk
    <3>7. ~Fresh(host, odd)
      BY <1>2 DEF Fresh
    <3> QED BY <3>1, <3>2, <3>3, <3>4, <3>6, <3>7, OtherPacketsInv
            DEF OtherPackets, SameSending, NoneFull
  <2> QED BY <2>1, <2>2
<1>4. Current(host) /\ Current(host') /\ host'.ph # "haltIn"
  BY <1>2 DEF Current
<1> QED BY <1>2, <1>3, <1>4, SamePhase

\* The driver goes back to the first buffer of an endpoint.
LEMMA ClearInEffect ==
  ASSUME NEW d, IsDev(d)
  PROVE  LET e == ClearIn(d) IN
         /\ IsDev(e) /\ e.r.cur = "X"
         /\ e.hwIn = (IF d.resetRequired THEN d.hwIn ELSE "X")
         /\ e.inHalt = (IF d.resetRequired THEN d.inHalt ELSE FALSE)
         /\ e.status = d.status /\ e.received = d.received /\ e.sendCsw = d.sendCsw
         /\ e.attention = d.attention /\ e.resetRequired = d.resetRequired
         /\ e.cbw = d.cbw /\ e.tag = d.tag /\ e.csw = d.csw /\ e.sense = d.sense
         /\ e.iep = d.iep /\ SameSending(d, e) /\ SameWork(d, e)
<1> DEFINE q == IF d.resetRequired THEN d.hwIn ELSE "X"
           i == IF d.resetRequired THEN d.inHalt ELSE FALSE
           R == [d.r EXCEPT !.cur = "X"]
           e == ClearIn(d)
<1>1. e = [d EXCEPT !.inHalt = i, !.hwIn = q, !.r = R, !.supported = TRUE]
  <2>1. CASE d.resetRequired
    BY <2>1 DEF ClearIn, IsDev, DevFields
  <2>2. CASE ~d.resetRequired
    BY <2>2 DEF ClearIn, IsDev, DevFields
  <2> QED BY <2>1, <2>2
<1>2. IsRead(R) /\ R.cur = "X" /\ R.left = d.r.left /\ R.src = d.r.src /\ R.busy = d.r.busy
      /\ R.count = d.r.count
  BY DEF IsDev, IsRead, ReadFields
<1>3. q \in XY
  BY DEF IsDev
<1> HIDE DEF e, R, q, i
<1>4. /\ e = [f \in DevFields |-> e[f]] /\ e.r = R /\ e.inHalt = i /\ e.hwIn = q
      /\ e.status = d.status /\ e.received = d.received /\ e.sendCsw = d.sendCsw
      /\ e.attention = d.attention /\ e.resetRequired = d.resetRequired
      /\ e.cbw = d.cbw /\ e.tag = d.tag /\ e.csw = d.csw /\ e.sense = d.sense
      /\ e.iep = d.iep /\ e.w = d.w /\ e.rw = d.rw /\ e.oep = d.oep /\ e.hwOut = d.hwOut
  BY <1>1 DEF IsDev, DevFields
<1>5. IsDev(e)
  BY <1>2, <1>3, <1>4 DEF IsDev
<1> QED BY <1>2, <1>4, <1>5 DEF SameSending, SameWork, NoneFull, e, q, i

\* The host goes on: in a command with its status, after a reset with the other
\* endpoint.
LEMMA ClearInInv ==
  ASSUME NEW d, NEW h, NEW k, NEW l, NEW o, IsDev(d), DevInv(d, h, l, o),
         k.n = h.n, k.c = h.c,
         \/ h.ph = "haltIn" /\ k.ph = "status"
         \/ h.ph = "resetIn" /\ k.ph = "resetOut"
  PROVE  IsDev(ClearIn(d)) /\ DevInv(ClearIn(d), k, l, o)
<1> DEFINE e == ClearIn(d)
<1>1. /\ IsDev(e) /\ e.r.cur = "X"
      /\ e.hwIn = (IF d.resetRequired THEN d.hwIn ELSE "X")
      /\ e.inHalt = (IF d.resetRequired THEN d.inHalt ELSE FALSE)
      /\ e.status = d.status /\ e.received = d.received /\ e.sendCsw = d.sendCsw
      /\ e.attention = d.attention /\ e.resetRequired = d.resetRequired
      /\ e.cbw = d.cbw /\ e.tag = d.tag /\ e.csw = d.csw /\ e.sense = d.sense
      /\ e.iep = d.iep /\ SameSending(d, e) /\ SameWork(d, e)
  BY ClearInEffect
<1> HIDE DEF e
<1> USE DEF SameSending, SameWork
<1>2. /\ \A p : Mine(p, k) = Mine(p, h) /\ MyStatus(p, k) = MyStatus(p, h)
      /\ Waits(e, k) = Waits(d, h) /\ Done(e, k) = Done(d, h) /\ Told(e, k) = Told(d, h)
      /\ Expl(e) = Expl(d) /\ Still(e) = Still(d) /\ Answers(e) = Answers(d)
      /\ ~Rests(k, o) /\ ~Rests(h, o) /\ Current(k) = Current(h) /\ Moves(k) = Moves(h)
      /\ Fresh(k, o) = Fresh(h, o) /\ k.ph # "haltIn" /\ k.ph # "resetIn"
  BY <1>1 DEF Mine, MyStatus, Waits, Done, Told, Expl, Still, Answers, Rests, Current, Moves,
              Fresh
<1>3. Before(e, k, o) = Before(d, h, o) /\ Alive(e, k, o) = Alive(d, h, o)
  BY <1>2 DEF Before, Alive
<1>4. Alive(e, k, o) => Current(h) /\ d.inHalt
  BY <1>2, <1>3 DEF Alive, Before, DevInv, Sending, Current
<1>5. Tags(e, k) /\ Once(e, k) /\ Own(e, k, o) /\ Sending(e, k, o)
  BY <1>1, <1>2, <1>3 DEF DevInv, Tags, Once, Own, Sending
<1>6. Stills(e, k, o) /\ Quiet(e, k, o) /\ CswSent(e, k) /\ Reasons(e, k)
  BY <1>1, <1>2, <1>3 DEF DevInv, Stills, Quiet, CswSent, Reasons
<1>7. Explains(e, k, l, o) /\ Directions(e, k) /\ AfterReset(e, k, l, o)
  BY <1>1, <1>2, <1>3 DEF DevInv, Explains, Directions, AfterReset, NoneFull
<1>8. Order(e, k, o)
  <2> SUFFICES ASSUME Alive(e, k, o), ~d.resetRequired
               PROVE  Alternates(e) /\ ~e.inHalt /\ ~MyStatus(e.iep[e.hwIn], k)
    BY <1>1 DEF Order
  <2>1. d.iep = NoPackets /\ e.hwIn = "X" /\ e.r.cur = "X" /\ ~e.inHalt
    BY <1>1, <1>3, <1>4 DEF DevInv, Order
  <2> QED BY <1>1, <2>1 DEF Alternates, NoPackets, Other, MyStatus, Free
<1> QED BY <1>1, <1>5, <1>6, <1>7, <1>8 DEF DevInv, e

LEMMA ClearOutEffect ==
  ASSUME NEW d, IsDev(d)
  PROVE  LET e == ClearOut(d) IN
         /\ IsDev(e) /\ SameTalk(d, e) /\ e.r = d.r /\ e.rw = d.rw /\ e.w.busy = d.w.busy
         /\ e.oep \in {d.oep, NoPackets}
<1> DEFINE q == IF d.resetRequired THEN d.hwOut ELSE "X"
           i == IF d.resetRequired THEN d.outHalt ELSE FALSE
           s == IF d.resetRequired THEN d.stallEndpoint ELSE FALSE
           O == IF d.resetRequired THEN d.oep ELSE NoPackets
           W == [d.w EXCEPT !.cur = "X"]
           e == ClearOut(d)
<1>1. e = [d EXCEPT !.outHalt = i, !.hwOut = q, !.oep = O, !.stallEndpoint = s, !.w = W,
                    !.supported = TRUE]
  <2>1. CASE d.resetRequired
    BY <2>1 DEF ClearOut, IsDev, DevFields
  <2>2. CASE ~d.resetRequired
    BY <2>2 DEF ClearOut, IsDev, DevFields
  <2> QED BY <2>1, <2>2
<1>2. IsWrite(W) /\ W.busy = d.w.busy
  BY DEF IsDev, IsWrite, WriteFields
<1>3. q \in XY /\ O = [b \in XY |-> O[b]] /\ O \in {d.oep, NoPackets}
  BY DEF IsDev, NoPackets
<1> HIDE DEF e, W, q, i, s, O
<1>4. /\ e = [f \in DevFields |-> e[f]] /\ e.w = W /\ e.oep = O /\ e.hwOut = q
      /\ SameTalk(d, e) /\ e.r = d.r /\ e.rw = d.rw
  BY <1>1, ZenonT(60) DEF IsDev, DevFields, SameTalk
<1>5. IsDev(e)
  BY <1>2, <1>3, <1>4 DEF IsDev, SameTalk
<1> QED BY <1>2, <1>3, <1>4, <1>5 DEF e

LEMMA ClearFeatureStep == ASSUME MassInv, ClearFeature PROVE MassInv'
<1>1. last' = last /\ odd' = odd
  BY DEF ClearFeature, DevOnly
<1>2. /\ IsHost(host') /\ host'.n = host.n /\ host'.c = host.c
      /\ \/ host.ph = "haltIn" /\ host'.ph = "status" /\ dev' = ClearIn(dev)
         \/ host.ph = "resetIn" /\ host'.ph = "resetOut" /\ dev' = ClearIn(dev)
         \/ host.ph = "haltOut" /\ host'.ph = "status" /\ dev' = ClearOut(dev)
         \/ host.ph = "resetOut" /\ host'.ph = "idle" /\ dev' = ClearOut(dev)
  <2> DEFINE ph == CASE host.ph = "resetIn" -> "resetOut" [] host.ph = "resetOut" -> "idle"
                     [] host.ph \in {"haltIn", "haltOut"} -> "status"
  <2>1. host' = [host EXCEPT !.ph = ph]
    BY DEF ClearFeature, HostTo
  <2>2. /\ host.ph = "haltIn" => ph = "status"
        /\ host.ph = "haltOut" => ph = "status"
        /\ host.ph = "resetIn" => ph = "resetOut"
        /\ host.ph = "resetOut" => ph = "idle"
    OBVIOUS
  <2> HIDE DEF ph
  <2>3. IsHost(host') /\ host'.n = host.n /\ host'.c = host.c /\ host'.ph = ph
    BY <2>1 DEF MassInv, IsHost, HostFields
  <2> QED BY <2>2, <2>3 DEF ClearFeature
<1> SUFFICES ASSUME Clean(odd)
             PROVE  IsDev(dev') /\ DevInv(dev', host', last, odd)
  BY <1>1, <1>2 DEF MassInv
<1>3. IsDev(dev) /\ DevInv(dev, host, last, odd)
  BY DEF MassInv
<1>4. CASE dev' = ClearIn(dev) /\ host.ph \in {"haltIn", "resetIn"}
  BY <1>2, <1>3, <1>4, ClearInInv
<1>5. CASE dev' = ClearOut(dev) /\ host.ph \in {"haltOut", "resetOut"}
  <2>1. /\ IsDev(dev') /\ SameTalk(dev, dev') /\ dev'.r = dev.r /\ dev'.rw = dev.rw
        /\ dev'.w.busy = dev.w.busy /\ dev'.oep \in {dev.oep, NoPackets}
    BY <1>3, <1>5, ClearOutEffect
  <2>2. OtherPackets(dev, dev') /\ (Fresh(host, odd) => dev'.oep = dev.oep)
    BY <1>3, <2>1 DEF OtherPackets, NoPackets, Free, DevInv, AfterReset
  <2>3. DevInv(dev', host, last, odd)
    BY <1>3, <2>1, <2>2, OtherPacketsInv DEF SameSending, NoneFull
  <2>4. CASE host.ph = "haltOut"
    BY <1>2, <1>5, <2>1, <2>3, <2>4, SamePhase DEF Current
  <2>5. CASE host.ph = "resetOut" /\ "reset" \notin odd
    <3>1. Fresh(host, odd) /\ dev'.r.cur = "X"
      BY <2>3, <2>5 DEF Fresh, DevInv, AfterReset
    <3> QED BY <1>2, <1>5, <2>1, <2>3, <2>5, <3>1, FreshRests
  <2>6. CASE host.ph = "resetOut" /\ "reset" \in odd
    <3>1. ~Current(host') /\ ~Rests(host', odd) /\ ~Fresh(host', odd) /\ host'.ph # "haltIn"
      BY <1>2, <1>5, <2>6 DEF Current, Rests, Fresh
    <3>2. Tags(dev', host') /\ (dev'.resetRequired => dev'.inHalt)
      BY <1>2, <2>3, <3>1 DEF DevInv, Tags, Mine, Sending
    <3> QED BY <2>1, <3>1, <3>2, NotFollowed
  <2> QED BY <1>5, <2>4, <2>5, <2>6
<1> QED BY <1>2, <1>4, <1>5
----------------------------------------------------------------------------
\* The driver forgets what it was doing.
LEMMA ResetEffect ==
  ASSUME NEW d, IsDev(d)
  PROVE  LET e == ResetStruct(d) IN
         /\ IsDev(e) /\ ~e.sendCsw /\ ~e.received /\ ~e.resetRequired /\ e.cbw = NoCbw
         /\ e.tag = 0 /\ e.csw.tag = 0 /\ e.rw = EmptyRw /\ e.r.left = 0
         /\ e.r.count = d.r.count /\ e.r.cur = d.r.cur /\ ~e.w.busy
         /\ e.iep = d.iep /\ e.oep = d.oep /\ e.inHalt = d.inHalt /\ e.hwIn = d.hwIn
         /\ e.hwOut = d.hwOut
<1> DEFINE C == [tag |-> 0, status |-> "passed", residue |-> "0"]
           R == [d.r EXCEPT !.src = "null", !.left = 0, !.busy = FALSE]
           W == [d.w EXCEPT !.busy = FALSE, !.ptr = "null", !.left = 0]
           e == ResetStruct(d)
<1>1. e = [d EXCEPT !.sendCsw = FALSE, !.residue = "0", !.status = "passed",
            !.supported = TRUE,
            !.received = FALSE, !.attention = FALSE, !.resetRequired = FALSE,
            !.stallEndpoint = FALSE, !.rw = EmptyRw, !.cbw = NoCbw, !.tag = 0,
            !.csw = C, !.r = R, !.w = W, !.sense = "none", !.configured = TRUE]
  BY DEF ResetStruct
<1>2. IsRead(R) /\ R.left = 0 /\ R.count = d.r.count /\ R.cur = d.r.cur
  BY DEF IsDev, IsRead, ReadFields
<1>3. IsWrite(W) /\ ~W.busy
  BY DEF IsDev, IsWrite, WriteFields
<1>4. IsRw(EmptyRw)
  BY DEF IsRw, RwFields, EmptyRw
<1>5. C.tag = 0
  OBVIOUS
<1> HIDE DEF C, R, W, e
<1>6. /\ e = [f \in DevFields |-> e[f]] /\ e.r = R /\ e.w = W /\ e.rw = EmptyRw
      /\ ~e.sendCsw /\ ~e.received /\ ~e.resetRequired /\ e.cbw = NoCbw /\ e.tag = 0
      /\ e.csw = C /\ e.iep = d.iep /\ e.oep = d.oep /\ e.inHalt = d.inHalt
      /\ e.hwIn = d.hwIn /\ e.hwOut = d.hwOut
  <2> DEFINE c == [d EXCEPT !.sendCsw = FALSE, !.residue = "0", !.status = "passed",
                            !.supported = TRUE, !.received = FALSE, !.attention = FALSE,
                            !.resetRequired = FALSE, !.stallEndpoint = FALSE]
  <2>1. /\ c = [f \in DevFields |-> c[f]] /\ ~c.sendCsw /\ ~c.received
        /\ ~c.resetRequired /\ c.iep = d.iep /\ c.oep = d.oep /\ c.inHalt = d.inHalt
        /\ c.hwIn = d.hwIn /\ c.hwOut = d.hwOut
    BY ZenonT(60) DEF IsDev, DevFields
  <2>2. e = [c EXCEPT !.rw = EmptyRw, !.cbw = NoCbw, !.tag = 0, !.csw = C, !.r = R, !.w = W,
                      !.sense = "none", !.configured = TRUE]
    BY <1>1
  <2> HIDE DEF c
  <2> QED BY <2>1, <2>2, ZenonT(60) DEF DevFields
<1>7. IsDev(e)
  BY <1>2, <1>3, <1>4, <1>6 DEF IsDev
<1> QED BY <1>2, <1>3, <1>5, <1>6, <1>7 DEF e

LEMMA BulkOnlyResetStep == ASSUME MassInv, BulkOnlyReset PROVE MassInv'
<1>1. IsHost(host') /\ host'.n = host.n /\ host'.c = host.c /\ host'.ph = "resetIn"
  BY DEF BulkOnlyReset, HostTo, MassInv, IsHost, HostFields
<1>2. IsLast(last') /\ last'.explained = last.explained /\ last'.status = "none"
  BY DEF BulkOnlyReset, MassInv, IsLast, LastFields
<1> SUFFICES ASSUME Clean(odd')
             PROVE  last.explained /\ IsDev(dev') /\ DevInv(dev', host', last', odd')
  BY <1>1, <1>2 DEF MassInv
<1>3. odd \subseteq odd' /\ Clean(odd)
  BY StillClean DEF BulkOnlyReset
<1>4. IsDev(dev) /\ DevInv(dev, host, last, odd) /\ last.explained
  BY <1>3 DEF MassInv
<1> DEFINE d == ResetStruct(dev)
           e == dev'
<1>5. /\ IsDev(d) /\ ~d.sendCsw /\ ~d.received /\ ~d.resetRequired /\ d.cbw = NoCbw
      /\ d.tag = 0 /\ d.csw.tag = 0 /\ d.rw = EmptyRw /\ d.r.left = 0
      /\ d.r.count = dev.r.count /\ ~d.w.busy /\ d.iep = dev.iep /\ d.oep = dev.oep
  BY <1>4, ResetEffect
<1>6. e = [d EXCEPT !.inHalt = FALSE, !.outHalt = FALSE, !.hwIn = "X", !.hwOut = "X"]
  BY DEF BulkOnlyReset, Reset
<1> HIDE DEF d, e
<1>7. /\ IsDev(e) /\ ~e.sendCsw /\ ~e.received /\ ~e.resetRequired /\ e.cbw = NoCbw
      /\ e.tag = 0 /\ e.csw = d.csw /\ e.rw = EmptyRw /\ e.r = d.r /\ e.w = d.w
      /\ e.iep = dev.iep /\ e.oep = dev.oep /\ ~e.inHalt /\ e.hwIn = "X"
  BY <1>5, <1>6 DEF IsDev, DevFields
<1>8. Tags(e, host')
  BY <1>1, <1>4, <1>5, <1>7 DEF DevInv, Tags, Current, Mine
<1>9. ~Current(host') /\ ~Rests(host', odd') /\ host'.ph # "haltIn"
  BY <1>1 DEF Current, Rests
<1>10. CASE ~Fresh(host', odd')
  <2>1. DevInv(e, host', last', odd')
    BY <1>7, <1>8, <1>9, <1>10, NotFollowed
  <2> QED BY <1>4, <1>7, <2>1 DEF e
<1>11. CASE Fresh(host', odd')
  <2>1. ~(dev.r.count > 0) /\ dev.iep = NoPackets /\ dev.oep = NoPackets
    BY <1>11 DEF BulkOnlyReset, Fresh
  <2>2. dev.r.count = 0
    BY <1>4, <2>1 DEF IsDev, IsRead
  <2>3. Still(e) /\ NoneFull(e)
    BY <1>5, <1>7, <2>2 DEF Still, NoneFull, EmptyRw
  <2>4. AfterReset(e, host', last', odd')
    BY <1>1, <1>2, <1>5, <1>7, <2>1, <2>3 DEF AfterReset
  <2>5. Own(e, host', odd')
    BY <1>7, <2>1 DEF Own, NoPackets, Free
  <2>6. ~Before(e, host', odd') /\ ~Alive(e, host', odd')
    BY <1>9 DEF Before, Alive
  <2>7. /\ Once(e, host') /\ Sending(e, host', odd') /\ Stills(e, host', odd')
        /\ Quiet(e, host', odd') /\ CswSent(e, host') /\ Reasons(e, host')
        /\ Explains(e, host', last', odd') /\ Order(e, host', odd') /\ Directions(e, host')
    BY <1>7, <1>9, <2>6 DEF Once, Sending, Stills, Quiet, CswSent, Reasons, Explains, Order,
                            Directions
  <2> QED BY <1>4, <1>7, <1>8, <2>4, <2>5, <2>7 DEF DevInv, e
<1> QED BY <1>4, <1>10, <1>11

\* A command block is put in the endpoint.
LEMMA CommandInv ==
  ASSUME NEW d, NEW e, NEW h, NEW k, NEW l, NEW o, NEW b \in XY,
         IsDev(d), DevInv(d, h, l, o), Rests(h, o), ~Current(h),
         SameTalk(d, e), e.r = d.r, e.w = d.w, e.rw = d.rw,
         Current(k), k.n = h.n + 1, k.c \in Command, k.ph # "haltIn",
         \A x \in XY : e.oep[x] = IF x = b THEN [kind |-> "cbw", c |-> k.c, tag |-> k.n]
                                  ELSE d.oep[x]
  PROVE  DevInv(e, k, l, o)
<1> USE DEF SameTalk
<1>1. /\ ~Rests(k, o) /\ ~Fresh(k, o) /\ Before(d, h, o) /\ Alive(d, h, o)
      /\ h.n \in Nat /\ k.n \in Nat /\ k.n # h.n /\ d.tag \in 0..h.n /\ d.csw.tag \in 0..h.n
      /\ d.tag # k.n /\ d.csw.tag # k.n
  BY DEF DevInv, Tags, Current, Rests, Fresh, Before, Alive
<1>2. \A x \in XY : /\ ~Mine(d.oep[x], k) /\ ~MyStatus(d.iep[x], k)
                    /\ d.oep[x].kind # "cbw"
  BY <1>1 DEF DevInv, Tags, Own, Mine, MyStatus
<1>3. /\ \A x \in XY : Mine(e.oep[x], k) <=> x = b
      /\ Mine(e.oep[b], k) /\ e.oep[b].c = k.c /\ e.oep[b].tag = k.n
  BY <1>2 DEF Mine
<1>4. /\ Waits(e, k) /\ ~Done(e, k) /\ ~Told(e, k) /\ Before(e, k, o) /\ Alive(e, k, o)
      /\ Still(e) = Still(d) /\ Expl(e) = Expl(d) /\ Answers(e) = Answers(d)
      /\ Alternates(e) = Alternates(d)
  BY <1>1, <1>3
     DEF Waits, Done, Told, Before, Alive, Still, Expl, Answers, Alternates
<1>5. Tags(e, k)
  BY <1>1, <1>2, <1>3 DEF DevInv, Tags
<1>6. Once(e, k)
  BY <1>1, <1>3, <1>4 DEF Once, Other
<1>7. Own(e, k, o) /\ Sending(e, k, o) /\ Stills(e, k, o) /\ Quiet(e, k, o)
  BY <1>1, <1>2, <1>3, <1>4 DEF DevInv, Own, Sending, Stills, Quiet
<1>8. CswSent(e, k) /\ Reasons(e, k) /\ Directions(e, k) /\ AfterReset(e, k, l, o)
  BY <1>1, <1>2, <1>4 DEF CswSent, Reasons, Directions, AfterReset
<1>9. Explains(e, k, l, o)
  <2>1. /\ Asked(l) => Expl(d)
        /\ ~Answers(d)
        /\ ~d.resetRequired => \A x \in XY : d.iep[x].kind # "response"
    BY <1>1 DEF DevInv, Explains, Quiet
  <2> QED BY <1>4, <2>1 DEF Explains
<1>10. Order(e, k, o)
  <2>1. d.hwIn \in XY
    BY DEF IsDev
  <2> QED BY <1>1, <1>2, <1>4, <2>1 DEF DevInv, Order
<1> QED BY <1>5, <1>6, <1>7, <1>8, <1>9, <1>10 DEF DevInv

LEMMA SendCbwStep == ASSUME MassInv, SendCbw PROVE MassInv'
<1>1. last' = last /\ odd' = odd
  BY DEF SendCbw
<1>2. /\ IsHost(host') /\ host'.c \in Commands[host.n + 1] /\ host'.n = host.n + 1
      /\ dev.outHalt => host'.ph = "reset"
      /\ ~dev.outHalt => host'.ph \in {"status", host'.c.dir}
  <2>1. PICK c \in Commands[host.n + 1] :
          host' = [ph |-> CASE dev.outHalt -> "reset"
                            [] ~dev.outHalt /\ c.want = 0 -> "status"
                            [] ~dev.outHalt /\ c.want # 0 -> c.dir,
                   n |-> host.n + 1, c |-> c, got |-> <<>>, sent |-> 0, retried |-> FALSE]
    BY DEF SendCbw
  <2> DEFINE ph == CASE dev.outHalt -> "reset"
                     [] ~dev.outHalt /\ c.want = 0 -> "status"
                     [] ~dev.outHalt /\ c.want # 0 -> c.dir
             m == host.n + 1
  <2>2. /\ dev.outHalt => ph = "reset"
        /\ ~dev.outHalt => ph \in {"status", c.dir}
    OBVIOUS
  <2>3. host' = [ph |-> ph, n |-> m, c |-> c, got |-> <<>>, sent |-> 0, retried |-> FALSE]
    BY <2>1
  <2> HIDE DEF ph, m
  <2>4. IsHost(host') /\ host'.ph = ph /\ host'.n = m /\ host'.c = c
    BY <2>3 DEF IsHost, HostFields
  <2> QED BY <2>2, <2>4 DEF m
<1> SUFFICES ASSUME Clean(odd)
             PROVE  IsDev(dev') /\ DevInv(dev', host', last, odd)
  BY <1>1, <1>2 DEF MassInv
<1>3. IsDev(dev) /\ DevInv(dev, host, last, odd)
  BY DEF MassInv
<1>4. Rests(host, odd) /\ ~Current(host) /\ host.n \in Nat /\ host'.n \in Nat \ {0}
  BY <1>2, <1>3 DEF SendCbw, Rests, Current, DevInv, Tags
<1>5. host'.c \in Command /\ host'.c.dir \in {"in", "out"}
  <2>1. Commands[host.n + 1] \in SUBSET Command
    BY <1>4, MassStorageAssumption DEF SendCbw
  <2> QED BY <1>2, <2>1 DEF Command
<1>6. CASE dev.outHalt
  <2>1. dev' = dev /\ host'.ph = "reset"
    BY <1>2, <1>6 DEF SendCbw
  <2>2. ~Current(host') /\ ~Rests(host', odd) /\ ~Fresh(host', odd) /\ host'.ph # "haltIn"
    BY <2>1 DEF Current, Rests, Fresh
  <2>3. Tags(dev, host')
    BY <1>2, <1>3, <1>4, <2>2 DEF DevInv, Tags, Mine
  <2> QED BY <1>3, <2>1, <2>2, <2>3, NotFollowed DEF DevInv, Sending
<1>7. CASE ~dev.outHalt
  <2> DEFINE p == [kind |-> "cbw", c |-> host'.c, tag |-> host'.n]
             b == dev.hwOut
             n == Other(b)
             O == [dev.oep EXCEPT ![b] = p]
             e == [dev EXCEPT !.oep = O, !.hwOut = n, !.oepIfg = TRUE]
  <2>1. dev' = e
    BY <1>3, <1>7 DEF SendCbw, IsDev, DevFields
  <2>2. b \in XY /\ n \in XY
    BY <1>3 DEF IsDev, Other
  <2> HIDE DEF b, n, p
  <2>3. O = [x \in XY |-> O[x]] /\ \A x \in XY : O[x] = IF x = b THEN p ELSE dev.oep[x]
    BY <1>3, <2>2 DEF IsDev
  <2> HIDE DEF O, e
  <2>4. IsDev(e) /\ e.oep = O /\ SameTalk(dev, e) /\ e.r = dev.r /\ e.w = dev.w
        /\ e.rw = dev.rw
    BY <1>3, <2>2, <2>3 DEF IsDev, DevFields, SameTalk, e
  <2>5. Current(host') /\ host'.ph # "haltIn"
    BY <1>2, <1>5, <1>7 DEF Current
  <2>6. DevInv(e, host', last, odd)
    BY <1>2, <1>3, <1>4, <1>5, <2>2, <2>3, <2>4, <2>5, CommandInv DEF p
  <2> QED BY <2>1, <2>4, <2>6
<1> QED BY <1>6, <1>7
----------------------------------------------------------------------------
\* The host takes the packet that is next.
NextTaken(d) == [d EXCEPT !.iep[d.hwIn] = Free, !.hwIn = Other(@), !.iepIfg = TRUE]

LEMMA TakenInv ==
  ASSUME NEW d, NEW e, NEW h, NEW l, NEW o, IsDev(d), DevInv(d, h, l, o), ~d.inHalt,
         d.iep[d.hwIn] # Free, e = NextTaken(d)
  PROVE  /\ IsDev(e) /\ DevInv(e, h, l, o) /\ ~e.resetRequired /\ ~e.inHalt
         /\ e.iep[d.hwIn] = Free /\ e.iep[Other(d.hwIn)] = d.iep[Other(d.hwIn)]
         /\ e.attention = d.attention /\ e.sense = d.sense /\ e.csw = d.csw
         /\ e.sendCsw = d.sendCsw
<1> DEFINE a == d.hwIn
           z == Other(a)
           I == [d.iep EXCEPT ![a] = Free]
<1>1. a \in XY /\ z \in XY /\ a # z /\ Other(z) = a
  BY DEF IsDev, Other
<1>2. e = [d EXCEPT !.iep = I, !.hwIn = z, !.iepIfg = TRUE]
  BY DEF NextTaken, IsDev, DevFields
<1>3. I = [b \in XY |-> I[b]] /\ I[a] = Free /\ I[z] = d.iep[z]
  BY <1>1 DEF IsDev
<1> HIDE DEF I, a, z
<1>4. /\ e = [f \in DevFields |-> e[f]] /\ e.iep = I /\ e.hwIn = z
      /\ e.status = d.status /\ e.received = d.received /\ e.sendCsw = d.sendCsw
      /\ e.attention = d.attention /\ e.resetRequired = d.resetRequired
      /\ e.cbw = d.cbw /\ e.tag = d.tag /\ e.csw = d.csw /\ e.sense = d.sense
      /\ e.inHalt = d.inHalt /\ e.r = d.r /\ e.w = d.w /\ e.rw = d.rw /\ e.oep = d.oep
      /\ e.hwOut = d.hwOut
  <2> DEFINE y == [d EXCEPT !.iep = I]
             x == [y EXCEPT !.hwIn = z]
  <2>1. d = [f \in DevFields |-> d[f]]
    BY DEF IsDev
  <2>2. /\ y = [f \in DevFields |-> y[f]] /\ y.iep = I
        /\ \A f \in DevFields \ {"iep"} : y[f] = d[f]
    BY <2>1 DEF DevFields
  <2>3. e = [x EXCEPT !.iepIfg = TRUE]
    BY <1>2
  <2> HIDE DEF y
  <2>4. /\ x = [f \in DevFields |-> x[f]] /\ x.iep = I /\ x.hwIn = z
        /\ \A f \in DevFields \ {"iep", "hwIn"} : x[f] = d[f]
    BY <2>2 DEF DevFields
  <2> HIDE DEF x
  <2>5. /\ e = [f \in DevFields |-> e[f]] /\ e.iep = I /\ e.hwIn = z
        /\ \A f \in DevFields \ {"iep", "hwIn", "iepIfg"} : e[f] = d[f]
    BY <2>3, <2>4 DEF DevFields
  <2> QED BY <2>5 DEF DevFields
<1>5. IsDev(e)
  BY <1>1, <1>3, <1>4 DEF IsDev
<1>6. /\ Waits(e, h) = Waits(d, h) /\ Done(e, h) = Done(d, h) /\ Told(e, h) = Told(d, h)
      /\ Expl(e) = Expl(d) /\ Still(e) = Still(d) /\ Answers(e) = Answers(d)
      /\ Before(e, h, o) = Before(d, h, o) /\ Alive(e, h, o) = Alive(d, h, o)
  BY <1>4 DEF Waits, Done, Told, Expl, Still, Answers, Before, Alive
<1>7. \A b \in XY : e.iep[b] = d.iep[b] \/ e.iep[b] = Free
  BY <1>1, <1>3, <1>4
<1>8. ~e.resetRequired
  BY <1>4 DEF DevInv, Sending
<1>9. Tags(e, h) /\ Once(e, h) /\ Own(e, h, o) /\ Sending(e, h, o) /\ Stills(e, h, o)
  BY <1>4, <1>6, <1>7 DEF DevInv, Tags, Once, Own, Sending, Stills, Free
<1>10. Quiet(e, h, o) /\ CswSent(e, h) /\ Reasons(e, h)
  BY <1>4, <1>6, <1>7 DEF DevInv, Quiet, CswSent, Reasons, Free, MyStatus
<1>11. Explains(e, h, l, o) /\ Directions(e, h)
  BY <1>4, <1>6, <1>7 DEF DevInv, Explains, Directions, Free
<1>12. AfterReset(e, h, l, o)
  <2>1. ~Fresh(h, o)
    BY DEF DevInv, AfterReset, NoPackets, IsDev
  <2> QED BY <2>1 DEF AfterReset
<1>13. Order(e, h, o)
  <2> SUFFICES ASSUME Alive(d, h, o)
               PROVE  Alternates(e) /\ e.iep[Other(e.hwIn)].kind # "response"
    BY <1>4, <1>6 DEF Order
  <2>1. Alternates(d)
    BY <1>4, <1>8 DEF DevInv, Order
  <2>2. Alternates(e)
    BY <1>1, <1>3, <1>4, <2>1 DEF Alternates, a, z
  <2> QED BY <1>1, <1>3, <1>4, <2>2 DEF Free
<1>14. DevInv(e, h, l, o)
  BY <1>9, <1>10, <1>11, <1>12, <1>13 DEF DevInv
<1> QED BY <1>3, <1>4, <1>5, <1>8, <1>14 DEF a, z

\* The status of its command ends it: what failed is explained.
LEMMA StatusTakenInv ==
  ASSUME NEW d, NEW e, NEW h, NEW k, NEW l, NEW m, NEW o, IsDev(d), DevInv(d, h, l, o),
         ~d.inHalt, d.iep[d.hwIn] # Free, e = NextTaken(d),
         h.ph = "status", MyStatus(d.iep[d.hwIn], h),
         k.ph = "idle", k.n = h.n, k.c = h.c,
         m.status = d.iep[d.hwIn].status, m.c = h.c
  PROVE  DevInv(e, k, m, o)
<1>1. /\ IsDev(e) /\ DevInv(e, h, l, o) /\ ~e.resetRequired /\ ~e.inHalt
      /\ e.iep[d.hwIn] = Free /\ e.iep[Other(d.hwIn)] = d.iep[Other(d.hwIn)]
      /\ e.attention = d.attention /\ e.sense = d.sense /\ e.csw = d.csw
      /\ e.sendCsw = d.sendCsw
  BY TakenInv
<1>2. Current(h) /\ ~Current(k) /\ k.ph # "haltIn" /\ ~Fresh(k, o) /\ d.hwIn \in XY
  BY DEF Current, Fresh, IsDev
<1>3. Told(d, h) /\ ~d.sendCsw /\ Alive(d, h, o) /\ Alive(e, h, o) /\ Told(e, h)
  BY <1>1, <1>2 DEF DevInv, CswSent, Alive, Told
<1>4. ~d.resetRequired /\ d.iep[Other(d.hwIn)].kind # "response"
  BY <1>2, <1>3 DEF DevInv, Sending, Order
<1>5. \A b \in XY : e.iep[b].kind # "response" /\ ~Mine(e.oep[b], h)
  BY <1>1, <1>2, <1>3, <1>4 DEF DevInv, Once, Other, Free
<1>6. Still(e) /\ ~Answers(e) /\ Alternates(e) /\ (e.r.left # 0 => e.r.busy)
  BY <1>1, <1>2, <1>3 DEF DevInv, Stills, CswSent, Order, Sending
<1>7. Tags(e, k) /\ Once(e, k)
  BY <1>1, <1>2, <1>5 DEF DevInv, Tags, Once, Mine
<1>8. Own(e, k, o)
  BY <1>1, <1>2, <1>3, <1>5 DEF DevInv, Own, Once
<1>9. Sending(e, k, o) /\ Stills(e, k, o) /\ Quiet(e, k, o)
  BY <1>1, <1>2, <1>3, <1>5, <1>6 DEF Sending, Stills, Quiet
<1>10. CswSent(e, k) /\ Reasons(e, k) /\ Directions(e, k) /\ AfterReset(e, k, m, o)
  BY <1>2 DEF CswSent, Reasons, Directions, AfterReset
<1>11. Explains(e, k, m, o)
  BY <1>1, <1>2 DEF DevInv, Reasons, Explains, Asked, Expl
<1>12. Order(e, k, o)
  BY <1>1, <1>2, <1>6 DEF Order
<1> QED BY <1>7, <1>8, <1>9, <1>10, <1>11, <1>12 DEF DevInv

\* Once the host turns to a reset, only the numbers count.
LEMMA ToReset ==
  ASSUME NEW d, NEW h, NEW k, NEW l, NEW o, DevInv(d, h, l, o),
         k.n = h.n, k.c = h.c, k.ph = "reset"
  PROVE  DevInv(d, k, l, o)
<1>1. ~Current(k) /\ ~Rests(k, o) /\ ~Fresh(k, o) /\ k.ph # "haltIn"
  BY DEF Current, Rests, Fresh
<1>2. Tags(d, k) /\ (d.resetRequired => d.inHalt)
  BY <1>1 DEF DevInv, Tags, Mine, Sending
<1> QED BY <1>1, <1>2, NotFollowed

LEMMA TakesStep ==
  ASSUME IsDev(dev), DevInv(dev, host, last, odd), last.explained, IsHost(host), IsLast(last),
         host.ph \in {"in", "status"}, ~dev.inHalt, dev.iep[dev.hwIn] # Free,
         dev' = NextTaken(dev), HostTakes(dev.iep[dev.hwIn])
  PROVE  IsHost(host') /\ IsLast(last') /\ last'.explained
         /\ IsDev(dev') /\ DevInv(dev', host', last', odd)
<1> DEFINE pkt == dev.iep[dev.hwIn]
<1>1. IsDev(dev') /\ DevInv(dev', host, last, odd)
  BY TakenInv
<1>2. Current(host) /\ dev.hwIn \in XY /\ ~dev.resetRequired
  BY DEF Current, IsDev, DevInv, Sending
<1>3. CASE host.ph = "in"
  <2> DEFINE got == IF pkt.kind = "data" THEN Append(host.got, pkt.p) ELSE host.got
             ph == IF pkt.kind = "data" /\ Len(host.got) + 1 < host.c.want THEN "in"
                                                                         ELSE "status"
  <2>1. host' = [host EXCEPT !.got = got, !.ph = ph]
    BY <1>3 DEF HostTakes, IsHost, HostFields
  <2>2. ph \in {"in", "status"}
    OBVIOUS
  <2> HIDE DEF got, ph
  <2>3. IsHost(host') /\ host'.ph = ph /\ host'.n = host.n /\ host'.c = host.c
    BY <2>1 DEF IsHost, HostFields
  <2>4. last' = last \/ (/\ pkt.kind = "response" /\ host.c.op = "SENSE" /\ Asked(last)
                         /\ last' = [last EXCEPT !.explained = pkt.key # "none"])
    BY <1>3 DEF HostTakes, Asked
  <2>5. last' = last
    <3>1. CASE pkt.kind = "response" /\ host.c.op = "SENSE" /\ Asked(last)
                /\ last' = [last EXCEPT !.explained = pkt.key # "none"]
      <4>1. pkt.key # "none"
        BY <1>2, <3>1 DEF DevInv, Explains
      <4>2. last' = [last EXCEPT !.explained = TRUE]
        BY <3>1, <4>1
      <4>3. last' = [f \in LastFields |-> IF f = "explained" THEN TRUE ELSE last[f]]
        BY <4>2 DEF IsLast, LastFields
      <4> QED BY <4>3 DEF IsLast, LastFields
    <3> QED BY <2>4, <3>1
  <2>6. Current(host') /\ host'.ph # "haltIn"
    BY <2>2, <2>3 DEF Current
  <2> QED BY <1>1, <1>2, <2>3, <2>5, <2>6, SamePhase
<1>4. CASE host.ph = "status"
  <2> DEFINE mine == pkt.kind = "csw" /\ pkt.tag = host.n
  <2>1. CASE mine /\ pkt.status # "phase"
    <3>1. /\ host' = [host EXCEPT !.ph = "idle"]
          /\ last' = [status |-> pkt.status, exact |-> Exact, explained |-> TRUE,
                      c |-> host.c]
      BY <1>4, <2>1 DEF HostTakes, HostTo
    <3>2. IsHost(host') /\ host'.ph = "idle" /\ host'.n = host.n /\ host'.c = host.c
      BY <3>1 DEF IsHost, HostFields
    <3>3. IsLast(last') /\ last'.explained /\ last'.status = pkt.status /\ last'.c = host.c
      BY <3>1 DEF IsLast, LastFields
    <3>4. MyStatus(pkt, host)
      BY <2>1 DEF MyStatus
    <3> QED BY <1>1, <1>4, <3>2, <3>3, <3>4, StatusTakenInv
  <2>2. CASE ~(mine /\ pkt.status # "phase")
    <3>1. host' = [host EXCEPT !.ph = "reset"] /\ last' = last
      BY <1>4, <2>2 DEF HostTakes, HostTo
    <3>2. IsHost(host') /\ host'.ph = "reset" /\ host'.n = host.n /\ host'.c = host.c
      BY <3>1 DEF IsHost, HostFields
    <3> QED BY <1>1, <3>1, <3>2, ToReset
  <2> QED BY <2>1, <2>2
<1> QED BY <1>3, <1>4

LEMMA ReadPacketStep == ASSUME MassInv, ReadPacket PROVE MassInv'
<1>1. odd' = odd
  BY DEF ReadPacket
<1>2. CASE dev.inHalt /\ UNCHANGED <<dev, last>>
          /\ host' = [host EXCEPT
               !.ph = IF host.ph = "status" /\ host.retried THEN "reset" ELSE "haltIn",
               !.retried = host.ph = "status"]
  <2> DEFINE ph == IF host.ph = "status" /\ host.retried THEN "reset" ELSE "haltIn"
             rt == host.ph = "status"
  <2>1. host' = [host EXCEPT !.ph = ph, !.retried = rt]
    BY <1>2
  <2>2. ph \in {"reset", "haltIn"}
    OBVIOUS
  <2> HIDE DEF ph, rt
  <2>3. IsHost(host') /\ host'.ph = ph /\ host'.n = host.n /\ host'.c = host.c
    BY <2>1 DEF MassInv, IsHost, HostFields
  <2> SUFFICES ASSUME Clean(odd)
               PROVE  DevInv(dev, host', last, odd)
    BY <1>1, <1>2, <2>3 DEF MassInv
  <2>4. Current(host)
    BY DEF ReadPacket, Current
  <2>5. CASE ph = "reset"
    BY <2>3, <2>5, ToReset DEF MassInv
  <2>6. CASE ph = "haltIn"
    BY <1>2, <2>3, <2>4, <2>6, SamePhase DEF MassInv, Current
  <2> QED BY <2>2, <2>5, <2>6
<1>3. CASE ~dev.inHalt /\ dev.iep[dev.hwIn] # Free /\ HostTakes(dev.iep[dev.hwIn])
          /\ dev' = NextTaken(dev)
  <2>1. host.ph \in {"in", "status"}
    BY DEF ReadPacket
  <2>2. CASE Clean(odd)
    BY <1>1, <1>3, <2>1, <2>2, TakesStep DEF MassInv
  <2>3. CASE ~Clean(odd)
    <3>1. IsHost(host') /\ IsLast(last')
      <4>1. IsHost(host) /\ IsLast(last)
        BY DEF MassInv
      <4> QED BY <1>3, <2>1, <4>1
              DEF HostTakes, HostTo, IsHost, HostFields, IsLast, LastFields
    <3> QED BY <1>1, <2>3, <3>1 DEF MassInv
  <2> QED BY <2>2, <2>3
<1> QED BY <1>2, <1>3 DEF ReadPacket, NextTaken
----------------------------------------------------------------------------
\* The medium is changed: attention is called, and what goes on is broken off.
LEMMA AttentionInv ==
  ASSUME NEW d, NEW e, NEW h, NEW l, NEW o, IsDev(d), DevInv(d, h, l, o),
         e \in {d, [d EXCEPT !.attention = TRUE, !.status = "failed"]}
  PROVE  /\ IsDev(e) /\ DevInv(e, h, l, o) /\ e.rw = d.rw /\ e.r = d.r /\ e.oep = d.oep
         /\ e.w = d.w
<1>1. CASE e = d
  BY <1>1
<1>2. CASE e = [d EXCEPT !.attention = TRUE, !.status = "failed"]
  <2>1. /\ IsDev(e) /\ e.attention /\ e.status = "failed" /\ e.received = d.received
        /\ e.sendCsw = d.sendCsw /\ e.resetRequired = d.resetRequired /\ e.cbw = d.cbw
        /\ e.tag = d.tag /\ e.csw = d.csw /\ e.sense = d.sense /\ e.iep = d.iep
        /\ e.inHalt = d.inHalt /\ e.hwIn = d.hwIn /\ e.r = d.r /\ e.w = d.w /\ e.rw = d.rw
        /\ e.oep = d.oep
    BY <1>2 DEF IsDev, DevFields
  <2>2. /\ Waits(e, h) = Waits(d, h) /\ Done(e, h) = Done(d, h) /\ Told(e, h) = Told(d, h)
        /\ Expl(e) /\ Still(e) = Still(d) /\ Answers(e) = Answers(d)
        /\ Before(e, h, o) = Before(d, h, o) /\ Alive(e, h, o) = Alive(d, h, o)
        /\ Alternates(e) = Alternates(d) /\ (NoneFull(d) = NoneFull(e))
    BY <2>1 DEF Waits, Done, Told, Expl, Still, Answers, Before, Alive, Alternates, NoneFull
  <2>3. Tags(e, h) /\ Once(e, h) /\ Own(e, h, o) /\ Sending(e, h, o)
    BY <2>1, <2>2 DEF DevInv, Tags, Once, Own, Sending
  <2>4. Stills(e, h, o) /\ Quiet(e, h, o) /\ CswSent(e, h) /\ Reasons(e, h)
    BY <2>1, <2>2 DEF DevInv, Stills, Quiet, CswSent, Reasons
  <2>5. Explains(e, h, l, o) /\ Order(e, h, o) /\ Directions(e, h) /\ AfterReset(e, h, l, o)
    BY <2>1, <2>2 DEF DevInv, Explains, Order, Directions, AfterReset
  <2> QED BY <2>1, <2>3, <2>4, <2>5 DEF DevInv
<1> QED BY <1>1, <1>2

LEMMA SendCswKeeps ==
  ASSUME NEW d, IsDev(d)
  PROVE  SendCsw(d) = [SendCsw(d) EXCEPT !.sendCsw = d.sendCsw]
<1> DEFINE C == [tag |-> d.tag, status |-> d.status, residue |-> d.residue]
           c == [d EXCEPT !.csw = C]
           x == MscSendData(c, "csw", 1)
           y == [x EXCEPT !.status = "passed"]
<1>1. c = [f \in DevFields |-> c[f]] /\ c.sendCsw = d.sendCsw
  BY DEF IsDev, DevFields
<1> HIDE DEF c
<1>2. x = [f \in DevFields |-> x[f]] /\ x.sendCsw = d.sendCsw
  BY <1>1 DEF MscSendData, DevFields
<1> HIDE DEF x
<1>3. y = [f \in DevFields |-> y[f]] /\ y.sendCsw = d.sendCsw
  BY <1>2 DEF DevFields
<1>4. SendCsw(d) = y
  BY DEF SendCsw, c, x
<1> HIDE DEF y
<1>5. y = [y EXCEPT !.sendCsw = d.sendCsw]
  BY <1>3 DEF DevFields
<1> QED BY <1>4, <1>5

LEMMA BrokenOffInv ==
  ASSUME NEW d, NEW h, NEW l, NEW o, IsDev(d), DevInv(d, h, l, o), d.rw.op # "none"
  PROVE  LET e == SendCsw(ResetStruct(StallFor(d))) IN IsDev(e) /\ DevInv(e, h, l, o)
<1> DEFINE c == StallFor(d)
           r == ResetStruct(c)
           x == SendCsw(r)
           e == [x EXCEPT !.sendCsw = FALSE]
<1>1. /\ IsDev(c) /\ c.oep = d.oep /\ c.iep = d.iep /\ (d.inHalt => c.inHalt)
      /\ c.r.count = d.r.count
  <2>1. Says(d, c)
    BY StallSays DEF IsDev
  <2> QED BY <2>1 DEF Says, IsDev
<1> HIDE DEF c
<1>2. /\ IsDev(r) /\ ~r.sendCsw /\ ~r.received /\ ~r.resetRequired /\ r.cbw = NoCbw
      /\ r.tag = 0 /\ r.csw.tag = 0 /\ r.rw = EmptyRw /\ r.r.left = 0
      /\ r.r.count = c.r.count /\ r.r.cur = c.r.cur /\ ~r.w.busy
      /\ r.iep = c.iep /\ r.oep = c.oep /\ r.inHalt = c.inHalt
  BY <1>1, ResetEffect
<1>3. r.sendCsw = FALSE
  BY DEF ResetStruct, StallFor, StallIn, StallOut, IsDev, DevFields, c
<1> HIDE DEF r
<1>4. e = x
  BY <1>2, <1>3, SendCswKeeps
<1>5. /\ IsDev(e) /\ SameButStatus(r, e)
      /\ e.csw.tag = r.tag /\ e.csw.status = r.status /\ ~e.sendCsw
  BY <1>2, SendCswEffect
<1> HIDE DEF e, x
<1>6. /\ ~e.received /\ ~e.resetRequired /\ e.cbw = NoCbw /\ e.tag = 0 /\ e.csw.tag = 0
      /\ ~e.w.busy /\ e.iep = d.iep /\ e.oep = d.oep /\ (d.inHalt => e.inHalt)
  BY <1>1, <1>2, <1>5 DEF SameButStatus
<1>7. /\ ~Rests(h, o) /\ ~Fresh(h, o)
      /\ Current(h) => /\ ~Told(d, h) /\ Moves(h) /\ h.n # 0
                       /\ \A b \in XY : ~Mine(d.oep[b], h) /\ ~MyStatus(d.iep[b], h)
  <2>1. ~Still(d)
    BY DEF Still
  <2> QED BY <2>1, AtWork DEF DevInv, Tags, CswSent
<1>8. Current(h) => ~Waits(e, h) /\ ~Done(e, h) /\ ~Told(e, h)
  BY <1>5, <1>6, <1>7 DEF Waits, Done, Told
<1>9. ~Before(e, h, o) /\ ~Alive(e, h, o)
  BY <1>7, <1>8 DEF Before, Alive
<1>10. Tags(e, h) /\ Once(e, h) /\ Own(e, h, o)
  BY <1>6, <1>7, <1>8 DEF DevInv, Tags, Once, Own
<1>11. Sending(e, h, o) /\ Stills(e, h, o) /\ Quiet(e, h, o)
  BY <1>6, <1>7, <1>8, <1>9 DEF DevInv, Sending, Stills, Quiet
<1>12. CswSent(e, h) /\ Reasons(e, h) /\ Directions(e, h) /\ AfterReset(e, h, l, o)
  BY <1>6, <1>7, <1>8 DEF CswSent, Reasons, Directions, AfterReset
<1>13. Explains(e, h, l, o) /\ Order(e, h, o)
  BY <1>7, <1>8, <1>9 DEF Explains, Order, Moves
<1>14. IsDev(e) /\ DevInv(e, h, l, o)
  BY <1>5, <1>10, <1>11, <1>12, <1>13 DEF DevInv
<1> QED BY <1>4, <1>14 DEF x, r, c

LEMMA MediaStep == ASSUME MassInv, Media PROVE MassInv'
<1> SUFFICES ASSUME Clean(odd')
             PROVE  last.explained /\ IsDev(dev') /\ DevInv(dev', host, last, odd')
  BY DEF Media, MassInv
<1>1. odd \subseteq odd' /\ Clean(odd)
  BY StillClean DEF Media
<1>2. IsDev(dev) /\ DevInv(dev, host, last, odd) /\ last.explained
  BY <1>1 DEF MassInv
<1>3. PICK present, changed, guess \in BOOLEAN :
        dev' = UpdateMediaInfo(dev, present, changed, guess)
  BY DEF Media
<1> DEFINE removed == (dev.present /\ ~present) \/ (present /\ changed)
           e == IF (~dev.present /\ present) \/ removed
                THEN [dev EXCEPT !.attention = TRUE, !.status = "failed"] ELSE dev
           f == IF removed /\ InProgress(dev, guess)
                THEN SendCsw(ResetStruct(StallFor(e))) ELSE e
<1>4. dev' = [f EXCEPT !.present = present]
  BY <1>3 DEF UpdateMediaInfo
<1>5. e \in {dev, [dev EXCEPT !.attention = TRUE, !.status = "failed"]}
  OBVIOUS
<1> HIDE DEF e, removed
<1>6. IsDev(e) /\ DevInv(e, host, last, odd) /\ e.rw = dev.rw
  BY <1>2, <1>5, AttentionInv
<1>7. IsDev(f) /\ DevInv(f, host, last, odd)
  BY <1>6, BrokenOffInv DEF InProgress
<1> HIDE DEF f
<1>8. IsDev(dev') /\ Alike(f, dev')
  BY <1>4, <1>7 DEF IsDev, DevFields, Alike, SameTalk, SameSending, SameWork, NoneFull
<1> QED BY <1>1, <1>2, <1>7, <1>8, AlikeInv, LongerHistory

----------------------------------------------------------------------------
(* The application. *)

LEMMA CopiesWorks ==
  ASSUME NEW d, NEW e, NEW h, NEW l, NEW o, DevInv(d, h, l, o), ~Still(d), Copies(d, e)
  PROVE  IsDev(e) /\ DevInv(e, h, l, o)
<1>1. Works(d, e)
  BY DEF Copies, Works, SameSending
<1> QED BY <1>1, WorkInv DEF Copies

\* The buffer it wrote is free again.
WriteGoesOn(d) ==
  IF d.double
  THEN [d EXCEPT !.rw.processed = TRUE, !.rw.full[d.rw.xy] = FALSE, !.rw.op = "none"]
  ELSE [d EXCEPT !.w.ptr = "X", !.w.free = BufPackets, !.rw.op = "none"]

LEMMA WriteGoesOnCopies == ASSUME NEW d, IsDev(d) PROVE Copies(d, WriteGoesOn(d))
<1>1. CASE d.double
  <2> DEFINE RW == [d.rw EXCEPT !.processed = TRUE, !.full[d.rw.xy] = FALSE, !.op = "none"]
  <2>1. IsRw(RW)
    BY DEF IsDev, IsRw, RwFields
  <2>2. WriteGoesOn(d) = [d EXCEPT !.rw = RW]
    BY <1>1 DEF WriteGoesOn, IsDev, DevFields, IsRw, RwFields
  <2> HIDE DEF RW
  <2> QED BY <2>1, <2>2, RwChange
<1>2. CASE ~d.double
  <2> DEFINE W == [d.w EXCEPT !.ptr = "X", !.free = BufPackets]
             RW == [d.rw EXCEPT !.op = "none"]
             c == [d EXCEPT !.w = W]
  <2>1. IsWrite(W) /\ W.busy = d.w.busy
    BY DEF IsDev, IsWrite, WriteFields
  <2>2. IsRw(RW)
    BY DEF IsDev, IsRw, RwFields
  <2>3. WriteGoesOn(d) = [c EXCEPT !.rw = RW]
    BY <1>2 DEF WriteGoesOn, IsDev, DevFields, IsWrite, WriteFields
  <2> HIDE DEF W, RW
  <2>4. Copies(d, c) /\ c.rw = d.rw
    BY <2>1, WriteChange
  <2> HIDE DEF c
  <2>5. Copies(c, [c EXCEPT !.rw = RW])
    BY <2>2, <2>4, RwChange DEF Copies
  <2> QED BY <2>3, <2>4, <2>5, CopiesTwice
<1> QED BY <1>1, <1>2

LEMMA WriteOverCopies ==
  ASSUME NEW d, IsDev(d) PROVE Copies(d, WriteOver(d)) /\ WriteOver(d).rw = d.rw
<1> DEFINE W == [d.w EXCEPT !.ptr = "null", !.busy = FALSE]
<1>1. IsWrite(W) /\ ~W.busy
  BY DEF IsDev, IsWrite, WriteFields
<1>2. WriteOver(d) = d \/ WriteOver(d) = [d EXCEPT !.w = W]
  BY DEF WriteOver, IsDev, DevFields
<1> HIDE DEF W
<1> QED BY <1>1, <1>2, WriteChange, CopiesSelf, ZenonT(60)

\* The blocks it read are sent.
LEMMA SentInv ==
  ASSUME NEW d, NEW h, NEW l, NEW o, IsDev(d), DevInv(d, h, l, o), ~Still(d)
  PROVE  IsDev(Sent(d)) /\ DevInv(Sent(d), h, l, o)
         /\ SameTalk(d, Sent(d)) /\ Sent(d).oep = d.oep
<1> DEFINE e == Sent(d)
           RW == [d.rw EXCEPT !.op = "none"]
           R == IF d.rw.count >= d.r.count THEN [d.r EXCEPT !.count = 0]
                ELSE [d.r EXCEPT !.count = @ - d.rw.count, !.lba = @ + d.rw.count]
<1>1. IsRw(RW)
  BY DEF IsDev, IsRw, RwFields
<1>2. /\ R = [f \in ReadFields |-> R[f]] /\ R.left = d.r.left /\ R.cur = d.r.cur
      /\ R.xy = d.r.xy /\ R.busy = d.r.busy /\ R.src = d.r.src
      /\ R.count = IF d.rw.count >= d.r.count THEN 0 ELSE d.r.count - d.rw.count
  BY DEF IsDev, IsRead, ReadFields
<1>3. e = [d EXCEPT !.r = R, !.rw = RW]
  <2>1. CASE d.rw.count >= d.r.count
    BY <2>1 DEF Sent, IsDev, DevFields
  <2>2. CASE ~(d.rw.count >= d.r.count)
    BY <2>2 DEF Sent, IsDev, DevFields, IsRead, ReadFields
  <2> QED BY <2>1, <2>2
<1> HIDE DEF e, R, RW
<1>4. d.rw.count \in Nat /\ d.r.count \in Nat
  BY DEF IsDev, IsRw, IsRead
<1>5. IsRead(R) /\ (d.r.count = 0 => R.count = 0)
  <2>1. R.count \in Nat /\ (d.r.count = 0 => R.count = 0)
    BY <1>2, <1>4
  <2> QED BY <1>2, <2>1 DEF IsDev, IsRead
<1>6. /\ e = [f \in DevFields |-> e[f]] /\ e.r = R /\ e.rw = RW /\ e.w = d.w
      /\ e.oep = d.oep /\ e.hwOut = d.hwOut /\ e.iep = d.iep /\ e.hwIn = d.hwIn
  BY <1>3 DEF IsDev, DevFields
<1>7. IsDev(e)
  BY <1>1, <1>5, <1>6 DEF IsDev
<1>8. SameTalk(d, e)
  BY <1>2, <1>3 DEF IsDev, DevFields, SameTalk
<1>9. Works(d, e)
  BY <1>2, <1>5, <1>6, <1>8 DEF Works, SameSending
<1> QED BY <1>6, <1>7, <1>8, <1>9, WorkInv DEF e

LEMMA ReadProcessedInv ==
  ASSUME NEW d, NEW h, NEW l, NEW o, IsDev(d), DevInv(d, h, l, o), d.rw.op # "none"
  PROVE  LET e == ReadProcessed(d) IN
         IsDev(e) /\ DevInv(e, h, l, o) /\ SameTalk(d, e) /\ e.oep = d.oep
<1> DEFINE n == d.rw.count * LbaPackets
<1>1. n \in Nat /\ d.rw.xy \in XY
  BY MassStorageAssumption DEF IsDev, IsRw
<1>2. ~Still(d) /\ ~Fresh(h, o)
  BY AtWork DEF Still
<1>3. CASE ~d.double
  <2> DEFINE x == MscSendData(d, "X", n)
  <2> HIDE DEF n
  <2>1. /\ IsDev(x) /\ DevInv(x, h, l, o) /\ x.rw = d.rw /\ x.oep = d.oep /\ SameTalk(d, x)
    BY <1>1, <1>2, SendBlocksInv
  <2> HIDE DEF x
  <2>2. ~Still(x)
    BY <2>1 DEF Still
  <2>3. ReadProcessed(d) = Sent(x)
    BY <1>3 DEF ReadProcessed, x, n
  <2> QED BY <2>1, <2>2, <2>3, SentInv DEF SameTalk
<1>4. CASE d.double
  <2> DEFINE RW == [d.rw EXCEPT !.processed = TRUE, !.full[d.rw.xy] = TRUE,
                                !.packets[d.rw.xy] = n]
             e == [d EXCEPT !.rw.processed = TRUE, !.rw.full[d.rw.xy] = TRUE,
                            !.rw.packets[d.rw.xy] = n]
  <2> HIDE DEF n
  <2>1. IsRw(RW) /\ RW.op = d.rw.op /\ RW.xy = d.rw.xy
    <3>1. RW = [f \in RwFields |-> RW[f]] /\ RW.op = d.rw.op /\ RW.count = d.rw.count
          /\ RW.xy = d.rw.xy /\ RW.counts = d.rw.counts
          /\ RW.full = [d.rw.full EXCEPT ![d.rw.xy] = TRUE]
          /\ RW.packets = [d.rw.packets EXCEPT ![d.rw.xy] = n]
      BY DEF IsDev, IsRw, RwFields
    <3> HIDE DEF RW
    <3>2. RW.packets \in [XY -> Nat] /\ RW.full = [b \in XY |-> RW.full[b]]
      BY <1>1, <3>1 DEF IsDev, IsRw
    <3> QED BY <3>1, <3>2 DEF IsDev, IsRw
  <2>2. e = [d EXCEPT !.rw = RW]
    BY DEF IsDev, DevFields, IsRw, RwFields
  <2> HIDE DEF RW, e
  <2>3. Copies(d, e) /\ e.rw = RW
    BY <2>1, <2>2, RwChange
  <2>4. /\ IsDev(e) /\ DevInv(e, h, l, o) /\ SameTalk(d, e) /\ e.rw.op # "none"
        /\ e.oep = d.oep
    <3>1. e.oep = d.oep
      BY <2>2 DEF IsDev, DevFields
    <3> QED BY <1>2, <2>1, <2>3, <3>1, CopiesWorks DEF Copies
  <2>5. CASE d.rw.first
    <3> DEFINE x == [e EXCEPT !.iepIfg = TRUE]
    <3>1. IsDev(x) /\ Alike(e, x) /\ x.rw = e.rw /\ x.oep = e.oep
      BY <2>4 DEF IsDev, DevFields, Alike, SameTalk, SameSending, SameWork, NoneFull
    <3> HIDE DEF x
    <3>2. DevInv(x, h, l, o) /\ ~Still(x)
      BY <2>4, <3>1, AlikeInv DEF Still
    <3>3. ReadProcessed(d) = Sent(x)
      BY <1>4, <2>5 DEF ReadProcessed, e, x, n
    <3> QED BY <2>4, <3>1, <3>2, <3>3, SentInv DEF SameTalk, Alike
  <2>6. CASE ~d.rw.first
    <3> DEFINE Q == [e.rw EXCEPT !.first = TRUE]
               x == [e EXCEPT !.rw.first = TRUE]
               b == d.rw.xy
               y == MscSendData(x, b, n)
    <3>1. IsRw(Q) /\ Q.op = e.rw.op
      BY <2>4 DEF IsDev, IsRw, RwFields
    <3>2. x = [e EXCEPT !.rw = Q]
      BY <2>4 DEF IsDev, DevFields
    <3> HIDE DEF x, Q
    <3>3. Copies(e, x) /\ x.rw = Q /\ x.oep = e.oep
      <4>1. x.oep = e.oep
        BY <2>4, <3>2 DEF IsDev, DevFields
      <4> QED BY <2>4, <3>1, <3>2, <4>1, RwChange
    <3>4. IsDev(x) /\ DevInv(x, h, l, o) /\ SameTalk(e, x) /\ ~Still(x)
      BY <2>4, <3>1, <3>3, CopiesWorks DEF Copies, Still
    <3>5. IsDev(y) /\ DevInv(y, h, l, o) /\ SameTalk(x, y) /\ y.rw = x.rw /\ y.oep = x.oep
      <4> HIDE DEF b, y
      <4>1. b \in XY
        BY <1>1 DEF b
      <4> QED BY <1>1, <1>2, <3>4, <4>1, SendBlocksInv DEF y
    <3>6. ReadProcessed(d) = Sent(y)
      BY <1>4, <2>6 DEF ReadProcessed, e, x, n
    <3> HIDE DEF y, b
    <3>7. ~Still(y)
      BY <2>4, <3>1, <3>3, <3>5 DEF Still
    <3>8. SameTalk(d, y) /\ y.oep = d.oep
      BY <2>4, <3>3, <3>4, <3>5 DEF SameTalk
    <3> QED BY <3>5, <3>6, <3>7, <3>8, SentInv DEF SameTalk
  <2> QED BY <2>5, <2>6
<1> QED BY <1>3, <1>4

\* Blocks were moved for a command that is neither waiting nor over: if it has
\* failed, then by a change of the medium.
Moving(d, h, o) ==
  /\ ~Rests(h, o) /\ ~Fresh(h, o)
  /\ Current(h) => /\ Moves(h) /\ ~Told(d, h) /\ ~Waits(d, h)
                   /\ Done(d, h) /\ d.status = "failed" => d.attention

LEMMA WorkMoves ==
  ASSUME NEW d, NEW h, NEW l, NEW o, DevInv(d, h, l, o), ~Still(d)
  PROVE  Moving(d, h, o)
BY AtWork DEF Moving, DevInv, Reasons, Moves, FailsInSilence

LEMMA KeepsMoving ==
  ASSUME NEW d, NEW e, NEW h, NEW o, Moving(d, h, o), Current(h) => Keeps(d, e, h)
  PROVE  Moving(e, h, o)
BY DEF Moving, Keeps, Told

LEMMA TalkMoving ==
  ASSUME NEW d, NEW e, NEW h, NEW o, Moving(d, h, o), SameTalk(d, e),
         \A b \in XY : e.oep[b] \in {d.oep[b], Free}
  PROVE  Moving(e, h, o)
BY DEF Moving, SameTalk, Told, Waits, Done, Mine, Free

LEMMA SenseClearedInv ==
  ASSUME NEW d, NEW e, NEW h, NEW l, NEW o, IsDev(d), DevInv(d, h, l, o), Moving(d, h, o),
         e = [d EXCEPT !.residue = "0", !.sense = "none"]
  PROVE  IsDev(e) /\ DevInv(e, h, l, o)
<1>1. /\ IsDev(e) /\ e.attention = d.attention /\ e.status = d.status
      /\ e.received = d.received
      /\ e.sendCsw = d.sendCsw /\ e.resetRequired = d.resetRequired /\ e.cbw = d.cbw
      /\ e.tag = d.tag /\ e.csw = d.csw /\ e.iep = d.iep
      /\ e.inHalt = d.inHalt /\ e.hwIn = d.hwIn /\ e.r = d.r /\ e.w = d.w /\ e.rw = d.rw
      /\ e.oep = d.oep
  BY DEF IsDev, DevFields
<1>2. /\ Waits(e, h) = Waits(d, h) /\ Done(e, h) = Done(d, h) /\ Told(e, h) = Told(d, h)
      /\ Still(e) = Still(d) /\ Answers(e) = Answers(d)
      /\ Before(e, h, o) = Before(d, h, o) /\ Alive(e, h, o) = Alive(d, h, o)
      /\ Alternates(e) = Alternates(d) /\ NoneFull(e) = NoneFull(d)
  BY <1>1 DEF Waits, Done, Told, Still, Answers, Before, Alive, Alternates, NoneFull
<1>3. Tags(e, h) /\ Once(e, h) /\ Own(e, h, o) /\ Sending(e, h, o)
  BY <1>1, <1>2 DEF DevInv, Tags, Once, Own, Sending
<1>4. Stills(e, h, o) /\ Quiet(e, h, o) /\ CswSent(e, h)
  BY <1>1, <1>2 DEF DevInv, Stills, Quiet, CswSent
<1>5. Reasons(e, h) /\ Explains(e, h, l, o)
  BY <1>1, <1>2 DEF DevInv, CswSent, Reasons, Explains, Moving, Moves
<1>6. Order(e, h, o) /\ Directions(e, h) /\ AfterReset(e, h, l, o)
  BY <1>1, <1>2 DEF DevInv, Order, Directions, AfterReset
<1> QED BY <1>1, <1>3, <1>4, <1>5, <1>6 DEF DevInv

LEMMA SucceedsInv ==
  ASSUME NEW d, NEW h, NEW l, NEW o, IsDev(d), DevInv(d, h, l, o), d.rw.op # "none"
  PROVE  LET e == BufferProcessed(d, "RWSuccess") IN IsDev(e) /\ DevInv(e, h, l, o)
<1>1. ~Still(d) /\ Moving(d, h, o)
  BY WorkMoves DEF Still
<1>2. CASE d.rw.op = "write"
  <2> DEFINE c == WriteOver(d)
             x == WriteGoesOn(c)
             y == MSCFromHostToBuffer(x)
  <2>1. Copies(d, c) /\ c.rw = d.rw
    BY WriteOverCopies
  <2>2. WriteProcessed(c) = y
    BY DEF WriteProcessed, WriteGoesOn
  <2>3. BufferProcessed(d, "RWSuccess") = [y EXCEPT !.residue = "0", !.sense = "none"]
    BY <1>2, <2>2 DEF BufferProcessed
  <2> HIDE DEF c
  <2>4. IsDev(c) /\ DevInv(c, h, l, o) /\ ~Still(c)
    BY <1>1, <2>1, CopiesWorks DEF Still
  <2>5. Copies(c, x)
    BY <2>4, WriteGoesOnCopies
  <2> HIDE DEF x
  <2>6. IsDev(x) /\ DevInv(x, h, l, o)
    BY <2>4, <2>5, CopiesWorks
  <2>7. Moving(x, h, o)
    BY <1>1, <2>1, <2>5, CopiesTwice, TalkMoving DEF Copies
  <2>8. IsDev(y) /\ DevInv(y, h, l, o) /\ (Current(h) => Keeps(x, y, h))
    BY <2>6, FromHostInv
  <2> HIDE DEF y
  <2>9. Moving(y, h, o)
    BY <2>7, <2>8, KeepsMoving
  <2> QED BY <2>3, <2>8, <2>9, SenseClearedInv
<1>3. CASE d.rw.op # "write"
  <2> DEFINE y == ReadProcessed(d)
  <2>1. BufferProcessed(d, "RWSuccess") = [y EXCEPT !.residue = "0", !.sense = "none"]
    BY <1>3 DEF BufferProcessed
  <2>2. IsDev(y) /\ DevInv(y, h, l, o) /\ SameTalk(d, y) /\ y.oep = d.oep
    BY ReadProcessedInv
  <2> HIDE DEF y
  <2>3. Moving(y, h, o)
    BY <1>1, <2>2, TalkMoving
  <2> QED BY <2>1, <2>2, <2>3, SenseClearedInv
<1> QED BY <1>2, <1>3
----------------------------------------------------------------------------
\* What the application refuses leaves no work, and stalls.
Broken(d, e) ==
  /\ IsDev(e) /\ e.status = "failed" /\ e.sense # "none" /\ e.received = d.received
  /\ e.sendCsw = d.sendCsw /\ e.attention = d.attention
  /\ e.resetRequired = d.resetRequired /\ e.cbw = d.cbw /\ e.tag = d.tag
  /\ e.csw = d.csw /\ e.iep = d.iep /\ e.hwIn = d.hwIn /\ (d.inHalt => e.inHalt)
  /\ e.rw.op = "none" /\ \A b \in XY : e.oep[b] \in {d.oep[b], Free}
  /\ e.r.cur = d.r.cur /\ e.r.left = d.r.left
  /\ d.cbw.dir = "in"  => e.r.count = 0 /\ ~e.r.busy /\ e.w.busy = d.w.busy
  /\ d.cbw.dir # "in" => /\ e.r.count = d.r.count /\ e.r.busy = d.r.busy /\ ~e.w.busy
                         /\ e.inHalt = d.inHalt

LEMMA BrokenInv ==
  ASSUME NEW d, NEW e, NEW h, NEW l, NEW o, IsDev(d), DevInv(d, h, l, o), ~Still(d),
         Broken(d, e),
         e.inHalt /\ ~d.inHalt => d.iep = NoPackets /\ ~(d.r.left > 0),
         d.cbw.dir = "in" => e.inHalt
  PROVE  DevInv(e, h, l, o)
<1> USE DEF Broken
<1>1. /\ ~Before(d, h, o) /\ ~Rests(h, o) /\ ~Fresh(h, o)
      /\ Current(h) => /\ ~Waits(d, h) /\ ~Told(d, h) /\ Moves(h)
                       /\ d.received => d.tag # h.n
                       /\ \A b \in XY : ~Mine(d.oep[b], h)
      /\ Alive(d, h, o) /\ d.inHalt => d.resetRequired
  BY AtWork
<1>2. /\ Done(e, h) = Done(d, h) /\ Told(e, h) = Told(d, h) /\ Alternates(e) = Alternates(d)
      /\ \A b \in XY : e.oep[b].kind = "cbw" => e.oep[b] = d.oep[b]
  BY DEF Done, Told, Alternates, Free
<1>3. /\ \A b \in XY : Mine(e.oep[b], h) => Mine(d.oep[b], h) /\ e.oep[b] = d.oep[b]
      /\ ~Before(e, h, o) /\ Alive(e, h, o) = Alive(d, h, o)
      /\ Alive(d, h, o) => Current(h) /\ Done(d, h)
  BY <1>1, <1>2 DEF Before, Alive, Waits, Mine
<1>4. Alive(d, h, o) => ~d.resetRequired /\ ~d.inHalt
  BY <1>1, <1>3 DEF DevInv, CswSent
<1>5. Current(h) /\ Done(d, h) => Still(e)
  <2>1. d.cbw.dir \in {"in", "out"}
    BY DEF DevInv, Tags, Command, NoCbw
  <2> QED BY <2>1 DEF DevInv, Directions, Still
<1>6. Tags(e, h) /\ Once(e, h) /\ Own(e, h, o)
  BY <1>1, <1>2, <1>3 DEF DevInv, Tags, Once, Own
<1>7. Sending(e, h, o)
  <2>1. d.r.left \in Nat
    BY DEF IsDev, IsRead
  <2>2. Alive(d, h, o) /\ d.cbw.dir = "in" => e.r.left = 0
    BY <1>4, <2>1
  <2> QED BY <1>3, <2>2 DEF DevInv, Sending
<1>8. Stills(e, h, o) /\ Quiet(e, h, o) /\ CswSent(e, h) /\ Reasons(e, h)
  BY <1>1, <1>2, <1>3, <1>5 DEF DevInv, Stills, Quiet, CswSent, Reasons
<1>9. Explains(e, h, l, o) /\ AfterReset(e, h, l, o)
  BY <1>1, <1>3 DEF Explains, AfterReset, Before, Moves
<1>10. Order(e, h, o)
  BY <1>1, <1>2, <1>3, <1>4, <1>5 DEF DevInv, Order, CswSent, IsDev
<1>11. Directions(e, h)
  BY <1>2 DEF DevInv, Directions
<1> QED BY <1>6, <1>7, <1>8, <1>9, <1>10, <1>11 DEF DevInv

LEMMA RefusedBroken ==
  ASSUME NEW d, NEW x, IsDev(d), IsDev(x), x.status = "failed", x.sense # "none",
         x.received = d.received, x.sendCsw = d.sendCsw, x.attention = d.attention,
         x.resetRequired = d.resetRequired, x.cbw = d.cbw, x.tag = d.tag,
         x.csw = d.csw, x.iep = d.iep, x.hwIn = d.hwIn, x.inHalt = d.inHalt,
         x.r = d.r, x.oep = d.oep, x.w.busy => d.w.busy, d.cbw.dir = "in" => x.w = d.w
  PROVE  Broken(d, Refused(x)) /\ (d.cbw.dir = "in" => Refused(x).inHalt)
<1> DEFINE RW == [x.rw EXCEPT !.op = "none"]
           e == [x EXCEPT !.rw = RW]
<1>1. IsRw(RW) /\ RW.op = "none"
  BY DEF IsDev, IsRw, RwFields
<1>2. [x EXCEPT !.rw.op = "none"] = e
  BY DEF IsDev, DevFields
<1> HIDE DEF RW, e
<1>3. /\ e = [f \in DevFields |-> e[f]] /\ e.rw = RW /\ e.status = x.status
      /\ e.sense = x.sense /\ e.received = x.received /\ e.sendCsw = x.sendCsw
      /\ e.attention = x.attention /\ e.resetRequired = x.resetRequired /\ e.cbw = x.cbw
      /\ e.tag = x.tag /\ e.csw = x.csw /\ e.iep = x.iep /\ e.hwIn = x.hwIn
      /\ e.inHalt = x.inHalt /\ e.r = x.r /\ e.oep = x.oep /\ e.w = x.w
      /\ e.hwOut = x.hwOut
  BY DEF IsDev, DevFields, e
<1>4. CASE d.cbw.dir = "in"
  <2> DEFINE R == [x.r EXCEPT !.busy = FALSE, !.src = "null", !.count = 0]
             g == [e EXCEPT !.inHalt = TRUE, !.r = R]
  <2>1. IsRead(R) /\ ~R.busy /\ R.count = 0 /\ R.cur = d.r.cur /\ R.left = d.r.left
    BY DEF IsDev, IsRead, ReadFields
  <2>2. Refused(x) = g
    <3> DEFINE s == StallIn(e)
    <3>1. Refused(x) = [s EXCEPT !.r.busy = FALSE, !.r.src = "null", !.r.count = 0]
      BY <1>2, <1>4 DEF Refused
    <3>2. s = [f \in DevFields |-> s[f]] /\ s.r = x.r
      BY <1>3 DEF StallIn, DevFields
    <3>3. g = [s EXCEPT !.r = R]
      BY <1>3 DEF StallIn, DevFields
    <3> HIDE DEF s, g
    <3> QED BY <3>1, <3>2, <3>3, ZenonT(60) DEF DevFields
  <2> HIDE DEF R
  <2>3. /\ g = [f \in DevFields |-> g[f]] /\ g.rw = RW /\ g.status = x.status
        /\ g.sense = x.sense /\ g.received = x.received /\ g.sendCsw = x.sendCsw
        /\ g.attention = x.attention /\ g.resetRequired = x.resetRequired /\ g.cbw = x.cbw
        /\ g.tag = x.tag /\ g.csw = x.csw /\ g.iep = x.iep /\ g.hwIn = x.hwIn
        /\ g.inHalt = TRUE /\ g.r = R /\ g.oep = x.oep /\ g.w = x.w
        /\ g.hwOut = x.hwOut
    BY <1>3 DEF DevFields
  <2> HIDE DEF g
  <2>4. IsDev(g)
    BY <1>1, <2>1, <2>3 DEF IsDev
  <2> QED BY <1>1, <1>4, <2>1, <2>2, <2>3, <2>4 DEF Broken
<1>5. CASE d.cbw.dir # "in"
  <2> DEFINE c == IF e.w.left > 0 THEN StallOut(e) ELSE e
             W == [x.w EXCEPT !.busy = FALSE, !.ptr = "null"]
             g == [c EXCEPT !.w = W, !.oep = NoPackets]
  <2>1. IsWrite(W) /\ ~W.busy
    BY DEF IsDev, IsWrite, WriteFields
  <2>2. /\ c = [f \in DevFields |-> c[f]] /\ c.rw = RW /\ c.status = x.status
        /\ c.sense = x.sense /\ c.received = x.received /\ c.sendCsw = x.sendCsw
        /\ c.attention = x.attention /\ c.resetRequired = x.resetRequired /\ c.cbw = x.cbw
        /\ c.tag = x.tag /\ c.csw = x.csw /\ c.iep = x.iep /\ c.hwIn = x.hwIn
        /\ c.inHalt = x.inHalt /\ c.r = x.r /\ c.w = x.w /\ c.hwOut = x.hwOut
    <3>1. CASE c = e
      BY <1>3, <3>1
    <3>2. CASE c = StallOut(e)
      BY <1>3, <3>2 DEF StallOut, DevFields
    <3> QED BY <3>1, <3>2
  <2>3. Refused(x) = g
    <3>1. Refused(x) = [c EXCEPT !.w.busy = FALSE, !.w.ptr = "null", !.oep = NoPackets]
      BY <1>2, <1>5 DEF Refused
    <3> HIDE DEF c
    <3> QED BY <2>2, <3>1 DEF DevFields
  <2> HIDE DEF c, W
  <2>4. /\ g = [f \in DevFields |-> g[f]] /\ g.rw = RW /\ g.status = x.status
        /\ g.sense = x.sense /\ g.received = x.received /\ g.sendCsw = x.sendCsw
        /\ g.attention = x.attention /\ g.resetRequired = x.resetRequired /\ g.cbw = x.cbw
        /\ g.tag = x.tag /\ g.csw = x.csw /\ g.iep = x.iep /\ g.hwIn = x.hwIn
        /\ g.inHalt = x.inHalt /\ g.r = x.r /\ g.oep = NoPackets /\ g.w = W
        /\ g.hwOut = x.hwOut
    BY <2>2 DEF DevFields
  <2> HIDE DEF g
  <2>5. NoPackets = [b \in XY |-> NoPackets[b]] /\ \A b \in XY : NoPackets[b] = Free
    BY DEF NoPackets
  <2>6. IsDev(g)
    BY <1>1, <2>1, <2>4, <2>5 DEF IsDev
  <2> QED BY <1>1, <1>5, <2>1, <2>3, <2>4, <2>5, <2>6 DEF Broken
<1> QED BY <1>4, <1>5

LEMMA FailsInv ==
  ASSUME NEW d, NEW h, NEW l, NEW o, IsDev(d), DevInv(d, h, l, o), d.rw.op # "none",
         NEW code \in ReturnCodes \ {"RWSuccess"}, NEW e, e = BufferProcessed(d, code),
         e.inHalt /\ ~d.inHalt => d.iep = NoPackets /\ ~(d.r.left > 0)
  PROVE  IsDev(e) /\ DevInv(e, h, l, o)
<1> DEFINE c == IF d.rw.op = "write" THEN WriteOver(d) ELSE d
           s == IF code = "RWNotReady" THEN "1" ELSE "0"
           x == [Failed(c, SenseOf[code]) EXCEPT !.residue = s]
<1>1. e = Refused(x)
  BY DEF BufferProcessed
<1>2. Copies(d, c) /\ c.rw = d.rw
  BY WriteOverCopies, CopiesSelf
<1>3. c.oep = d.oep
  BY DEF WriteOver, IsDev, DevFields
<1>4. SenseOf[code] = "medium"
  BY DEF ReturnCodes, SenseOf
<1> HIDE DEF c, s
<1>5. IsDev(c) /\ DevInv(c, h, l, o) /\ ~Still(c) /\ SameTalk(d, c) /\ c.r = d.r
  BY <1>2, CopiesWorks DEF Still, Copies
<1>6. x = [c EXCEPT !.sense = "medium", !.status = "failed", !.residue = s]
  BY <1>4 DEF Failed, Sense
<1> HIDE DEF x
<1>7. IsDev(x) /\ x.status = "failed" /\ x.sense # "none"
      /\ x.received = c.received /\ x.sendCsw = c.sendCsw /\ x.attention = c.attention
      /\ x.resetRequired = c.resetRequired /\ x.cbw = c.cbw /\ x.tag = c.tag
      /\ x.csw = c.csw /\ x.iep = c.iep /\ x.hwIn = c.hwIn /\ x.inHalt = c.inHalt
      /\ x.r = c.r /\ x.oep = c.oep /\ x.w = c.w
  BY <1>5, <1>6 DEF IsDev, DevFields
<1>8. Broken(c, e) /\ (c.cbw.dir = "in" => e.inHalt)
  BY <1>1, <1>5, <1>7, RefusedBroken
<1>9. e.inHalt /\ ~c.inHalt => c.iep = NoPackets /\ ~(c.r.left > 0)
  BY <1>5 DEF SameTalk
<1> QED BY <1>5, <1>8, <1>9, BrokenInv DEF Broken

LEMMA ApplicationStep == ASSUME MassInv, Application PROVE MassInv'
<1> SUFFICES ASSUME Clean(odd')
             PROVE  last.explained /\ IsDev(dev') /\ DevInv(dev', host, last, odd')
  BY DEF Application, MassInv
<1>1. odd \subseteq odd' /\ Clean(odd) /\ odd' = odd \cup Oddities(dev, dev')
  BY StillClean DEF Application
<1>2. IsDev(dev) /\ DevInv(dev, host, last, odd) /\ last.explained
  BY <1>1 DEF MassInv
<1> DEFINE blocks == [i \in 1..BufPackets |->
                        IF i <= dev.rw.count * LbaPackets
                        THEN dev.rw.lba * LbaPackets + i ELSE 0]
           B == [dev.buf EXCEPT ![dev.rw.xy] = blocks]
           filled == [dev EXCEPT !.buf[dev.rw.xy] = blocks]
           d == IF dev.rw.op = "read" THEN filled ELSE dev
<1>3. PICK code \in ReturnCodes : dev' = BufferProcessed(d, code)
  BY DEF Application
<1>4. d = dev \/ d = [dev EXCEPT !.buf = B]
  BY DEF IsDev, DevFields
<1> HIDE DEF B, d
<1>5. IsDev(d) /\ Alike(dev, d) /\ d.rw = dev.rw /\ d.r = dev.r /\ d.iep = dev.iep
      /\ d.inHalt = dev.inHalt
  BY <1>2, <1>4 DEF IsDev, DevFields, Alike, SameTalk, SameSending, SameWork, NoneFull
<1>6. DevInv(d, host, last, odd) /\ d.rw.op # "none"
  BY <1>2, <1>5, AlikeInv DEF Application
<1>7. CASE code = "RWSuccess"
  BY <1>1, <1>2, <1>3, <1>5, <1>6, <1>7, SucceedsInv, LongerHistory
<1>8. CASE code # "RWSuccess"
  <2>1. dev'.inHalt /\ ~d.inHalt => d.iep = NoPackets /\ ~(d.r.left > 0)
    BY <1>1, <1>5, OdditiesSay
  <2>2. IsDev(dev') /\ DevInv(dev', host, last, odd)
    BY <1>3, <1>5, <1>6, <1>8, <2>1, FailsInv
  <2> QED BY <1>1, <1>2, <2>2, LongerHistory
<1> QED BY <1>7, <1>8
----------------------------------------------------------------------------
LEMMA MassInitInv == ASSUME MassInit PROVE MassInv
<1>1. IsHost(host) /\ host.ph = "setup" /\ host.n = 0 /\ host.c = NoCbw
  BY DEF MassInit, IsHost, HostFields
<1>2. IsLast(last) /\ last.status = "none" /\ last.explained
  BY DEF MassInit, IsLast, LastFields
<1>3. odd = {}
  BY DEF MassInit
<1> DEFINE C == [tag |-> 0, status |-> "passed", residue |-> "0"]
           B == [b \in {"X", "Y"} |-> [i \in 1..BufPackets |-> 0]]
<1>4. PICK double \in BOOLEAN, protected \in BOOLEAN :
       dev = [status |-> "passed", residue |-> "0", supported |-> TRUE,
              received |-> FALSE, sendCsw |-> FALSE, configured |-> FALSE,
              attention |-> FALSE, resetRequired |-> FALSE, stallEndpoint |-> FALSE,
              r |-> EmptyRead, w |-> EmptyWrite, rw |-> EmptyRw, cbw |-> NoCbw,
              tag |-> 0, csw |-> C, sense |-> "none", present |-> TRUE,
              protected |-> protected, double |-> double, buf |-> B,
              iep |-> NoPackets, oep |-> NoPackets,
              inHalt |-> FALSE, outHalt |-> FALSE, hwIn |-> "X", hwOut |-> "X",
              iepIfg |-> FALSE, oepIfg |-> FALSE]
  BY DEF MassInit, NoPackets
<1>5. C.tag = 0
  OBVIOUS
<1> HIDE DEF C, B
<1>6. /\ dev = [f \in DevFields |-> dev[f]] /\ dev.r = EmptyRead /\ dev.w = EmptyWrite
      /\ dev.rw = EmptyRw /\ dev.cbw = NoCbw /\ dev.tag = 0 /\ dev.csw = C
      /\ dev.iep = NoPackets /\ dev.oep = NoPackets /\ dev.hwIn = "X" /\ dev.hwOut = "X"
      /\ ~dev.inHalt /\ ~dev.resetRequired /\ ~dev.received /\ ~dev.sendCsw
  BY <1>4 DEF DevFields
<1>7. IsRead(EmptyRead) /\ IsWrite(EmptyWrite) /\ IsRw(EmptyRw)
  <2>1. IsRead(EmptyRead)
    BY DEF IsRead, ReadFields, EmptyRead
  <2>2. IsWrite(EmptyWrite)
    BY DEF IsWrite, WriteFields, EmptyWrite
  <2>3. IsRw(EmptyRw)
    BY DEF IsRw, RwFields, EmptyRw
  <2> QED BY <2>1, <2>2, <2>3
<1>8. NoPackets = [b \in XY |-> NoPackets[b]] /\ \A b \in XY : NoPackets[b] = Free
  BY DEF NoPackets
<1>9. IsDev(dev)
  BY <1>6, <1>7, <1>8 DEF IsDev
<1>10. Still(dev) /\ NoneFull(dev) /\ dev.r.left = 0 /\ dev.r.cur = "X"
  <2>1. EmptyRead.left = 0 /\ EmptyRead.cur = "X" /\ EmptyRead.count = 0
    BY DEF EmptyRead
  <2>2. ~EmptyWrite.busy
    BY DEF EmptyWrite
  <2>3. EmptyRw.op = "none" /\ EmptyRw.full = [b \in XY |-> FALSE]
    BY DEF EmptyRw
  <2> QED BY <1>6, <2>1, <2>2, <2>3 DEF Still, NoneFull
<1>11. ~Current(host) /\ ~Rests(host, odd) /\ host.ph \notin {"haltIn", "resetIn"}
  BY <1>1 DEF Current, Rests
<1>12. ~Before(dev, host, odd) /\ ~Alive(dev, host, odd)
  BY <1>11 DEF Before, Alive
<1>13. Tags(dev, host)
  BY <1>1, <1>5, <1>6, <1>8, <1>11 DEF Tags, Free, Mine
<1>14. Once(dev, host) /\ Own(dev, host, odd) /\ Sending(dev, host, odd)
  BY <1>6, <1>8, <1>11, <1>12 DEF Once, Own, Sending, Free
<1>15. /\ Stills(dev, host, odd) /\ Quiet(dev, host, odd) /\ CswSent(dev, host)
       /\ Reasons(dev, host) /\ Order(dev, host, odd) /\ Directions(dev, host)
  BY <1>11, <1>12 DEF Stills, Quiet, CswSent, Reasons, Order, Directions
<1>16. Explains(dev, host, last, odd) /\ AfterReset(dev, host, last, odd)
  BY <1>2, <1>6, <1>10, <1>11 DEF Explains, Asked, AfterReset
<1> QED BY <1>1, <1>2, <1>9, <1>13, <1>14, <1>15, <1>16 DEF MassInv, DevInv

\* MassInv is inductive: for every sequence of commands, right or wrong in
\* direction, length and format, with both kinds of buffers, and whatever
\* interrupts, changes of the medium, errors and resets come between.
THEOREM MassStorageInvariant == MassSpec => []MassInv
<1>1. MassInit => MassInv
  BY MassInitInv
<1>2. MassInv /\ [MassNext]_massVars => MassInv'
  <2> SUFFICES ASSUME MassInv, [MassNext]_massVars PROVE MassInv'
    OBVIOUS
  <2>1. CASE UNCHANGED massVars
    BY <2>1 DEF massVars, MassInv
  <2>2. CASE MassNext
    BY <2>2, InIsrStep, OutIsrStep, PollStep, StatusStep, TakeStep, ApplicationStep, MediaStep,
       GetMaxLunStep, SendCbwStep, SendPacketStep, ReadPacketStep, ClearFeatureStep,
       BulkOnlyResetStep, GiveUpStep
       DEF MassNext
  <2> QED BY <2>1, <2>2
<1> QED BY <1>1, <1>2, PTL DEF MassSpec

\* After a command that failed, REQUEST SENSE gives a reason (the sense data set
\* with bMscCommandStatus in UsbMscScsi.c), unless the command is one of those
\* that fail in silence.
THEOREM FailuresAreExplained == MassSpec => []FailureExplained
<1>1. MassInv => FailureExplained
  BY DEF MassInv, Clean, FailureExplained
<1> QED BY <1>1, MassStorageInvariant, PTL
=============================================================================
