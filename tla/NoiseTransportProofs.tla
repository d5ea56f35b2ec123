------------------------ MODULE NoiseTransportProofs ------------------------
(***************************************************************************)
(* For any number of senders, any base of the length digits, any sizes     *)
(* that fit three of them, and any pieces the streams come in: client and  *)
(* server never fall out of step, and each direction is an ordered channel.*)
(***************************************************************************)
EXTENDS NoiseTransport, SequenceTheorems, TLAPS

-----------------------------------------------------------------------------
\* Numbers in three digits.

LEMMA Division ==
  ASSUME NEW n \in Nat, NEW b \in Nat \ {0}
  PROVE  /\ n \div b \in Nat /\ n % b \in 0..(b - 1)
         /\ n = b * (n \div b) + (n % b)
BY Z3

\* A quotient is the only number with a remainder below the divisor.
LEMMA Quotient ==
  ASSUME NEW n \in Nat, NEW b \in Nat \ {0}, NEW q \in Nat, NEW r \in 0..(b - 1), n = b * q + r
  PROVE  n \div b = q /\ n % b = r
BY Z3

LEMMA Distributes ==
  ASSUME NEW b \in Nat, NEW p \in Nat, NEW r \in Nat, NEW z \in Nat
  PROVE  b * (b * p + r) + z = b * b * p + (b * r + z)
<1>1. b * (b * p + r) = b * (b * p) + b * r BY Z3
<1>2. b * (b * p) = b * b * p BY Z3
<1>3. b * (b * p) \in Nat /\ b * r \in Nat BY Z3
<1>. QED BY <1>1, <1>2, <1>3, Z3

LEMMA Digits ==
  ASSUME NEW n \in Nat, n < Base * Base * Base
  PROVE  Prefix(n) \in Seq(Nat) /\ Len(Prefix(n)) = 3 /\ Size(Prefix(n)) = n
<1>. DEFINE b == Base
            q == n \div b
            z == n % b
            p == q \div b
            r == q % b
<1>0. b \in Nat \ {0} BY NoiseTransportAssumption
<1>1. q \in Nat /\ z \in 0..(b - 1) /\ n = b * q + z BY <1>0, Division
<1>2. p \in Nat /\ r \in 0..(b - 1) /\ q = b * p + r BY <1>0, <1>1, Division
<1>3. ASSUME n \div (b * b) = p, p % b = p PROVE Prefix(n) = <<p, r, z>>
  BY <1>3 DEF Prefix
<1>4. ASSUME NEW x, NEW y, NEW u PROVE Size(<<x, y, u>>) = x * b * b + y * b + u
  BY DEF Size
<1>5. n < b * b * b OBVIOUS
<1>6. \A x \in Nat : x < b => x % b = x
  <2>1. ASSUME NEW x \in Nat, x < b PROVE x % b = x
    <3>1. x \in 0..(b - 1) /\ x = b * 0 + x BY <1>0, <2>1
    <3>. QED BY <1>0, <3>1, Quotient
  <2>. QED BY <2>1
<1>7. ASSUME NEW m \in Nat \ {0}, NEW k \in 0..(m - 1), n = m * p + k PROVE n \div m = p
  BY <1>2, <1>7, Quotient
<1>. HIDE DEF b, q, z, p, r
<1>8. n = b * b * p + (b * r + z)
  <2>1. b \in Nat /\ r \in Nat /\ z \in Nat BY <1>0, <1>1, <1>2
  <2>2. n = b * (b * p + r) + z BY <1>1, <1>2
  <2>. QED BY <1>2, <2>1, <2>2, Distributes
<1>9. b * b \in Nat \ {0} /\ b * r + z \in 0..(b * b - 1)
  <2>1. b * r <= b * (b - 1) BY <1>0, <1>2, Z3
  <2>2. b * (b - 1) = b * b - b BY <1>0, Z3
  <2>3. b * b \in Nat \ {0} /\ b * r \in Nat BY <1>0, <1>2, Z3
  <2>. QED BY <1>0, <1>1, <2>1, <2>2, <2>3
<1>10. n \div (b * b) = p BY <1>7, <1>8, <1>9
<1>11. p < b
  <2>1. b * b * p <= n BY <1>0, <1>2, <1>8, <1>9
  <2>2. b * b * p < b * b * b BY <1>0, <1>2, <1>5, <2>1, Z3
  <2>. QED BY <1>0, <1>2, <2>2, Z3
<1>12. Prefix(n) = <<p, r, z>> BY <1>2, <1>3, <1>6, <1>10, <1>11
<1>13. p * b * b + r * b + z = n
  <2>1. p * b * b = b * b * p /\ r * b = b * r BY <1>0, <1>2, Z3
  <2>2. b * b * p \in Nat /\ b * r \in Nat /\ z \in Nat BY <1>0, <1>1, <1>2, Z3
  <2>. QED BY <1>8, <2>1, <2>2
<1>14. p \in Nat /\ r \in Nat /\ z \in Nat BY <1>0, <1>1, <1>2
<1>. QED BY <1>4, <1>12, <1>13, <1>14

-----------------------------------------------------------------------------
\* A stream of frames.

\* The body of a token: as many of it as it says.
BodyOf(t) == [j \in 1..t.size |-> t]
FrameOf(t) == Prefix(t.size) \o BodyOf(t)

\* Tokens whose length the three digits hold.
Fits(t) == t.size \in Nat \ {0} /\ t.size < Base * Base * Base

\* The cuts of a stream: the frame of fs[i] lies between at[i] and at[i + 1].
Cuts(stream, fs, at) ==
  /\ at \in [1..(Len(fs) + 1) -> Nat] /\ at[1] = 0 /\ at[Len(fs) + 1] = Len(stream)
  /\ \A i, j \in 1..(Len(fs) + 1) : i <= j => at[i] <= at[j]
  /\ \A i \in 1..Len(fs) :
       /\ at[i + 1] = at[i] + 3 + fs[i].size
       /\ \A j \in 1..3 : stream[at[i] + j] = Prefix(fs[i].size)[j]
       /\ \A j \in 1..fs[i].size : stream[at[i] + 3 + j] = fs[i]

\* The stream is the frames of the tokens fs, one after the other.
Carries(stream, fs) == \E at \in [1..(Len(fs) + 1) -> Nat] : Cuts(stream, fs, at)

\* Places within a frame are within the stream.
LEMMA Within ==
  ASSUME NEW a \in Nat, NEW n \in Nat, NEW z \in Nat, a + 3 + n <= z
  PROVE  /\ \A j \in 1..3 : a + j \in 1..z
         /\ \A j \in 1..n : a + 3 + j \in 1..z
OBVIOUS

\* n elements of a sequence, from the one behind o on.
LEMMA Slice ==
  ASSUME NEW X, NEW s \in Seq(X), NEW o \in Nat, NEW n \in Nat, o + n <= Len(s),
         NEW a, a = o + 1, NEW b, b = o + n
  PROVE  /\ SubSeq(s, a, b) \in Seq(X) /\ Len(SubSeq(s, a, b)) = n
         /\ \A i \in 1..n : SubSeq(s, a, b)[i] = s[o + i]
<1>1. Len(s) \in Nat BY LenProperties
<1>2. a \in Int /\ b \in Int OBVIOUS
<1>3. \A i \in a..b : s[i] \in X
  <2>1. ASSUME NEW i \in a..b PROVE i \in 1..Len(s) BY <1>1
  <2>. QED BY <2>1, ElementOfSeq
<1>4. /\ SubSeq(s, a, b) \in Seq(X)
      /\ Len(SubSeq(s, a, b)) = IF a <= b THEN b - a + 1 ELSE 0
      /\ \A i \in 1..b - a + 1 : SubSeq(s, a, b)[i] = s[a + i - 1]
  BY <1>2, <1>3, SubSeqProperties
<1>5. b - a + 1 = n /\ (IF a <= b THEN b - a + 1 ELSE 0) = n OBVIOUS
<1>6. \A i \in 1..n : a + i - 1 = o + i OBVIOUS
<1>. QED BY <1>4, <1>5, <1>6

LEMMA NothingCarried ==
  /\ Carries(<<>>, <<>>)
  /\ \A stream : Carries(stream, <<>>) => Len(stream) = 0
<1>1. Cuts(<<>>, <<>>, [i \in 1..1 |-> 0])
  BY DEF Cuts
<1>2. Carries(<<>>, <<>>) BY <1>1 DEF Carries
<1>3. ASSUME NEW stream, NEW at, Cuts(stream, <<>>, at) PROVE Len(stream) = 0
  BY <1>3 DEF Cuts
<1>. QED BY <1>2, <1>3 DEF Carries

LEMMA FrameParts ==
  ASSUME NEW X, Nat \subseteq X, NEW t \in X, Fits(t)
  PROVE  /\ FrameOf(t) \in Seq(X) /\ Len(FrameOf(t)) = 3 + t.size
         /\ \A j \in 1..3 : FrameOf(t)[j] = Prefix(t.size)[j]
         /\ \A j \in 1..t.size : FrameOf(t)[3 + j] = t
<1>1. t.size \in Nat BY DEF Fits
<1>2. Prefix(t.size) \in Seq(X) /\ Len(Prefix(t.size)) = 3
  <2>1. Prefix(t.size) \in Seq(Nat) /\ Len(Prefix(t.size)) = 3 BY <1>1, Digits DEF Fits
  <2>. QED BY <2>1, SeqMonotonic
<1>3. /\ BodyOf(t) \in Seq(X) /\ Len(BodyOf(t)) = t.size
      /\ \A j \in 1..t.size : BodyOf(t)[j] = t
  BY <1>1 DEF BodyOf
<1>. HIDE DEF BodyOf
<1>. DEFINE p == Prefix(t.size)
            q == BodyOf(t)
<1>4. /\ p \o q \in Seq(X) /\ Len(p \o q) = Len(p) + Len(q)
      /\ \A i \in 1..Len(p) + Len(q) : (p \o q)[i] = IF i <= Len(p) THEN p[i] ELSE q[i - Len(p)]
  BY <1>2, <1>3, ConcatProperties
<1>. HIDE DEF p, q
<1>5. FrameOf(t) = p \o q BY DEF p, q, FrameOf
<1>6. Len(p) = 3 /\ Len(q) = t.size BY <1>2, <1>3 DEF p, q
<1>7. \A j \in 1..3 : (p \o q)[j] = p[j] BY <1>1, <1>4, <1>6
<1>8. ASSUME NEW j \in 1..t.size PROVE (p \o q)[3 + j] = t
  <2>1. 3 + j \in 1..Len(p) + Len(q) /\ ~(3 + j <= Len(p)) /\ 3 + j - Len(p) = j
    BY <1>1, <1>6
  <2>2. (p \o q)[3 + j] = q[j] BY <1>4, <2>1
  <2>. QED BY <1>3, <2>2 DEF q
<1>. QED BY <1>4, <1>5, <1>6, <1>7, <1>8 DEF p

\* A frame behind the others.
LEMMA Joined ==
  ASSUME NEW X, Nat \subseteq X, NEW T, \A t \in T : Fits(t) /\ t \in X,
         NEW stream \in Seq(X), NEW fs \in Seq(T), Carries(stream, fs), NEW t \in T
  PROVE  /\ stream \o FrameOf(t) \in Seq(X)
         /\ Append(fs, t) \in Seq(T)
         /\ Carries(stream \o FrameOf(t), Append(fs, t))
<1>1. PICK at \in [1..(Len(fs) + 1) -> Nat] : Cuts(stream, fs, at) BY DEF Carries
<1>. DEFINE n == Len(fs)
            z == Len(stream)
            w == 3 + t.size
            new == [i \in 1..(n + 2) |-> IF i <= n + 1 THEN at[i] ELSE z + w]
            s2 == stream \o FrameOf(t)
            f2 == Append(fs, t)
<1>2. n \in Nat /\ z \in Nat /\ t.size \in Nat /\ w \in Nat /\ w > 3
  BY LenProperties DEF Fits
<1>3. /\ FrameOf(t) \in Seq(X) /\ Len(FrameOf(t)) = w
      /\ \A j \in 1..3 : FrameOf(t)[j] = Prefix(t.size)[j]
      /\ \A j \in 1..t.size : FrameOf(t)[3 + j] = t
  BY FrameParts
<1>4. /\ s2 \in Seq(X) /\ Len(s2) = z + w
      /\ \A i \in 1..z : s2[i] = stream[i]
      /\ \A i \in 1..w : s2[z + i] = FrameOf(t)[i]
  <2>1. /\ s2 \in Seq(X) /\ Len(s2) = Len(stream) + Len(FrameOf(t))
        /\ \A i \in 1..Len(stream) + Len(FrameOf(t)) :
             s2[i] = IF i <= Len(stream) THEN stream[i] ELSE FrameOf(t)[i - Len(stream)]
    BY <1>3, ConcatProperties
  <2>. HIDE DEF s2
  <2>2. Len(s2) = z + w BY <1>3, <2>1
  <2>3. ASSUME NEW i \in 1..z PROVE s2[i] = stream[i]
    <3>1. i \in 1..Len(stream) + Len(FrameOf(t)) /\ i <= Len(stream) BY <1>2, <1>3
    <3>. QED BY <2>1, <3>1
  <2>4. ASSUME NEW i \in 1..w PROVE s2[z + i] = FrameOf(t)[i]
    <3>1. z + i \in 1..Len(stream) + Len(FrameOf(t)) /\ ~(z + i <= Len(stream))
          /\ z + i - Len(stream) = i
      BY <1>2, <1>3
    <3>. QED BY <2>1, <3>1
  <2>. QED BY <2>1, <2>2, <2>3, <2>4
<1>5. /\ f2 \in Seq(T) /\ Len(f2) = n + 1 /\ f2[n + 1] = t
      /\ \A i \in 1..n : f2[i] = fs[i]
  BY AppendProperties
<1>6. /\ new \in [1..(n + 2) -> Nat] /\ new[n + 2] = z + w
      /\ \A i \in 1..(n + 1) : new[i] = at[i]
  BY <1>2
<1>7. /\ at[1] = 0 /\ at[n + 1] = z
      /\ \A i, j \in 1..(n + 1) : i <= j => at[i] <= at[j]
      /\ \A i \in 1..n : at[i + 1] = at[i] + 3 + fs[i].size
      /\ \A i \in 1..n : \A j \in 1..3 : stream[at[i] + j] = Prefix(fs[i].size)[j]
      /\ \A i \in 1..n : \A j \in 1..fs[i].size : stream[at[i] + 3 + j] = fs[i]
  BY <1>1 DEF Cuts
<1>8. \A i \in 1..n : fs[i].size \in Nat
  BY ElementOfSeq DEF Fits
<1>. HIDE DEF n, z, w, new, s2, f2
<1>9. ASSUME NEW i \in 1..n
      PROVE  /\ new[i + 1] = new[i] + 3 + f2[i].size
             /\ \A j \in 1..3 : s2[new[i] + j] = Prefix(f2[i].size)[j]
             /\ \A j \in 1..f2[i].size : s2[new[i] + 3 + j] = f2[i]
  <2>1. i \in 1..(n + 1) /\ i + 1 \in 1..(n + 1) /\ n + 1 \in 1..(n + 1) /\ i + 1 <= n + 1
    BY <1>2
  <2>2. at[i] \in Nat /\ at[i + 1] \in Nat /\ fs[i].size \in Nat
    BY <1>1, <1>8, <2>1 DEF n
  <2>3. at[i] + 3 + fs[i].size <= z BY <1>7, <2>1
  <2>4. new[i] = at[i] /\ new[i + 1] = at[i + 1] /\ f2[i] = fs[i]
    BY <1>5, <1>6, <2>1
  <2>8. /\ \A j \in 1..3 : at[i] + j \in 1..z
        /\ \A j \in 1..fs[i].size : at[i] + 3 + j \in 1..z
    BY <1>2, <2>2, <2>3, Within
  <2>5. ASSUME NEW j \in 1..3 PROVE s2[new[i] + j] = Prefix(f2[i].size)[j]
    <3>1. at[i] + j \in 1..z BY <2>8
    <3>2. s2[at[i] + j] = stream[at[i] + j] BY <1>4, <3>1
    <3>. QED BY <1>7, <2>4, <3>2
  <2>6. ASSUME NEW j \in 1..f2[i].size PROVE s2[new[i] + 3 + j] = f2[i]
    <3>1. j \in 1..fs[i].size BY <2>4
    <3>2. at[i] + 3 + j \in 1..z BY <2>8, <3>1
    <3>3. s2[at[i] + 3 + j] = stream[at[i] + 3 + j] BY <1>4, <3>2
    <3>. QED BY <1>7, <2>4, <3>1, <3>3
  <2>7. new[i + 1] = new[i] + 3 + f2[i].size BY <1>7, <2>4
  <2>. QED BY <2>5, <2>6, <2>7
<1>10. /\ new[n + 2] = new[n + 1] + 3 + f2[n + 1].size
       /\ \A j \in 1..3 : s2[new[n + 1] + j] = Prefix(f2[n + 1].size)[j]
       /\ \A j \in 1..f2[n + 1].size : s2[new[n + 1] + 3 + j] = f2[n + 1]
  <2>1. new[n + 1] = z BY <1>2, <1>6, <1>7
  <2>2. w = 3 + t.size BY DEF w
  <2>3. ASSUME NEW j \in 1..3 PROVE s2[z + j] = Prefix(t.size)[j]
    <3>1. j \in 1..w BY <1>2
    <3>. QED BY <1>3, <1>4, <3>1
  <2>4. ASSUME NEW j \in 1..t.size PROVE s2[z + 3 + j] = t
    <3>1. 3 + j \in 1..w /\ z + (3 + j) = z + 3 + j BY <1>2, <2>2
    <3>. QED BY <1>3, <1>4, <3>1
  <2>5. z + w = z + 3 + t.size
    <3>1. z \in Nat /\ t.size \in Nat BY <1>2
    <3>. QED BY <2>2, <3>1
  <2>6. new[n + 2] = new[n + 1] + 3 + f2[n + 1].size BY <1>5, <1>6, <2>1, <2>5
  <2>. QED BY <1>5, <2>1, <2>3, <2>4, <2>6
<1>11. ASSUME NEW i \in 1..(n + 2), NEW j \in 1..(n + 2), i <= j PROVE new[i] <= new[j]
  <2>1. CASE j <= n + 1
    <3>1. i \in 1..(n + 1) /\ j \in 1..(n + 1) BY <1>2, <1>11, <2>1
    <3>. QED BY <1>6, <1>7, <1>11, <3>1
  <2>2. CASE j = n + 2 /\ i <= n + 1
    <3>1. i \in 1..(n + 1) /\ n + 1 \in 1..(n + 1) BY <1>2, <2>2
    <3>2. at[i] \in Nat /\ at[i] <= z BY <1>1, <1>7, <3>1 DEF n
    <3>. QED BY <1>2, <1>6, <2>2, <3>1, <3>2
  <2>3. CASE i = n + 2 /\ j = n + 2 BY <1>2, <1>6, <2>3
  <2>. QED BY <1>2, <1>11, <2>1, <2>2, <2>3
<1>12. Cuts(s2, f2, new)
  <2>1. Len(f2) + 1 = n + 2 /\ n + 1 + 1 = n + 2 BY <1>2, <1>5
  <2>2. new[1] = 0 BY <1>2, <1>6, <1>7
  <2>3. new[Len(f2) + 1] = Len(s2) BY <1>4, <1>6, <2>1
  <2>4. ASSUME NEW i \in 1..(n + 1)
        PROVE  /\ new[i + 1] = new[i] + 3 + f2[i].size
               /\ \A j \in 1..3 : s2[new[i] + j] = Prefix(f2[i].size)[j]
               /\ \A j \in 1..f2[i].size : s2[new[i] + 3 + j] = f2[i]
    <3>1. i \in 1..n \/ i = n + 1 BY <1>2
    <3>. QED BY <1>9, <1>10, <2>1, <3>1
  <2>. QED BY <1>5, <1>6, <1>11, <2>1, <2>2, <2>3, <2>4 DEF Cuts
<1>13. Carries(s2, f2)
  <2>1. Len(f2) + 1 = n + 2 BY <1>2, <1>5
  <2>. QED BY <1>6, <1>12, <2>1 DEF Carries
<1>. QED BY <1>4, <1>5, <1>13 DEF s2, f2

\* The first frame of a stream of which a part is there.
LEMMA FirstOf ==
  ASSUME NEW X, Nat \subseteq X, NEW T, \A t \in T : Fits(t) /\ t \in X,
         NEW part \in Seq(X), NEW rest \in Seq(X), NEW fs \in Seq(T),
         Carries(part \o rest, fs), Complete(part)
  PROVE  /\ fs # <<>> /\ fs[1] \in T
         /\ FirstFrame(part)[1] = fs[1] /\ Len(FirstFrame(part)) = fs[1].size
         /\ FirstFrame(part) # <<>>
         /\ AfterFirst(part) \in Seq(X) /\ Tail(fs) \in Seq(T)
         /\ Carries(AfterFirst(part) \o rest, Tail(fs))
<1>. DEFINE S == part \o rest
            n == Len(fs)
            z == Len(S)
            l == Len(part)
<1>1. PICK at \in [1..(Len(fs) + 1) -> Nat] : Cuts(S, fs, at) BY DEF Carries
<1>2. /\ n \in Nat /\ l \in Nat /\ Len(rest) \in Nat /\ z = l + Len(rest) /\ S \in Seq(X)
      /\ \A i \in 1..z : S[i] = IF i <= l THEN part[i] ELSE rest[i - l]
  BY ConcatProperties, LenProperties
<1>3. /\ at[1] = 0 /\ at[n + 1] = z
      /\ \A i, j \in 1..(n + 1) : i <= j => at[i] <= at[j]
      /\ \A i \in 1..n : at[i + 1] = at[i] + 3 + fs[i].size
      /\ \A i \in 1..n : \A j \in 1..3 : S[at[i] + j] = Prefix(fs[i].size)[j]
      /\ \A i \in 1..n : \A j \in 1..fs[i].size : S[at[i] + 3 + j] = fs[i]
  BY <1>1 DEF Cuts
<1>4. l >= 3 /\ l >= Size(part) + 3 BY DEF Complete
<1>. HIDE DEF S, n, z, l
<1>5. n > 0
  <2>1. CASE n = 0 BY <1>2, <1>3, <1>4, <2>1
  <2>. QED BY <1>2, <2>1
<1>6. fs # <<>> /\ fs[1] \in T BY <1>2, <1>5 DEF n
<1>. DEFINE m == fs[1].size
            c == m + 3
<1>7. m \in Nat \ {0} /\ m < Base * Base * Base BY <1>6 DEF Fits
<1>. HIDE DEF m
<1>8. Size(part) = m
  <2>1. 1 \in 1..n BY <1>2, <1>5
  <2>2. \A j \in 1..3 : S[0 + j] = Prefix(m)[j] BY <1>3, <2>1 DEF m
  <2>3. \A j \in 1..3 : S[j] = part[j]
    <3>1. ASSUME NEW j \in 1..3 PROVE j \in 1..z /\ j <= l BY <1>2, <1>4
    <3>. QED BY <1>2, <3>1
  <2>4. part[1] = Prefix(m)[1] /\ part[2] = Prefix(m)[2] /\ part[3] = Prefix(m)[3]
    BY <2>2, <2>3
  <2>5. Size(part) = Size(Prefix(m)) BY <2>4 DEF Size
  <2>. QED BY <1>7, <2>5, Digits
<1>9. /\ FirstFrame(part) \in Seq(X) /\ Len(FirstFrame(part)) = m
      /\ FirstFrame(part)[1] = fs[1]
  <2>1. FirstFrame(part) = SubSeq(part, 4, m + 3) BY <1>8 DEF FirstFrame
  <2>2. \A i \in 4..(m + 3) : part[i] \in X
    <3>1. ASSUME NEW i \in 4..(m + 3) PROVE i \in 1..l BY <1>2, <1>4, <1>7, <1>8
    <3>. QED BY <3>1, ElementOfSeq DEF l
  <2>3. 4 \in Int /\ m + 3 \in Int /\ 4 <= m + 3 /\ m + 3 - 4 + 1 = m /\ 1 \in 1..m BY <1>7
  <2>4. /\ SubSeq(part, 4, m + 3) \in Seq(X)
        /\ Len(SubSeq(part, 4, m + 3)) = m
        /\ SubSeq(part, 4, m + 3)[1] = part[4]
    <3>1. m \in Nat /\ 3 + m <= l /\ 4 = 3 + 1 /\ m + 3 = 3 + m /\ 3 \in Nat
      BY <1>2, <1>4, <1>7, <1>8
    <3>2. /\ SubSeq(part, 4, m + 3) \in Seq(X) /\ Len(SubSeq(part, 4, m + 3)) = m
          /\ \A i \in 1..m : SubSeq(part, 4, m + 3)[i] = part[3 + i]
      BY <3>1, Slice DEF l
    <3>. QED BY <2>3, <3>1, <3>2
  <2>5. S[4] = fs[1]
    <3>1. 1 \in 1..n BY <1>2, <1>5
    <3>2. \A j \in 1..m : S[at[1] + 3 + j] = fs[1] BY <1>3, <3>1 DEF m
    <3>3. at[1] + 3 + 1 = 4 BY <1>3
    <3>. QED BY <2>3, <3>2, <3>3
  <2>6. part[4] = S[4]
    <3>1. 4 \in 1..z /\ 4 <= l BY <1>2, <1>4, <1>7, <1>8
    <3>. QED BY <1>2, <3>1
  <2>. QED BY <2>1, <2>4, <2>5, <2>6
<1>10. FirstFrame(part) # <<>> BY <1>7, <1>9, EmptySeq
<1>. DEFINE a == AfterFirst(part)
            S2 == a \o rest
<1>11. /\ a \in Seq(X) /\ Len(a) = l - c /\ \A i \in 1..(l - c) : a[i] = part[i + c]
  <2>1. a = SubSeq(part, m + 4, l) BY <1>8 DEF AfterFirst, l
  <2>2. \A i \in (m + 4)..l : part[i] \in X
    <3>1. ASSUME NEW i \in (m + 4)..l PROVE i \in 1..l BY <1>2, <1>7
    <3>. QED BY <3>1, ElementOfSeq DEF l
  <2>3. m + 4 \in Int /\ l \in Int BY <1>2, <1>7
  <2>4. /\ SubSeq(part, m + 4, l) \in Seq(X)
        /\ Len(SubSeq(part, m + 4, l)) = IF m + 4 <= l THEN l - (m + 4) + 1 ELSE 0
        /\ \A i \in 1..l - (m + 4) + 1 : SubSeq(part, m + 4, l)[i] = part[m + 4 + i - 1]
    BY <2>2, <2>3, SubSeqProperties
  <2>5. (IF m + 4 <= l THEN l - (m + 4) + 1 ELSE 0) = l - c /\ l - (m + 4) + 1 = l - c
    BY <1>2, <1>4, <1>7, <1>8
  <2>6. \A i \in 1..(l - c) : m + 4 + i - 1 = i + c BY <1>2, <1>7
  <2>. QED BY <2>1, <2>4, <2>5, <2>6
<1>12. c \in Nat /\ c <= l /\ c <= z BY <1>2, <1>4, <1>7, <1>8
<1>. HIDE DEF c, a
<1>13. /\ S2 \in Seq(X) /\ Len(S2) = z - c /\ \A i \in 1..(z - c) : S2[i] = S[i + c]
  <2>1. /\ S2 \in Seq(X) /\ Len(S2) = Len(a) + Len(rest)
        /\ \A i \in 1..Len(a) + Len(rest) : S2[i] = IF i <= Len(a) THEN a[i] ELSE rest[i - Len(a)]
    BY <1>11, ConcatProperties
  <2>2. Len(a) + Len(rest) = z - c BY <1>2, <1>11, <1>12
  <2>3. ASSUME NEW i \in 1..(z - c) PROVE S2[i] = S[i + c]
    <3>1. S2[i] = IF i <= Len(a) THEN a[i] ELSE rest[i - Len(a)] BY <2>1, <2>2
    <3>2. i + c \in 1..z BY <1>2, <1>12
    <3>3. S[i + c] = IF i + c <= l THEN part[i + c] ELSE rest[(i + c) - l]
      <4>1. \A x \in 1..z : S[x] = IF x <= l THEN part[x] ELSE rest[x - l] BY <1>2
      <4>. QED BY <3>2, <4>1, Zenon
    <3>4. CASE i <= l - c
      <4>1. i \in 1..(l - c) /\ i + c <= l /\ i <= Len(a) BY <1>2, <1>11, <1>12, <3>4
      <4>. QED BY <1>11, <3>1, <3>3, <4>1
    <3>5. CASE ~(i <= l - c)
      <4>1. ~(i + c <= l) /\ ~(i <= Len(a)) /\ i - Len(a) = (i + c) - l
        BY <1>2, <1>11, <1>12, <3>5
      <4>. QED BY <3>1, <3>3, <4>1
    <3>. QED BY <3>4, <3>5
  <2>. QED BY <2>1, <2>2, <2>3
<1>. HIDE DEF S2
<1>. DEFINE f2 == Tail(fs)
            new == [i \in 1..n |-> at[i + 1] - c]
<1>14. f2 \in Seq(T) /\ Len(f2) = n - 1 /\ \A i \in 1..(n - 1) : f2[i] = fs[i + 1]
  BY <1>6, HeadTailProperties DEF n
<1>. HIDE DEF f2
<1>15. \A i \in 1..(n + 1) : at[i] \in Nat BY <1>1 DEF n
<1>16. at[2] = c
  <2>1. 1 \in 1..n /\ 1 + 1 = 2 BY <1>2, <1>5
  <2>2. at[1 + 1] = 0 + 3 + m BY <1>3, <2>1 DEF m
  <2>. QED BY <1>7, <2>1, <2>2 DEF c
<1>17. \A i \in 1..n : at[i + 1] \in Nat /\ c <= at[i + 1]
  <2>1. ASSUME NEW i \in 1..n PROVE i + 1 \in 1..(n + 1) /\ 2 \in 1..(n + 1) /\ 2 <= i + 1
    BY <1>2, <1>5
  <2>. QED BY <1>3, <1>15, <1>16, <2>1
<1>18. /\ new \in [1..n -> Nat] /\ \A i \in 1..n : new[i] = at[i + 1] - c
  BY <1>12, <1>17
<1>. HIDE DEF new
<1>19. new[1] = 0 /\ new[n] = z - c
  <2>1. 1 \in 1..n /\ n \in 1..n /\ 1 + 1 = 2 BY <1>2, <1>5
  <2>2. new[1] = c - c BY <1>16, <1>18, <2>1
  <2>3. new[n] = z - c BY <1>3, <1>18, <2>1
  <2>. QED BY <1>12, <2>2, <2>3
<1>20. ASSUME NEW i \in 1..n, NEW j \in 1..n, i <= j PROVE new[i] <= new[j]
  <2>1. i + 1 \in 1..(n + 1) /\ j + 1 \in 1..(n + 1) /\ i + 1 <= j + 1 BY <1>2, <1>20
  <2>2. at[i + 1] <= at[j + 1] BY <1>3, <2>1
  <2>. QED BY <1>12, <1>17, <1>18, <2>2
<1>21. ASSUME NEW i \in 1..(n - 1)
       PROVE  /\ new[i + 1] = new[i] + 3 + f2[i].size
              /\ \A j \in 1..3 : S2[new[i] + j] = Prefix(f2[i].size)[j]
              /\ \A j \in 1..f2[i].size : S2[new[i] + 3 + j] = f2[i]
  <2>1. /\ i \in 1..n /\ i + 1 \in 1..n /\ n \in 1..n /\ i + 1 <= n
        /\ n + 1 \in 1..(n + 1) /\ i + 1 + 1 \in 1..(n + 1) /\ i + 1 + 1 <= n + 1
    BY <1>2, <1>5
  <2>2. f2[i] = fs[i + 1] BY <1>14
  <2>3. f2[i].size \in Nat
    <3>1. f2[i] \in T BY <1>14, ElementOfSeq
    <3>. QED BY <3>1 DEF Fits
  <2>4. at[i + 1 + 1] = at[i + 1] + 3 + f2[i].size BY <1>3, <2>1, <2>2
  <2>5. new[i] = at[i + 1] - c /\ new[i + 1] = at[i + 1 + 1] - c BY <1>18, <2>1
  <2>6. at[i + 1] \in Nat /\ c <= at[i + 1] BY <1>17, <2>1
  <2>7. new[i] \in Nat /\ new[i] + c = at[i + 1] BY <1>12, <2>5, <2>6
  <2>8. new[i + 1] = new[i] + 3 + f2[i].size
    <3>1. ASSUME NEW x \in Nat, NEW y \in Nat PROVE (x + 3 + y) - c = (x - c) + 3 + y
      BY <1>12
    <3>2. (at[i + 1] + 3 + f2[i].size) - c = (at[i + 1] - c) + 3 + f2[i].size
      BY <2>3, <2>6, <3>1
    <3>. QED BY <2>4, <2>5, <3>2, Zenon
  <2>9. new[i] + 3 + f2[i].size <= z - c BY <1>19, <1>20, <2>1, <2>8
  <2>10. z - c \in Nat BY <1>2, <1>12
  <2>11. /\ \A j \in 1..3 : new[i] + j \in 1..(z - c)
         /\ \A j \in 1..f2[i].size : new[i] + 3 + j \in 1..(z - c)
    BY <2>3, <2>7, <2>9, <2>10, Within
  <2>12. ASSUME NEW j \in 1..3 PROVE S2[new[i] + j] = Prefix(f2[i].size)[j]
    <3>1. S2[new[i] + j] = S[new[i] + j + c] BY <1>13, <2>11
    <3>2. new[i] + j + c = at[i + 1] + j BY <1>12, <2>7
    <3>. QED BY <1>3, <2>1, <2>2, <3>1, <3>2
  <2>13. ASSUME NEW j \in 1..f2[i].size PROVE S2[new[i] + 3 + j] = f2[i]
    <3>1. S2[new[i] + 3 + j] = S[new[i] + 3 + j + c] BY <1>13, <2>11
    <3>2. new[i] + 3 + j + c = at[i + 1] + 3 + j BY <1>12, <2>3, <2>7
    <3>3. j \in 1..fs[i + 1].size BY <2>2
    <3>. QED BY <1>3, <2>1, <2>2, <3>1, <3>2, <3>3
  <2>. QED BY <2>8, <2>12, <2>13
<1>22. Cuts(S2, f2, new)
  <2>1. Len(f2) + 1 = n BY <1>2, <1>14
  <2>. QED BY <1>13, <1>14, <1>18, <1>19, <1>20, <1>21, <2>1 DEF Cuts
<1>23. Carries(S2, f2)
  <2>1. Len(f2) + 1 = n BY <1>2, <1>14
  <2>. QED BY <1>18, <1>22, <2>1 DEF Carries
<1>. QED BY <1>6, <1>9, <1>10, <1>11, <1>14, <1>23 DEF S2, a, f2, m

-----------------------------------------------------------------------------
\* The handshake, and the tokens of a connection.

Greeting(certificate) == Noise!Hello("e", "server_e", "server_static", certificate)
Reply == Noise!Answered("e", "noise_key", Greeting("certificate").hello)

Certificates == {"certificate", "forged"}
Token == [key: {<<>>, Reply.keys.write, Reply.keys.read}, counter: Nat,
          node: {"e", Reply.finish} \cup Nat \cup {Greeting(c).hello : c \in Certificates},
          size: Sizes \cup {1, 2}]
Symbol == Nat \cup Token

TokenOf(key, counter, node, n) == [key |-> key, counter |-> counter, node |-> node, size |-> n]
HelloToken == TokenOf(<<>>, 0, "e", 1)
AnswerToken(c) == TokenOf(<<>>, 0, Greeting(c).hello, 2)
FinishToken == TokenOf(<<>>, 0, Reply.finish, 1)

\* The frame of a node: a key of the transport and the next counter of the direction.
IsData(t, key, i, node) == t.key = key /\ t.counter = i - 1 /\ t.node = node

-----------------------------------------------------------------------------
\* The invariant.

Server == [in: Seq(Symbol), state: {"intro", "hello", "finish", "transport"}, counter: Nat,
           dropped: {FALSE}, certificate: Certificates,
           noise: {<<>>} \cup {Greeting(c).noise : c \in Certificates},
           keys: {<<>>, Reply.keys}]

Typed ==
  /\ phase \in {"hello", "answer", "finish", "transport", "failed"}
  /\ intro_sent \in BOOLEAN /\ closing \in BOOLEAN
  /\ write_counter \in Nat /\ read_counter \in Nat /\ calls \in 0..MaxSends
  /\ task \in [Senders -> {"idle", "queued", "sending", "draining"}]
  /\ lock \in Senders \cup {"nobody"} /\ mutex \in Senders \cup {"nobody", "closer"}
  /\ reader \in {"none", "waiting", "decoding"}
  /\ up \in Seq(Symbol) /\ down \in Seq(Symbol) /\ inbuf \in Seq(Symbol)
  /\ server \in Server
  /\ written \in Seq(1..MaxSends) /\ heard \in Seq(1..MaxSends)
  /\ spoken \in Seq(1..MaxFrames) /\ read \in Seq(1..MaxFrames)

\* How far the two ends are.
Stage ==
  /\ phase = "hello" => server.state = "intro" /\ server.in = <<>> /\ up = <<>>
  /\ phase = "answer" => server.state \in {"intro", "hello", "finish"}
  /\ phase = "failed" => server.state = "finish"
  /\ phase \in {"finish", "transport"} =>
       /\ server.state \in {"finish", "transport"} /\ server.certificate = "certificate"
       /\ keys = Reply.keys
  /\ intro_sent = (phase # "hello")
  /\ server.state \in {"intro", "hello"} => inbuf = <<>> /\ down = <<>>
  /\ server.state = "finish" => server.noise = Greeting(server.certificate).noise
  /\ server.state = "transport" => server.keys = Reply.keys
  /\ server.state # "transport" => heard = <<>> /\ spoken = <<>>
  /\ phase # "transport" => written = <<>> /\ read = <<>> /\ reader = "none" /\ ~closing
  /\ phase = "transport" => reader # "none" /\ read_counter = Len(read)
  /\ server.counter = Len(heard)

\* The two locks, and the counter of who holds the first.  A counter is spent on a frame
\* that is not written only when the closing handshake has begun.
Tasks ==
  /\ \A s \in Senders :
       /\ lock = s <=> task[s] \in {"sending", "draining"}
       /\ mutex = s <=> task[s] = "draining"
       /\ phase # "transport" => task[s] = "idle"
       /\ task[s] = "queued" => \E k \in 1..MaxSends : frame[s] = <<k>>
       /\ task[s] = "sending" /\ ~closing =>
            /\ write_counter = Len(written) + 1
            /\ \E t \in Token :
                 /\ t.key = keys.write /\ t.counter = Len(written) /\ t.node \in 1..MaxSends
                 /\ frame[s] = FrameOf(t)
  /\ mutex = "closer" => closing
  /\ (\A s \in Senders : task[s] # "sending") /\ ~closing /\ phase = "transport" =>
       write_counter = Len(written)
  /\ DOMAIN frame = Senders

\* What the server has not read.
Upward == IF server.state = "intro" THEN Tail(server.in \o up) ELSE server.in \o up

UpIs(fs) ==
  /\ server.state \in {"intro", "hello"} => Len(fs) = 1 /\ fs[1] = HelloToken
  /\ server.state = "finish" /\ phase \in {"answer", "failed"} => Len(fs) = 0
  /\ server.state = "finish" /\ phase \in {"finish", "transport"} =>
       /\ Len(fs) = Len(written) + 1 /\ fs[1] = FinishToken
       /\ \A i \in 1..Len(written) : IsData(fs[i + 1], Reply.keys.write, i, written[i])
  /\ server.state = "transport" =>
       /\ Len(heard) + Len(fs) = Len(written)
       /\ \A i \in 1..Len(fs) :
            IsData(fs[i], Reply.keys.write, Len(heard) + i, written[Len(heard) + i])

UpInv == phase # "hello" =>
  /\ server.state = "intro" => server.in \o up # <<>>
  /\ \E fs \in Seq(Token) : UpIs(fs) /\ Carries(Upward, fs)

\* What the client has not read.
DownIs(fs) ==
  /\ phase = "answer" => Len(fs) = 1 /\ fs[1] = AnswerToken(server.certificate)
  /\ phase \in {"finish", "transport"} =>
       /\ Len(read) + Len(fs) = Len(spoken)
       /\ \A i \in 1..Len(fs) :
            IsData(fs[i], Reply.keys.read, Len(read) + i, Len(read) + i)

DownInv == server.state \in {"finish", "transport"} /\ phase # "failed" =>
  \E fs \in Seq(Token) : DownIs(fs) /\ Carries(inbuf \o down, fs)

\* Each end has a beginning of what the other sent.
Lists ==
  /\ Len(heard) <= Len(written) /\ \A i \in 1..Len(heard) : heard[i] = written[i]
  /\ Len(read) <= Len(spoken) /\ \A i \in 1..Len(read) : read[i] = spoken[i]
  /\ \A i \in 1..Len(spoken) : spoken[i] = i

IInv == Typed /\ Stage /\ Tasks /\ UpInv /\ DownInv /\ Lists

-----------------------------------------------------------------------------
\* The handshake agrees.

\* Only a certificate that verifies is accepted.
LEMMA OnlyCertified ==
  ASSUME NEW c, Noise!Accepted("e", Greeting(c).hello)
  PROVE  c = "certificate"
<1>1. Greeting(c).hello.payload.plain = c
  BY DEF Greeting, Noise!Hello, Noise!Sealed
<1>. QED BY <1>1 DEF Noise!Accepted

\* The client mixes what the server mixed.
LEMMA SameKeys ==
  ASSUME NEW c
  PROVE  LET h == Greeting(c).hello
         IN  /\ h.ephemeral = "server_e" /\ h.static.plain = "server_static"
             /\ Greeting(c).noise = Noise!After(Noise!MixedStatic("e", h), h.payload)
<1>. DEFINE seed == Noise!Authenticate(Noise!Seeded("e"), "server_e")
            first == Noise!MixIntoKey(seed, Noise!SharedSecret("server_e", "e"))
            static == Noise!Sealed(first, "server_static")
            second == Noise!MixIntoKey(Noise!After(first, static),
                                       Noise!SharedSecret("server_static", "e"))
            payload == Noise!Sealed(second, c)
            h == Greeting(c).hello
<1>1. /\ h = [ephemeral |-> "server_e", static |-> static, payload |-> payload]
      /\ Greeting(c).noise = Noise!After(second, payload)
  BY DEF Greeting, Noise!Hello
<1>2. /\ Noise!SharedSecret("server_e", "e") = Noise!SharedSecret("e", "server_e")
      /\ Noise!SharedSecret("server_static", "e") = Noise!SharedSecret("e", "server_static")
  BY DEF Noise!SharedSecret
<1>3. static.plain = "server_static" BY DEF Noise!Sealed
<1>. HIDE DEF h, payload, static
<1>4. h.ephemeral = "server_e" /\ h.static = static /\ h.payload = payload BY <1>1
<1>5. first = Noise!MixedEphemeral("e", h) BY <1>2, <1>4 DEF Noise!MixedEphemeral
<1>6. second = Noise!MixedStatic("e", h)
  BY <1>2, <1>3, <1>4, <1>5 DEF Noise!MixedStatic
<1>. QED BY <1>1, <1>3, <1>4, <1>6 DEF h

\* The finish opens, and both ends have the same keys.
LEMMA Agreed ==
  Noise!Finished(Greeting("certificate").noise, "server_e", Reply.finish) = {Reply.keys}
<1>. DEFINE g == Greeting("certificate")
            h == Noise!After(Noise!MixedStatic("e", g.hello), g.hello.payload)
            key_enc == Noise!Sealed(h, "noise_key")
            mixed == Noise!MixIntoKey(Noise!After(h, key_enc),
                                      Noise!SharedSecret("noise_key", g.hello.ephemeral))
            payload == Noise!Sealed(mixed, "payload")
<1>1. /\ Reply.finish = [static |-> key_enc, payload |-> payload]
      /\ Reply.keys = Noise!TransportKeys(Noise!After(mixed, payload))
  BY DEF Reply, Noise!Answered
<1>2. g.noise = h /\ g.hello.ephemeral = "server_e" BY SameKeys
<1>3. /\ key_enc.plain = "noise_key" /\ Noise!Opens(h, key_enc) /\ Noise!Opens(mixed, payload)
  BY DEF Noise!Opens, Noise!Sealed
<1>. HIDE DEF h, key_enc, payload
<1>4. Reply.finish.static = key_enc /\ Reply.finish.payload = payload BY <1>1
<1>5. mixed = Noise!MixIntoKey(Noise!After(h, Reply.finish.static),
                               Noise!SharedSecret(Reply.finish.static.plain, "server_e"))
  BY <1>2, <1>3, <1>4
<1>. HIDE DEF mixed, g
<1>. QED BY <1>1, <1>2, <1>3, <1>4, <1>5 DEF Noise!Finished, g

-----------------------------------------------------------------------------
\* Tokens and streams of them.

\* No node is as long as 16 MB: encode_frame drops the digits it has no place for.
SizesFit == \A n \in Sizes : n < Base * Base * Base

LEMMA Tokens ==
  ASSUME SizesFit
  PROVE  Nat \subseteq Symbol /\ \A t \in Token : Fits(t) /\ t \in Symbol
<1>1. 2 < Base * Base * Base
  <2>1. Base \in Nat /\ Base >= 2 BY NoiseTransportAssumption
  <2>2. Base * Base \in Nat /\ Base * Base >= 4 BY <2>1, Z3
  <2>. QED BY <2>1, <2>2, Z3
<1>2. Base * Base * Base \in Nat
  <2>1. Base \in Nat BY NoiseTransportAssumption
  <2>. QED BY <2>1, Z3
<1>3. \A n \in Sizes \cup {1, 2} : n \in Nat \ {0} /\ n < Base * Base * Base
  <2>1. Sizes \subseteq Nat \ {0} BY NoiseTransportAssumption
  <2>. QED BY <1>1, <1>2, <2>1 DEF SizesFit
<1>4. \A t \in Token : t.size \in Sizes \cup {1, 2} BY DEF Token
<1>. QED BY <1>3, <1>4 DEF Fits, Symbol

LEMMA SpecialTokens ==
  /\ HelloToken \in Token /\ FinishToken \in Token
  /\ \A c \in Certificates : AnswerToken(c) \in Token
BY DEF HelloToken, FinishToken, AnswerToken, TokenOf, Token

\* The bodies of the model are those of tokens, and a frame is a length and a body.
LEMMA Bodies ==
  ASSUME NEW key, NEW counter, NEW node, NEW n \in Nat \ {0}
  PROVE  /\ Body(key, counter, node, n) = BodyOf(TokenOf(key, counter, node, n))
         /\ Len(Body(key, counter, node, n)) = n
         /\ Prefix(n) \o Body(key, counter, node, n) = FrameOf(TokenOf(key, counter, node, n))
<1>. DEFINE t == TokenOf(key, counter, node, n)
<1>1. t.size = n BY DEF TokenOf
<1>2. Body(key, counter, node, n) = BodyOf(t) BY <1>1 DEF Body, BodyOf, TokenOf
<1>3. Len(BodyOf(t)) = n
  <2>1. BodyOf(t) = [j \in 1..n |-> t] BY <1>1 DEF BodyOf
  <2>. QED BY <2>1
<1>. HIDE DEF t
<1>4. Prefix(n) \o BodyOf(t) = FrameOf(t) BY <1>1 DEF FrameOf
<1>. QED BY <1>2, <1>3, <1>4 DEF t

\* A piece of a stream that moves on.
LEMMA Pieces ==
  \A a, b \in Seq(Symbol) : \A k \in 1..Len(b) :
    /\ a \o SubSeq(b, 1, k) \in Seq(Symbol) /\ SubSeq(b, k + 1, Len(b)) \in Seq(Symbol)
    /\ (a \o SubSeq(b, 1, k)) \o SubSeq(b, k + 1, Len(b)) = a \o b
<1>. SUFFICES ASSUME NEW a \in Seq(Symbol), NEW b \in Seq(Symbol), NEW k \in 1..Len(b)
     PROVE  /\ a \o SubSeq(b, 1, k) \in Seq(Symbol)
            /\ SubSeq(b, k + 1, Len(b)) \in Seq(Symbol)
            /\ (a \o SubSeq(b, 1, k)) \o SubSeq(b, k + 1, Len(b)) = a \o b
  OBVIOUS
<1>1. Len(b) \in Nat BY LenProperties
<1>. DEFINE l == Len(b)
            u == SubSeq(b, 1, k)
            v == SubSeq(b, k + 1, l)
<1>2. u \in Seq(Symbol)
  <2>1. k \in Nat /\ 0 + k <= Len(b) /\ 1 = 0 + 1 /\ k = 0 + k BY <1>1
  <2>. QED BY <2>1, Slice
<1>3. v \in Seq(Symbol)
  <2>1. k \in Nat /\ l - k \in Nat /\ k + (l - k) <= Len(b) /\ l = k + (l - k) BY <1>1
  <2>. QED BY <2>1, Slice
<1>4. u \o v = b
  <2>1. 1 \in 1..Len(b) + 1 /\ k \in 1 - 1..Len(b) /\ Len(b) \in k..Len(b) BY <1>1
  <2>2. u \o v = SubSeq(b, 1, Len(b)) BY <2>1, ConcatAdjacentSubSeq
  <2>. QED BY <2>2, SubSeqFull
<1>. HIDE DEF u, v
<1>5. (a \o u) \o v = a \o (u \o v) BY ONLY a \in Seq(Symbol), <1>2, <1>3, ConcatAssociative
<1>6. a \o u \in Seq(Symbol) BY ONLY a \in Seq(Symbol), <1>2, ConcatProperties
<1>. QED BY <1>2, <1>3, <1>4, <1>5, <1>6 DEF u, v

-----------------------------------------------------------------------------
\* What a step leaves alone.

LEMMA UpKept ==
  ASSUME UpInv, UNCHANGED <<phase, server, up, written, heard>>
  PROVE  UpInv'
<1>1. Upward' = Upward BY DEF Upward
<1>2. \A fs : UpIs(fs)' <=> UpIs(fs) BY DEF UpIs
<1>. QED BY <1>1, <1>2 DEF UpInv

LEMMA DownKept ==
  ASSUME DownInv, UNCHANGED <<phase, server, inbuf, down, spoken, read>>
  PROVE  DownInv'
<1>1. \A fs : DownIs(fs)' <=> DownIs(fs) BY DEF DownIs
<1>. QED BY <1>1 DEF DownInv

LEMMA TasksKept ==
  ASSUME Tasks,
         UNCHANGED <<task, frame, lock, mutex, phase, closing, write_counter, written, keys>>
  PROVE  Tasks'
BY DEF Tasks

LEMMA ListsKept ==
  ASSUME Lists, UNCHANGED <<written, heard, spoken, read>>
  PROVE  Lists'
BY DEF Lists

LEMMA InitInv == Init => IInv
<1>. SUFFICES ASSUME Init PROVE IInv
  OBVIOUS
<1>. USE DEF Init
<1>1. Typed
  <2>1. MaxSends \in Nat BY NoiseTransportAssumption
  <2>2. server \in Server
    <3>1. PICK c \in Certificates :
            server = [in |-> <<>>, state |-> "intro", counter |-> 0, dropped |-> FALSE,
                      certificate |-> c, noise |-> <<>>, keys |-> <<>>]
      BY DEF Certificates
    <3>2. <<>> \in Seq(Symbol) OBVIOUS
    <3>. QED BY <3>1, <3>2 DEF Server
  <2>3. 0 \in 0..MaxSends BY <2>1
  <2>4. /\ <<>> \in Seq(Symbol) /\ <<>> \in Seq(1..MaxSends) /\ <<>> \in Seq(1..MaxFrames)
    OBVIOUS
  <2>5. /\ up \in Seq(Symbol) /\ down \in Seq(Symbol) /\ inbuf \in Seq(Symbol)
        /\ written \in Seq(1..MaxSends) /\ heard \in Seq(1..MaxSends)
        /\ spoken \in Seq(1..MaxFrames) /\ read \in Seq(1..MaxFrames)
    BY <2>4
  <2>6. task \in [Senders -> {"idle", "queued", "sending", "draining"}] OBVIOUS
  <2>. QED BY <2>2, <2>3, <2>5, <2>6 DEF Typed
<1>2. Stage
  <2>1. /\ server.state = "intro" /\ server.in = <<>> /\ server.counter = 0
    OBVIOUS
  <2>. QED BY <2>1 DEF Stage
<1>3. Tasks
  <2>1. lock \notin Senders /\ mutex \notin Senders BY NoiseTransportAssumption
  <2>. QED BY <2>1 DEF Tasks
<1>4. UpInv BY DEF UpInv
<1>5. DownInv
  <2>1. server.state = "intro" OBVIOUS
  <2>. QED BY <2>1 DEF DownInv
<1>6. Lists BY DEF Lists
<1>. QED BY <1>1, <1>2, <1>3, <1>4, <1>5, <1>6 DEF IInv

-----------------------------------------------------------------------------
\* The senders.

Elsewhere == <<keys, intro_sent, up, written, inbound, far>>

\* What a task does to itself and the locks is nothing to the two streams.
LEMMA SenderStep ==
  ASSUME IInv, UNCHANGED phase, UNCHANGED Elsewhere,
         closing' = closing \/ phase = "transport", Typed', Tasks'
  PROVE  IInv'
<1>. USE DEF Elsewhere, inbound, far
<1>1. Stage' BY DEF IInv, Stage
<1>2. UpInv' BY UpKept DEF IInv
<1>3. DownInv' BY DownKept DEF IInv
<1>4. Lists' BY ListsKept DEF IInv
<1>. QED BY <1>1, <1>2, <1>3, <1>4 DEF IInv

\* The names of the locks' states are no senders.
LEMMA NoSender == ASSUME NEW s \in Senders PROVE s # "nobody" /\ s # "closer"
BY NoiseTransportAssumption

LEMMA CallStep ==
  ASSUME IInv, NEW s \in Senders, Call(s)
  PROVE  IInv'
<1>0. Typed /\ Tasks BY DEF IInv
<1>1. /\ phase = "transport" /\ task[s] = "idle" /\ calls < MaxSends /\ calls' = calls + 1
      /\ task' = [task EXCEPT ![s] = "queued"]
      /\ frame' = [frame EXCEPT ![s] = <<calls + 1>>]
      /\ UNCHANGED <<phase, closing, lock, mutex, write_counter>> /\ UNCHANGED Elsewhere
  BY DEF Call, Elsewhere
<1>2. calls' \in 1..MaxSends
  <2>1. MaxSends \in Nat BY NoiseTransportAssumption
  <2>. QED BY <1>0, <1>1, <2>1 DEF Typed
<1>3. /\ task'[s] = "queued" /\ frame'[s] = <<calls'>> /\ DOMAIN frame' = Senders
      /\ task' \in [Senders -> {"idle", "queued", "sending", "draining"}]
      /\ \A x \in Senders \ {s} : task'[x] = task[x] /\ frame'[x] = frame[x]
  BY <1>0, <1>1 DEF Typed, Tasks
<1>4. Typed'
  <2>1. calls' \in 0..MaxSends
    <3>1. MaxSends \in Nat BY NoiseTransportAssumption
    <3>. QED BY <1>2, <3>1
  <2>. QED BY <1>0, <1>1, <1>3, <2>1 DEF Typed, Elsewhere, inbound, far
<1>5. Tasks'
  <2>1. UNCHANGED <<keys, written>> BY <1>1 DEF Elsewhere
  <2>2. lock # s /\ mutex # s BY <1>0, <1>1 DEF Tasks
  <2>3. ASSUME NEW x \in Senders
        PROVE  /\ lock' = x <=> task'[x] \in {"sending", "draining"}
               /\ mutex' = x <=> task'[x] = "draining"
               /\ phase' # "transport" => task'[x] = "idle"
               /\ task'[x] = "queued" => \E k \in 1..MaxSends : frame'[x] = <<k>>
               /\ task'[x] = "sending" /\ ~closing' =>
                    /\ write_counter' = Len(written') + 1
                    /\ \E t \in Token :
                         /\ t.key = keys'.write /\ t.counter = Len(written')
                         /\ t.node \in 1..MaxSends /\ frame'[x] = FrameOf(t)
    <3>1. CASE x = s BY <1>1, <1>2, <1>3, <2>2, <3>1
    <3>2. CASE x # s BY <1>0, <1>1, <1>3, <2>1, <3>2 DEF Tasks
    <3>. QED BY <3>1, <3>2
  <2>4. mutex' = "closer" => closing' BY <1>0, <1>1 DEF Tasks
  <2>5. ASSUME \A x \in Senders : task'[x] # "sending", ~closing'
        PROVE  write_counter' = Len(written')
    BY <1>0, <1>1, <1>3, <2>1, <2>5 DEF Tasks
  <2>. QED BY <1>3, <2>3, <2>4, <2>5 DEF Tasks
<1>. QED BY <1>1, <1>4, <1>5, SenderStep

LEMMA EncodeStep ==
  ASSUME SizesFit, IInv, NEW s \in Senders, Encode(s)
  PROVE  IInv'
<1>0. Typed /\ Tasks /\ Stage BY DEF IInv
<1>1. /\ task[s] = "queued" /\ lock = "nobody" /\ lock' = s
      /\ write_counter' = write_counter + 1
      /\ task' = [task EXCEPT ![s] = "sending"]
      /\ UNCHANGED <<phase, closing, mutex, calls>> /\ UNCHANGED Elsewhere
  BY DEF Encode, MayEnter, NextCounter, Elsewhere
<1>2. PICK n \in Sizes :
        frame' = [frame EXCEPT ![s] = Encoded(Body(keys.write, write_counter, frame[s][1], n))]
  BY DEF Encode
<1>3. PICK k \in 1..MaxSends : frame[s] = <<k>> BY <1>0, <1>1 DEF Tasks
<1>4. phase = "transport" /\ keys = Reply.keys BY <1>0, <1>1 DEF Tasks, Stage
<1>. DEFINE t == TokenOf(keys.write, write_counter, k, n)
            b == Body(keys.write, write_counter, k, n)
<1>5. n \in Nat \ {0} BY NoiseTransportAssumption
<1>6. t \in Token
  <2>1. write_counter \in Nat /\ k \in Nat BY <1>0 DEF Typed
  <2>. QED BY <1>4, <2>1 DEF Token, TokenOf
<1>7. Encoded(b) = FrameOf(t)
  <2>1. Len(b) = n /\ Prefix(n) \o b = FrameOf(t) BY <1>5, Bodies
  <2>2. Intro = <<>> BY <1>0, <1>4 DEF Intro, Stage
  <2>3. <<>> \o Prefix(n) = Prefix(n)
    <3>1. Prefix(n) \in Seq(Nat) BY <1>5, Digits DEF SizesFit
    <3>. QED BY <3>1, ConcatEmptySeq
  <2>. HIDE DEF b, t
  <2>. QED BY <2>1, <2>2, <2>3 DEF Encoded
<1>8. /\ t.key = keys.write /\ t.counter = write_counter /\ t.node = k
  BY DEF TokenOf
<1>. HIDE DEF t, b
<1>9. /\ task'[s] = "sending" /\ frame'[s] = FrameOf(t) /\ DOMAIN frame' = Senders
      /\ task' \in [Senders -> {"idle", "queued", "sending", "draining"}]
      /\ \A x \in Senders \ {s} : task'[x] = task[x] /\ frame'[x] = frame[x]
  <2>1. frame[s][1] = k BY <1>3
  <2>2. frame' = [frame EXCEPT ![s] = FrameOf(t)] BY <1>2, <1>7, <2>1 DEF b
  <2>. QED BY <1>0, <1>1, <2>2 DEF Typed, Tasks
<1>10. Typed'
  <2>1. write_counter' \in Nat BY <1>0, <1>1 DEF Typed
  <2>. QED BY <1>0, <1>1, <1>9, <2>1 DEF Typed, Elsewhere, inbound, far
<1>11. \A x \in Senders : task[x] \notin {"sending", "draining"}
  BY <1>0, <1>1, NoSender DEF Tasks
<1>12. ~closing => write_counter = Len(written) BY <1>0, <1>4, <1>11 DEF Tasks
<1>13. Tasks'
  <2>1. UNCHANGED <<keys, written>> BY <1>1 DEF Elsewhere
  <2>2. ASSUME NEW x \in Senders
        PROVE  /\ lock' = x <=> task'[x] \in {"sending", "draining"}
               /\ mutex' = x <=> task'[x] = "draining"
               /\ phase' # "transport" => task'[x] = "idle"
               /\ task'[x] = "queued" => \E j \in 1..MaxSends : frame'[x] = <<j>>
               /\ task'[x] = "sending" /\ ~closing' =>
                    /\ write_counter' = Len(written') + 1
                    /\ \E u \in Token :
                         /\ u.key = keys'.write /\ u.counter = Len(written')
                         /\ u.node \in 1..MaxSends /\ frame'[x] = FrameOf(u)
    <3>1. CASE x = s
      <4>1. mutex' # x BY <1>0, <1>1, <3>1 DEF Tasks
      <4>. QED BY <1>1, <1>4, <1>6, <1>8, <1>9, <1>12, <2>1, <3>1, <4>1
    <3>2. CASE x # s BY <1>0, <1>1, <1>9, <1>11, <2>1, <3>2 DEF Tasks
    <3>. QED BY <3>1, <3>2
  <2>3. mutex' = "closer" => closing' BY <1>0, <1>1 DEF Tasks
  <2>. QED BY <1>9, <2>2, <2>3 DEF Tasks
<1>. QED BY <1>1, <1>10, <1>13, SenderStep

\* A task that leaves the locks, with nothing encrypted that is not written, or after
\* the closing handshake began.
LEMMA LeaveStep ==
  ASSUME IInv, NEW s \in Senders, Leave(s), phase = "transport",
         task[s] # "sending" \/ closing
  PROVE  IInv'
<1>0. Typed /\ Tasks BY DEF IInv
<1>1. /\ task' = [task EXCEPT ![s] = "idle"] /\ frame' = [frame EXCEPT ![s] = <<>>]
      /\ lock' = IF lock = s THEN "nobody" ELSE lock
      /\ mutex' = IF mutex = s THEN "nobody" ELSE mutex
      /\ UNCHANGED <<phase, closing, calls, write_counter>> /\ UNCHANGED Elsewhere
  BY DEF Leave, Elsewhere
<1>2. /\ task'[s] = "idle" /\ DOMAIN frame' = Senders
      /\ task' \in [Senders -> {"idle", "queued", "sending", "draining"}]
      /\ \A x \in Senders \ {s} : task'[x] = task[x] /\ frame'[x] = frame[x]
  BY <1>0, <1>1 DEF Typed, Tasks
<1>3. Typed' BY <1>0, <1>1, <1>2 DEF Typed, Elsewhere, inbound, far
<1>4. Tasks'
  <2>1. UNCHANGED <<keys, written>> BY <1>1 DEF Elsewhere
  <2>2. ASSUME NEW x \in Senders
        PROVE  /\ lock' = x <=> task'[x] \in {"sending", "draining"}
               /\ mutex' = x <=> task'[x] = "draining"
               /\ phase' # "transport" => task'[x] = "idle"
               /\ task'[x] = "queued" => \E k \in 1..MaxSends : frame'[x] = <<k>>
               /\ task'[x] = "sending" /\ ~closing' =>
                    /\ write_counter' = Len(written') + 1
                    /\ \E t \in Token :
                         /\ t.key = keys'.write /\ t.counter = Len(written')
                         /\ t.node \in 1..MaxSends /\ frame'[x] = FrameOf(t)
    <3>1. CASE x = s BY <1>1, <1>2, <3>1, NoSender
    <3>2. CASE x # s
      <4>1. (lock' = x <=> lock = x) /\ (mutex' = x <=> mutex = x)
        BY <1>1, <3>2, NoSender
      <4>. QED BY <1>0, <1>1, <1>2, <2>1, <3>2, <4>1 DEF Tasks
    <3>. QED BY <3>1, <3>2
  <2>3. mutex' = "closer" => closing' BY <1>0, <1>1 DEF Tasks
  <2>4. ASSUME \A x \in Senders : task'[x] # "sending", ~closing'
        PROVE  write_counter' = Len(written')
    <3>1. \A x \in Senders : task[x] # "sending" BY <1>1, <1>2, <2>4
    <3>. QED BY <1>0, <1>1, <2>1, <2>4, <3>1 DEF Tasks
  <2>. QED BY <1>2, <2>2, <2>3, <2>4 DEF Tasks
<1>. QED BY <1>1, <1>3, <1>4, SenderStep

LEMMA LeavingSteps ==
  ASSUME IInv, NEW s \in Senders, Drained(s) \/ SendRaises(s) \/ Cancel(s)
  PROVE  IInv'
<1>0. Typed /\ Tasks BY DEF IInv
<1>1. Leave(s) /\ task[s] # "idle" BY DEF Drained, SendRaises, Cancel
<1>2. phase = "transport" BY <1>0, <1>1 DEF Tasks
<1>3. task[s] # "sending" \/ closing
  <2>1. SUFFICES ASSUME Cancel(s), task[s] = "sending" PROVE closing
    BY DEF Drained, SendRaises
  <2>2. mutex # "nobody" BY <2>1 DEF Cancel
  <2>3. ASSUME NEW x \in Senders, mutex = x PROVE FALSE
    <3>1. lock = x /\ lock = s /\ task[x] = "draining" BY <1>0, <2>1, <2>3 DEF Tasks
    <3>. QED BY <2>1, <3>1
  <2>. QED BY <1>0, <2>2, <2>3 DEF Typed, Tasks
<1>. QED BY <1>1, <1>2, <1>3, LeaveStep

LEMMA ClosingSteps ==
  ASSUME IInv, Close \/ CloseDrained
  PROVE  IInv'
<1>0. Typed /\ Tasks BY DEF IInv
<1>1. /\ UNCHANGED <<phase, task, frame, lock, calls, write_counter>> /\ UNCHANGED Elsewhere
      /\ closing' = closing \/ (closing' = TRUE /\ phase = "transport")
      /\ mutex' \in {"nobody", "closer"} /\ mutex \in {"nobody", "closer"}
      /\ mutex' = "closer" => closing'
  BY DEF Close, CloseDrained, Elsewhere
<1>2. Typed'
  <2>1. closing' \in BOOLEAN BY <1>0, <1>1 DEF Typed
  <2>. QED BY <1>0, <1>1, <2>1 DEF Typed, Elsewhere, inbound, far
<1>3. Tasks'
  <2>1. UNCHANGED <<keys, written>> /\ (closing => closing')
    BY <1>1 DEF Elsewhere
  <2>2. \A x \in Senders : mutex # x /\ mutex' # x BY <1>1, NoSender
  <2>. QED BY <1>0, <1>1, <2>1, <2>2 DEF Tasks
<1>. QED BY <1>1, <1>2, <1>3, SenderStep

\* Streams behind one another.
LEMMA Regroup ==
  ASSUME NEW X, NEW a \in Seq(X), NEW b \in Seq(X), NEW c \in Seq(X)
  PROVE  /\ a \o b \in Seq(X) /\ b \o c \in Seq(X) /\ (a \o b) \o c \in Seq(X)
         /\ a \o (b \o c) = (a \o b) \o c
<1>1. a \o b \in Seq(X) /\ b \o c \in Seq(X) BY ConcatProperties
<1>2. (a \o b) \o c \in Seq(X) BY <1>1, ConcatProperties
<1>3. (a \o b) \o c = a \o (b \o c) BY ConcatAssociative
<1>. QED BY <1>1, <1>2, <1>3

\* A frame ends with the token of its node.
LEMMA LastOf ==
  ASSUME SizesFit, NEW t \in Token
  PROVE  Last(FrameOf(t)) = t
<1>1. Nat \subseteq Symbol /\ t \in Symbol /\ Fits(t) BY Tokens
<1>2. /\ Len(FrameOf(t)) = 3 + t.size
      /\ \A j \in 1..t.size : FrameOf(t)[3 + j] = t
  BY <1>1, FrameParts
<1>3. t.size \in 1..t.size BY <1>1 DEF Fits
<1>. QED BY <1>2, <1>3 DEF Last

LEMMA WriteStep ==
  ASSUME SizesFit, IInv, NEW s \in Senders, Write(s)
  PROVE  IInv'
<1>0. Typed /\ Stage /\ Tasks /\ UpInv /\ DownInv /\ Lists BY DEF IInv
<1>1. /\ task[s] = "sending" /\ mutex = "nobody" /\ ~closing /\ mutex' = s
      /\ up' = up \o frame[s] /\ written' = Append(written, Last(frame[s]).node)
      /\ task' = [task EXCEPT ![s] = "draining"]
      /\ UNCHANGED <<phase, frame, lock, calls, keys, intro_sent, write_counter, closing>>
      /\ UNCHANGED inbound /\ UNCHANGED far
  BY DEF Write
<1>2. phase = "transport" /\ keys = Reply.keys /\ server.state \in {"finish", "transport"}
  BY <1>0, <1>1 DEF Tasks, Stage
<1>3. PICK t \in Token :
        /\ t.key = keys.write /\ t.counter = Len(written) /\ t.node \in 1..MaxSends
        /\ frame[s] = FrameOf(t)
  BY <1>0, <1>1 DEF Tasks
<1>4. write_counter = Len(written) + 1 BY <1>0, <1>1 DEF Tasks
<1>5. PICK fs \in Seq(Token) : UpIs(fs) /\ Carries(Upward, fs)
  BY <1>0, <1>2 DEF UpInv
<1>. DEFINE w == Len(written)
            n == Len(fs)
<1>6. w \in Nat /\ n \in Nat /\ written \in Seq(1..MaxSends) BY <1>0 DEF Typed
<1>7. /\ written' \in Seq(1..MaxSends) /\ Len(written') = w + 1 /\ written'[w + 1] = t.node
      /\ \A i \in 1..w : written'[i] = written[i]
  <2>1. written' = Append(written, t.node) BY <1>1, <1>3, LastOf
  <2>. QED BY <1>3, <1>6, <2>1, AppendProperties
<1>8. /\ Upward \in Seq(Symbol) /\ up' \in Seq(Symbol) /\ Upward' = Upward \o FrameOf(t)
  <2>1. server.in \in Seq(Symbol) /\ up \in Seq(Symbol) BY <1>0 DEF Typed, Server
  <2>2. FrameOf(t) \in Seq(Symbol) BY Tokens, FrameParts
  <2>3. Upward = server.in \o up /\ Upward' = server.in \o (up \o FrameOf(t))
    BY <1>1, <1>2, <1>3 DEF Upward, far
  <2>4. /\ server.in \o up \in Seq(Symbol) /\ up \o FrameOf(t) \in Seq(Symbol)
        /\ server.in \o (up \o FrameOf(t)) = (server.in \o up) \o FrameOf(t)
    <3>1. \A a, b, c \in Seq(Symbol) : /\ a \o b \in Seq(Symbol) /\ b \o c \in Seq(Symbol)
                                       /\ a \o (b \o c) = (a \o b) \o c
      BY Regroup
    <3>. QED BY <2>1, <2>2, <3>1, Zenon
  <2>. QED BY <1>1, <1>3, <2>3, <2>4
<1>9. PICK gs \in Seq(Token) : gs = Append(fs, t) /\ Carries(Upward \o FrameOf(t), gs)
  <2>1. Nat \subseteq Symbol /\ \A x \in Token : Fits(x) /\ x \in Symbol BY Tokens
  <2>2. /\ Append(fs, t) \in Seq(Token) /\ Carries(Upward \o FrameOf(t), Append(fs, t))
    BY <1>5, <1>8, <2>1, Joined
  <2>. QED BY <2>2
<1>10. Len(gs) = n + 1 /\ gs[n + 1] = t /\ \A i \in 1..n : gs[i] = fs[i]
  BY <1>9, AppendProperties
<1>11. UNCHANGED <<server, heard, inbuf, down, spoken, read, read_counter, reader>>
  BY <1>1 DEF inbound, far
<1>12. ASSUME server.state = "finish" PROVE UpInv'
  <2>1. /\ n = w + 1 /\ fs[1] = FinishToken
        /\ \A i \in 1..w : IsData(fs[i + 1], Reply.keys.write, i, written[i])
    BY <1>2, <1>5, <1>12 DEF UpIs
  <2>2. Len(gs) = Len(written') + 1 /\ gs[1] = FinishToken
    <3>1. 1 \in 1..n BY <1>6, <2>1
    <3>. QED BY <1>7, <1>10, <2>1, <3>1
  <2>3. ASSUME NEW i \in 1..(w + 1)
        PROVE  IsData(gs[i + 1], Reply.keys.write, i, written'[i])
    <3>1. CASE i \in 1..w
      <4>1. i + 1 \in 1..n BY <1>6, <2>1, <3>1
      <4>2. gs[i + 1] = fs[i + 1] /\ written'[i] = written[i] BY <1>7, <1>10, <3>1, <4>1
      <4>. QED BY <2>1, <3>1, <4>2
    <3>2. CASE i = w + 1
      <4>1. gs[i + 1] = t /\ written'[i] = t.node BY <1>7, <1>10, <2>1, <3>2
      <4>2. t.counter = i - 1 BY <1>3, <1>6, <3>2
      <4>. QED BY <1>2, <1>3, <4>1, <4>2 DEF IsData
    <3>. QED BY <1>6, <3>1, <3>2
  <2>4. UpIs(gs)' BY <1>1, <1>2, <1>7, <1>11, <1>12, <2>2, <2>3 DEF UpIs
  <2>. QED BY <1>2, <1>8, <1>9, <1>11, <1>12, <2>4 DEF UpInv
<1>13. ASSUME server.state = "transport" PROVE UpInv'
  <2>. DEFINE h == Len(heard)
  <2>0. h \in Nat BY <1>0 DEF Typed
  <2>1. /\ h + n = w
        /\ \A i \in 1..n : IsData(fs[i], Reply.keys.write, h + i, written[h + i])
    BY <1>5, <1>13 DEF UpIs
  <2>. HIDE DEF h, n, w
  <2>2. h + Len(gs) = Len(written')
    <3>1. h + (n + 1) = w + 1 BY <1>6, <2>0, <2>1
    <3>. QED BY <1>7, <1>10, <3>1
  <2>3. ASSUME NEW i \in 1..(n + 1)
        PROVE  IsData(gs[i], Reply.keys.write, h + i, written'[h + i])
    <3>1. CASE i \in 1..n
      <4>1. h + i \in 1..w BY <1>6, <2>0, <2>1, <3>1
      <4>2. gs[i] = fs[i] /\ written'[h + i] = written[h + i] BY <1>7, <1>10, <3>1, <4>1
      <4>. QED BY <2>1, <3>1, <4>2
    <3>2. CASE i = n + 1
      <4>1. h + i = w + 1 BY <1>6, <2>0, <2>1, <3>2
      <4>2. gs[i] = t /\ written'[h + i] = t.node BY <1>7, <1>10, <3>2, <4>1
      <4>3. t.counter = (h + i) - 1
        <5>1. t.counter = w BY <1>3 DEF w
        <5>. QED BY <1>6, <4>1, <5>1
      <4>. QED BY <1>2, <1>3, <4>2, <4>3 DEF IsData
    <3>. QED BY <1>6, <3>1, <3>2
  <2>4. UpIs(gs)' BY <1>1, <1>2, <1>7, <1>10, <1>11, <1>13, <2>2, <2>3 DEF UpIs, h
  <2>. QED BY <1>2, <1>8, <1>9, <1>11, <1>13, <2>4 DEF UpInv
<1>14. /\ task'[s] = "draining"
       /\ task' \in [Senders -> {"idle", "queued", "sending", "draining"}]
       /\ \A x \in Senders \ {s} : task'[x] = task[x] /\ frame'[x] = frame[x]
  BY <1>0, <1>1 DEF Typed
<1>15. Typed' BY <1>0, <1>1, <1>7, <1>8, <1>11, <1>14 DEF Typed
<1>16. Stage' BY <1>0, <1>1, <1>2, <1>11 DEF Stage
<1>17. Tasks'
  <2>1. lock = s BY <1>0, <1>1 DEF Tasks
  <2>2. \A x \in Senders \ {s} : task[x] \notin {"sending", "draining"}
    BY <1>0, <2>1 DEF Tasks
  <2>3. ASSUME NEW x \in Senders
        PROVE  /\ lock' = x <=> task'[x] \in {"sending", "draining"}
               /\ mutex' = x <=> task'[x] = "draining"
               /\ phase' # "transport" => task'[x] = "idle"
               /\ task'[x] = "queued" => \E k \in 1..MaxSends : frame'[x] = <<k>>
               /\ task'[x] # "sending"
    <3>1. CASE x = s BY <1>1, <1>2, <1>14, <2>1, <3>1
    <3>2. CASE x # s BY <1>0, <1>1, <1>14, <2>1, <2>2, <3>2 DEF Tasks
    <3>. QED BY <3>1, <3>2
  <2>4. mutex' # "closer" BY <1>1, NoSender
  <2>5. write_counter' = Len(written') BY <1>1, <1>4, <1>7
  <2>6. DOMAIN frame' = Senders BY <1>0, <1>1 DEF Tasks
  <2>. QED BY <2>3, <2>4, <2>5, <2>6 DEF Tasks
<1>18. DownInv' BY <1>0, <1>1, <1>11, DownKept
<1>19. Lists'
  <2>1. Len(heard) \in Nat BY <1>0 DEF Typed
  <2>2. Len(heard) <= w + 1 /\ \A i \in 1..Len(heard) : i \in 1..w /\ heard[i] = written[i]
    BY <1>0, <1>6, <2>1 DEF Lists
  <2>3. \A i \in 1..Len(heard) : heard[i] = written'[i] BY <1>7, <2>2
  <2>. QED BY <1>0, <1>7, <1>11, <2>2, <2>3 DEF Lists
<1>20. UpInv' BY <1>2, <1>12, <1>13
<1>. QED BY <1>15, <1>16, <1>17, <1>18, <1>19, <1>20 DEF IInv

-----------------------------------------------------------------------------
\* The handshake.

\* One frame.
LEMMA Single ==
  ASSUME SizesFit, NEW t \in Token
  PROVE  /\ FrameOf(t) \in Seq(Symbol) /\ <<t>> \in Seq(Token) /\ Carries(FrameOf(t), <<t>>)
<1>1. Nat \subseteq Symbol /\ \A x \in Token : Fits(x) /\ x \in Symbol BY Tokens
<1>2. FrameOf(t) \in Seq(Symbol) BY <1>1, FrameParts
<1>3. /\ <<>> \in Seq(Symbol) /\ <<>> \in Seq(Token) /\ Carries(<<>>, <<>>)
  BY NothingCarried
<1>4. Carries(<<>> \o FrameOf(t), Append(<<>>, t)) BY <1>1, <1>3, Joined
<1>5. <<>> \o FrameOf(t) = FrameOf(t) BY <1>2, ConcatEmptySeq
<1>6. Append(<<>>, t) = <<t>> /\ <<t>> \in Seq(Token) OBVIOUS
<1>. QED BY <1>2, <1>4, <1>5, <1>6

LEMMA TailOf ==
  ASSUME NEW X, NEW x \in X, NEW q \in Seq(X)
  PROVE  /\ <<x>> \o q \in Seq(X) /\ <<x>> \o q # <<>> /\ Tail(<<x>> \o q) = q
<1>. DEFINE s == <<x>> \o q
<1>1. <<x>> \in Seq(X) /\ Len(<<x>>) = 1 /\ Len(q) \in Nat BY LenProperties
<1>2. /\ s \in Seq(X) /\ Len(s) = 1 + Len(q)
      /\ \A i \in 1..(1 + Len(q)) : s[i] = IF i <= 1 THEN <<x>>[i] ELSE q[i - 1]
  BY <1>1, ConcatProperties
<1>. HIDE DEF s
<1>3. s # <<>> BY <1>1, <1>2
<1>4. Tail(s) \in Seq(X) /\ Len(Tail(s)) = Len(q)
  BY <1>1, <1>2, <1>3, HeadTailProperties
<1>5. \A i \in 1..Len(q) : Tail(s)[i] = q[i]
  <2>1. SUFFICES ASSUME NEW i \in 1..Len(q) PROVE Tail(s)[i] = q[i]
    OBVIOUS
  <2>2. i + 1 \in 1..(1 + Len(q)) /\ ~(i + 1 <= 1) /\ (i + 1) - 1 = i BY <1>1
  <2>3. s[i + 1] = q[i] BY <1>2, <2>2
  <2>4. Tail(s)[i] = s[i + 1] BY <1>2, <1>3, <1>4, HeadTailProperties
  <2>. QED BY <2>3, <2>4
<1>6. Tail(s) = q BY <1>4, <1>5, SeqEqual
<1>. QED BY <1>2, <1>3, <1>6 DEF s

\* A handshake message in its frame.
LEMMA Encodings ==
  ASSUME SizesFit, NEW node, TokenOf(<<>>, 0, node, 1) \in Token
  PROVE  /\ intro_sent => Encoded(Raw(node, 1)) = FrameOf(TokenOf(<<>>, 0, node, 1))
         /\ ~intro_sent => Encoded(Raw(node, 1)) = <<0>> \o FrameOf(TokenOf(<<>>, 0, node, 1))
<1>. DEFINE b == Body(<<>>, 0, node, 1)
            t == TokenOf(<<>>, 0, node, 1)
<1>1. Len(b) = 1 /\ Prefix(1) \o b = FrameOf(t) /\ b = BodyOf(t)
  <2>1. 1 \in Nat \ {0} OBVIOUS
  <2>. HIDE DEF b, t
  <2>2. \A n \in Nat \ {0} :
          /\ Len(Body(<<>>, 0, node, n)) = n
          /\ Prefix(n) \o Body(<<>>, 0, node, n) = FrameOf(TokenOf(<<>>, 0, node, n))
          /\ Body(<<>>, 0, node, n) = BodyOf(TokenOf(<<>>, 0, node, n))
    BY Bodies
  <2>. QED BY <2>1, <2>2 DEF b, t
<1>2. Nat \subseteq Symbol /\ t \in Symbol /\ Fits(t) BY Tokens
<1>3. b \in Seq(Symbol)
  <2>1. t.size = 1 BY DEF TokenOf
  <2>. QED BY <1>1, <1>2, <2>1 DEF BodyOf
<1>4. Prefix(1) \in Seq(Symbol) /\ Prefix(1) \in Seq(Nat)
  <2>1. Base \in Nat BY NoiseTransportAssumption
  <2>2. t.size = 1 BY DEF TokenOf
  <2>3. Prefix(1) \in Seq(Nat) BY <1>2, <2>2, Digits DEF Fits
  <2>. QED BY <1>2, <2>3, SeqMonotonic
<1>. HIDE DEF b, t
<1>5. Encoded(b) = Intro \o Prefix(1) \o b BY <1>1 DEF Encoded
<1>6. Raw(node, 1) = b BY DEF Raw, b
<1>7. ASSUME intro_sent PROVE Encoded(b) = FrameOf(t)
  <2>1. <<>> \o Prefix(1) = Prefix(1) BY <1>4, ConcatEmptySeq
  <2>. QED BY <1>1, <1>5, <1>7, <2>1 DEF Intro
<1>8. ASSUME ~intro_sent PROVE Encoded(b) = <<0>> \o FrameOf(t)
  <2>1. <<0>> \in Seq(Symbol) BY <1>2
  <2>2. (<<0>> \o Prefix(1)) \o b = <<0>> \o (Prefix(1) \o b) BY <1>3, <1>4, <2>1, Regroup
  <2>. QED BY <1>1, <1>5, <1>8, <2>2 DEF Intro
<1>. QED BY <1>6, <1>7, <1>8 DEF t

LEMMA HelloStep ==
  ASSUME SizesFit, IInv, Hello
  PROVE  IInv'
<1>0. Typed /\ Stage /\ Tasks /\ UpInv /\ DownInv /\ Lists BY DEF IInv
<1>1. /\ phase = "hello" /\ phase' = "answer" /\ intro_sent' = TRUE
      /\ up' = up \o Encoded(Raw("e", 1))
      /\ UNCHANGED <<task, frame, lock, mutex, calls>>
      /\ UNCHANGED <<keys, write_counter, closing, written>>
      /\ UNCHANGED <<inbuf, read_counter, reader, read>>
      /\ UNCHANGED <<server, down, heard, spoken>>
  BY DEF Hello, inbound, far, sending
<1>2. server.state = "intro" /\ server.in = <<>> /\ up = <<>> /\ ~intro_sent
  BY <1>0, <1>1 DEF Stage
<1>. DEFINE F == FrameOf(HelloToken)
<1>3. /\ F \in Seq(Symbol) /\ <<HelloToken>> \in Seq(Token) /\ Carries(F, <<HelloToken>>)
  BY SpecialTokens, Single
<1>. HIDE DEF F
<1>4. 0 \in Symbol BY DEF Symbol
<1>5. up' = <<0>> \o F
  <2>1. Encoded(Raw("e", 1)) = <<0>> \o F
    BY <1>2, SpecialTokens, Encodings DEF HelloToken, F
  <2>2. <<0>> \o F \in Seq(Symbol) BY <1>3, <1>4, TailOf
  <2>3. <<>> \o (<<0>> \o F) = <<0>> \o F BY <2>2, ConcatEmptySeq
  <2>. QED BY <1>1, <1>2, <2>1, <2>3
<1>6. up' \in Seq(Symbol) /\ up' # <<>> /\ Tail(up') = F BY <1>3, <1>4, <1>5, TailOf
<1>7. <<>> \o up' = up' BY <1>6, ConcatEmptySeq
<1>8. Typed' BY <1>0, <1>1, <1>6 DEF Typed
<1>9. Stage' BY <1>0, <1>1, <1>2 DEF Stage
<1>10. Tasks'
  <2>1. \A s \in Senders : task[s] = "idle" BY <1>0, <1>1 DEF Tasks
  <2>. QED BY <1>0, <1>1, <2>1 DEF Tasks
<1>11. UpInv'
  <2>1. Upward' = F BY <1>1, <1>2, <1>6, <1>7 DEF Upward
  <2>2. PICK gs \in Seq(Token) : gs = <<HelloToken>> /\ Carries(F, gs) BY <1>3
  <2>3. Len(gs) = 1 /\ gs[1] = HelloToken BY <2>2
  <2>4. UpIs(gs)' BY <1>1, <1>2, <2>3 DEF UpIs
  <2>5. (server.in \o up # <<>>)' BY <1>1, <1>2, <1>6, <1>7
  <2>. QED BY <2>1, <2>2, <2>4, <2>5 DEF UpInv
<1>12. DownInv' BY <1>1, <1>2 DEF DownInv
<1>13. Lists' BY <1>0, <1>1, ListsKept
<1>. QED BY <1>8, <1>9, <1>10, <1>11, <1>12, <1>13 DEF IInv

LEMMA FirstToken ==
  ASSUME SizesFit
  PROVE  \A part, rest \in Seq(Symbol) : \A fs \in Seq(Token) :
           Carries(part \o rest, fs) /\ Complete(part) =>
             /\ fs # <<>> /\ fs[1] \in Token
             /\ FirstFrame(part)[1] = fs[1] /\ Len(FirstFrame(part)) = fs[1].size
             /\ FirstFrame(part) # <<>>
             /\ AfterFirst(part) \in Seq(Symbol) /\ Tail(fs) \in Seq(Token)
             /\ Carries(AfterFirst(part) \o rest, Tail(fs))
<1>1. Nat \subseteq Symbol /\ \A x \in Token : Fits(x) /\ x \in Symbol BY Tokens
<1>. QED BY <1>1, FirstOf

\* The pieces of a stream of frames the client reads while it waits for the answer.
LEMMA AnswerStep ==
  ASSUME SizesFit, IInv, NEW k \in 1..Len(down), Answer(k)
  PROVE  IInv'
<1>0. Typed /\ Stage /\ Tasks /\ UpInv /\ DownInv /\ Lists BY DEF IInv
<1>. DEFINE buf == inbuf \o SubSeq(down, 1, k)
            rest == SubSeq(down, k + 1, Len(down))
            hello == FirstFrame(buf)[1].node
            answer == Noise!Answered("e", "noise_key", hello)
<1>1. /\ phase = "answer" /\ down' = rest
      /\ inbuf' = IF Complete(buf) THEN AfterFirst(buf) ELSE buf
      /\ IF ~Complete(buf) THEN UNCHANGED <<phase, keys, up>>
         ELSE IF Noise!Accepted("e", hello)
         THEN /\ phase' = "finish" /\ keys' = answer.keys
              /\ up' = up \o Encoded(Raw(answer.finish, 1))
         ELSE phase' = "failed" /\ UNCHANGED <<keys, up>>
      /\ UNCHANGED <<intro_sent, write_counter, closing, written, read_counter>>
      /\ UNCHANGED <<task, frame, lock, mutex, calls>>
      /\ UNCHANGED <<reader, read, server, heard, spoken>>
  BY DEF Answer, sending
<1>2. server.state = "finish" /\ intro_sent
  <2>1. down # <<>> BY <1>0
  <2>. QED BY <1>0, <1>1, <2>1 DEF Stage
<1>3. /\ rest \in Seq(Symbol) /\ buf \in Seq(Symbol) /\ buf \o rest = inbuf \o down
  <2>1. inbuf \in Seq(Symbol) /\ down \in Seq(Symbol) BY <1>0 DEF Typed
  <2>. QED BY <2>1, Pieces, Zenon
<1>4. PICK fs \in Seq(Token) : DownIs(fs) /\ Carries(buf \o rest, fs)
  BY <1>0, <1>1, <1>2, <1>3 DEF DownInv
<1>5. Len(fs) = 1 /\ fs[1] = AnswerToken(server.certificate) BY <1>1, <1>4 DEF DownIs
<1>6. /\ written = <<>> /\ read = <<>> /\ heard = <<>> /\ spoken = <<>> /\ reader = "none"
      /\ ~closing
  BY <1>0, <1>1, <1>2 DEF Stage
<1>. HIDE DEF buf, rest
<1>7. Lists' BY <1>0, <1>1, ListsKept
<1>8. \A s \in Senders : task[s] = "idle" BY <1>0, <1>1 DEF Tasks
<1>9. Tasks' BY <1>0, <1>1, <1>6, <1>8 DEF Tasks
<1>10. CASE ~Complete(buf)
  <2>1. /\ UNCHANGED <<phase, keys, up>> /\ inbuf' = buf BY <1>1, <1>10
  <2>2. Typed' BY <1>0, <1>1, <1>3, <2>1 DEF Typed
  <2>3. Stage' BY <1>0, <1>1, <1>2, <2>1 DEF Stage
  <2>4. UpInv' BY <1>0, <1>1, <2>1, UpKept
  <2>5. DownInv'
    <3>1. inbuf' \o down' = buf \o rest BY <1>1, <2>1
    <3>2. DownIs(fs)' BY <1>1, <1>4, <2>1 DEF DownIs
    <3>. QED BY <1>4, <3>1, <3>2 DEF DownInv
  <2>. QED BY <1>7, <1>9, <2>2, <2>3, <2>4, <2>5 DEF IInv
<1>11. CASE Complete(buf)
  <2>1. /\ FirstFrame(buf)[1] = fs[1] /\ AfterFirst(buf) \in Seq(Symbol)
        /\ Tail(fs) \in Seq(Token) /\ fs # <<>> /\ Carries(AfterFirst(buf) \o rest, Tail(fs))
    BY <1>3, <1>4, <1>11, FirstToken, Zenon
  <2>2. hello = Greeting(server.certificate).hello
    BY <1>5, <2>1 DEF AnswerToken, TokenOf
  <2>. HIDE DEF hello
  <2>3. inbuf' = AfterFirst(buf) BY <1>1, <1>11
  <2>4. PICK us \in Seq(Token) : UpIs(us) /\ Carries(Upward, us)
    BY <1>0, <1>1 DEF UpInv
  <2>5. Len(us) = 0 BY <1>1, <1>2, <2>4 DEF UpIs
  <2>6. Len(Tail(fs)) = 0 BY <1>4, <1>5, <2>1, HeadTailProperties
  <2>7. CASE Noise!Accepted("e", hello)
    <3>1. server.certificate = "certificate" BY <2>2, <2>7, OnlyCertified
    <3>2. answer = Reply BY <2>2, <3>1 DEF Reply
    <3>3. /\ phase' = "finish" /\ keys' = Reply.keys
          /\ up' = up \o Encoded(Raw(Reply.finish, 1))
      BY <1>1, <1>11, <2>7, <3>2
    <3>. DEFINE F == FrameOf(FinishToken)
    <3>4. Encoded(Raw(Reply.finish, 1)) = F
      BY <1>2, SpecialTokens, Encodings DEF FinishToken
    <3>5. F \in Seq(Symbol) BY SpecialTokens, Single
    <3>. HIDE DEF F
    <3>6. up \in Seq(Symbol) /\ server.in \in Seq(Symbol) BY <1>0 DEF Typed, Server
    <3>7. up' = up \o F /\ up' \in Seq(Symbol) BY <3>3, <3>4, <3>5, <3>6, ConcatProperties
    <3>8. Upward \in Seq(Symbol) /\ Upward' = Upward \o F
      <4>1. \A a, b, c \in Seq(Symbol) : /\ a \o b \in Seq(Symbol)
                                         /\ a \o (b \o c) = (a \o b) \o c
        BY Regroup
      <4>2. /\ server.in \o up \in Seq(Symbol)
            /\ server.in \o (up \o F) = (server.in \o up) \o F
        BY <3>5, <3>6, <4>1, Zenon
      <4>. QED BY <1>1, <1>2, <3>7, <4>2 DEF Upward
    <3>9. PICK gs \in Seq(Token) : gs = Append(us, FinishToken) /\ Carries(Upward \o F, gs)
      <4>1. Nat \subseteq Symbol /\ \A x \in Token : Fits(x) /\ x \in Symbol BY Tokens
      <4>2. /\ Append(us, FinishToken) \in Seq(Token)
            /\ Carries(Upward \o FrameOf(FinishToken), Append(us, FinishToken))
        BY <2>4, <3>8, <4>1, SpecialTokens, Joined
      <4>. QED BY <4>2 DEF F
    <3>10. Len(gs) = 1 /\ gs[1] = FinishToken BY <2>5, <3>9, AppendProperties
    <3>11. Typed' BY <1>0, <1>1, <1>3, <2>1, <2>3, <3>3, <3>7 DEF Typed
    <3>12. Stage' BY <1>0, <1>1, <1>2, <1>6, <3>1, <3>3 DEF Stage
    <3>13. UpInv'
      <4>1. UpIs(gs)' BY <1>1, <1>2, <1>6, <3>3, <3>10 DEF UpIs
      <4>. QED BY <1>1, <1>2, <3>8, <3>9, <4>1 DEF UpInv
    <3>14. DownInv'
      <4>1. PICK ds \in Seq(Token) : ds = Tail(fs) /\ Carries(AfterFirst(buf) \o rest, ds)
        BY <2>1
      <4>2. DownIs(ds)' BY <1>1, <1>6, <2>6, <3>3, <4>1 DEF DownIs
      <4>. QED BY <1>1, <2>3, <4>1, <4>2 DEF DownInv
    <3>. QED BY <1>7, <1>9, <3>11, <3>12, <3>13, <3>14 DEF IInv
  <2>8. CASE ~Noise!Accepted("e", hello)
    <3>1. phase' = "failed" /\ UNCHANGED <<keys, up>> BY <1>1, <1>11, <2>8
    <3>2. Typed' BY <1>0, <1>1, <1>3, <2>1, <2>3, <3>1 DEF Typed
    <3>3. Stage' BY <1>0, <1>1, <1>2, <1>6, <3>1 DEF Stage
    <3>4. UpInv'
      <4>1. Upward' = Upward BY <1>1, <3>1 DEF Upward
      <4>2. UpIs(us)' BY <1>1, <1>2, <2>5, <3>1 DEF UpIs
      <4>. QED BY <1>1, <1>2, <2>4, <4>1, <4>2 DEF UpInv
    <3>5. DownInv' BY <3>1 DEF DownInv
    <3>. QED BY <1>7, <1>9, <3>2, <3>3, <3>4, <3>5 DEF IInv
  <2>. QED BY <2>7, <2>8
<1>. QED BY <1>10, <1>11

LEMMA FinishStep ==
  ASSUME IInv, Finish
  PROVE  IInv'
<1>0. Typed /\ Stage /\ Tasks /\ UpInv /\ DownInv /\ Lists BY DEF IInv
<1>1. /\ phase = "finish" /\ phase' = "transport"
      /\ write_counter' = 0 /\ read_counter' = 0 /\ reader' = "waiting"
      /\ UNCHANGED <<task, frame, lock, mutex, calls, keys, intro_sent, closing, up, written>>
      /\ UNCHANGED <<inbuf, read, server, down, heard, spoken>>
  BY DEF Finish, sending, far
<1>2. /\ written = <<>> /\ read = <<>> /\ ~closing
      /\ server.state \in {"finish", "transport"}
  BY <1>0, <1>1 DEF Stage
<1>3. \A s \in Senders : task[s] = "idle" BY <1>0, <1>1 DEF Tasks
<1>4. Typed' BY <1>0, <1>1 DEF Typed
<1>5. Stage' BY <1>0, <1>1, <1>2 DEF Stage
<1>6. Tasks' BY <1>0, <1>1, <1>2, <1>3 DEF Tasks
<1>7. UpInv'
  <2>1. PICK fs \in Seq(Token) : UpIs(fs) /\ Carries(Upward, fs) BY <1>0, <1>1 DEF UpInv
  <2>2. Upward' = Upward BY <1>1 DEF Upward
  <2>3. UpIs(fs)' BY <1>1, <1>2, <2>1 DEF UpIs
  <2>. QED BY <1>1, <1>2, <2>1, <2>2, <2>3 DEF UpInv
<1>8. DownInv'
  <2>1. PICK fs \in Seq(Token) : DownIs(fs) /\ Carries(inbuf \o down, fs)
    BY <1>0, <1>1, <1>2 DEF DownInv
  <2>2. DownIs(fs)' BY <1>1, <2>1 DEF DownIs
  <2>. QED BY <1>1, <2>1, <2>2 DEF DownInv
<1>9. Lists' BY <1>0, <1>1, ListsKept
<1>. QED BY <1>4, <1>5, <1>6, <1>7, <1>8, <1>9 DEF IInv

-----------------------------------------------------------------------------
\* The read loop.

LEMMA ReceiveStep ==
  ASSUME IInv, NEW k \in 1..Len(down), Receive(k)
  PROVE  IInv'
<1>0. Typed /\ Stage /\ Tasks /\ UpInv /\ DownInv /\ Lists BY DEF IInv
<1>1. /\ reader = "waiting" /\ reader' = "decoding"
      /\ inbuf' = inbuf \o SubSeq(down, 1, k)
      /\ down' = SubSeq(down, k + 1, Len(down))
      /\ UNCHANGED <<task, frame, lock, mutex, calls>>
      /\ UNCHANGED <<phase, keys, intro_sent, write_counter, closing, up, written>>
      /\ UNCHANGED <<read_counter, read, server, heard, spoken>>
  BY DEF Receive, outbound, sending
<1>2. phase = "transport" /\ server.state \in {"finish", "transport"}
  BY <1>0, <1>1 DEF Stage
<1>3. inbuf' \in Seq(Symbol) /\ down' \in Seq(Symbol) /\ inbuf' \o down' = inbuf \o down
  <2>1. inbuf \in Seq(Symbol) /\ down \in Seq(Symbol) BY <1>0 DEF Typed
  <2>2. /\ inbuf \o SubSeq(down, 1, k) \in Seq(Symbol)
        /\ SubSeq(down, k + 1, Len(down)) \in Seq(Symbol)
        /\ (inbuf \o SubSeq(down, 1, k)) \o SubSeq(down, k + 1, Len(down)) = inbuf \o down
    BY <2>1, Pieces, Zenon
  <2>. QED BY <1>1, <2>2, Zenon
<1>4. Typed' BY <1>0, <1>1, <1>3 DEF Typed
<1>5. Stage' BY <1>0, <1>1, <1>2 DEF Stage
<1>6. Tasks' BY <1>0, <1>1, TasksKept
<1>7. UpInv' BY <1>0, <1>1, UpKept
<1>8. DownInv'
  <2>1. PICK fs \in Seq(Token) : DownIs(fs) /\ Carries(inbuf \o down, fs)
    BY <1>0, <1>2 DEF DownInv
  <2>2. DownIs(fs)' BY <1>1, <2>1 DEF DownIs
  <2>. QED BY <1>3, <2>1, <2>2 DEF DownInv
<1>9. Lists' BY <1>0, <1>1, ListsKept
<1>. QED BY <1>4, <1>5, <1>6, <1>7, <1>8, <1>9 DEF IInv

LEMMA ExhaustedStep ==
  ASSUME IInv, Exhausted
  PROVE  IInv'
<1>0. Typed /\ Stage /\ Tasks /\ UpInv /\ DownInv /\ Lists BY DEF IInv
<1>1. /\ reader = "decoding" /\ reader' = "waiting"
      /\ UNCHANGED <<task, frame, lock, mutex, calls>>
      /\ UNCHANGED <<phase, keys, intro_sent, write_counter, closing, up, written>>
      /\ UNCHANGED <<inbuf, read_counter, read, server, down, heard, spoken>>
  BY DEF Exhausted, outbound, sending, far
<1>2. phase = "transport" BY <1>0, <1>1 DEF Stage
<1>3. Typed' BY <1>0, <1>1 DEF Typed
<1>4. Stage' BY <1>0, <1>1, <1>2 DEF Stage
<1>5. Tasks' BY <1>0, <1>1, TasksKept
<1>6. UpInv' BY <1>0, <1>1, UpKept
<1>7. DownInv' BY <1>0, <1>1, DownKept
<1>8. Lists' BY <1>0, <1>1, ListsKept
<1>. QED BY <1>3, <1>4, <1>5, <1>6, <1>7, <1>8 DEF IInv

\* A body of the next counter decrypts.
LEMMA DataDecrypts ==
  \A body, t, key, node : \A i \in Nat :
    body # <<>> /\ body[1] = t /\ Len(body) = t.size /\ IsData(t, key, i + 1, node) =>
      Decrypts(body, key, i) /\ body[1].node = node
<1>1. \A i \in Nat : (i + 1) - 1 = i OBVIOUS
<1>. QED BY <1>1, Zenon DEF Decrypts, IsData

LEMMA TailShift ==
  \A fs \in Seq(Token) : fs # <<>> =>
    /\ Len(fs) \in Nat \ {0} /\ Tail(fs) \in Seq(Token) /\ Len(Tail(fs)) = Len(fs) - 1
    /\ \A i \in 1..(Len(fs) - 1) : Tail(fs)[i] = fs[i + 1]
<1>1. SUFFICES ASSUME NEW fs \in Seq(Token), fs # <<>>
               PROVE  /\ Len(fs) \in Nat \ {0} /\ Tail(fs) \in Seq(Token)
                      /\ Len(Tail(fs)) = Len(fs) - 1
                      /\ \A i \in 1..(Len(fs) - 1) : Tail(fs)[i] = fs[i + 1]
  OBVIOUS
<1>2. Len(fs) \in Nat /\ Len(fs) # 0 BY <1>1, EmptySeq, LenProperties
<1>3. /\ Tail(fs) \in Seq(Token) /\ Len(Tail(fs)) = Len(fs) - 1
      /\ \A i \in 1..Len(Tail(fs)) : Tail(fs)[i] = fs[i + 1]
  BY <1>1, HeadTailProperties
<1>. QED BY <1>2, <1>3

LEMMA YieldStep ==
  ASSUME SizesFit, IInv, Yield
  PROVE  IInv'
<1>0. Typed /\ Stage /\ Tasks /\ UpInv /\ DownInv /\ Lists BY DEF IInv
<1>1. /\ reader = "decoding" /\ Complete(inbuf)
      /\ inbuf' = AfterFirst(inbuf) /\ read_counter' = read_counter + 1
      /\ Decrypts(FirstFrame(inbuf), keys.read, read_counter) =>
           read' = Append(read, FirstFrame(inbuf)[1].node) /\ reader' = "decoding"
      /\ UNCHANGED <<task, frame, lock, mutex, calls>>
      /\ UNCHANGED <<phase, keys, intro_sent, write_counter, closing, up, written>>
      /\ UNCHANGED <<server, down, heard, spoken>>
  BY DEF Yield, AfterYield, outbound, sending, far
<1>2. /\ phase = "transport" /\ server.state \in {"finish", "transport"}
      /\ keys = Reply.keys /\ read_counter = Len(read)
  BY <1>0, <1>1 DEF Stage
<1>3. PICK fs \in Seq(Token) : DownIs(fs) /\ Carries(inbuf \o down, fs)
  BY <1>0, <1>2 DEF DownInv
<1>4. inbuf \in Seq(Symbol) /\ down \in Seq(Symbol) BY <1>0 DEF Typed
<1>5. /\ fs # <<>> /\ fs[1] \in Token
      /\ FirstFrame(inbuf)[1] = fs[1] /\ Len(FirstFrame(inbuf)) = fs[1].size
      /\ FirstFrame(inbuf) # <<>> /\ AfterFirst(inbuf) \in Seq(Symbol)
      /\ Carries(AfterFirst(inbuf) \o down, Tail(fs))
  <2>1. Complete(inbuf) /\ Carries(inbuf \o down, fs) BY <1>1, <1>3
  <2>. QED BY <1>4, <2>1, FirstToken, Zenon
<1>. DEFINE r == Len(read)
            n == Len(fs)
            m == Len(spoken)
<1>6. r \in Nat /\ m \in Nat /\ read \in Seq(1..MaxFrames) /\ spoken \in Seq(1..MaxFrames)
  BY <1>0 DEF Typed
<1>7. PICK ds \in Seq(Token) :
        /\ ds = Tail(fs) /\ n \in Nat \ {0} /\ Len(ds) = n - 1
        /\ \A i \in 1..(n - 1) : ds[i] = fs[i + 1]
  BY <1>5, TailShift
<1>8. /\ r + n = m
      /\ \A i \in 1..n : IsData(fs[i], Reply.keys.read, r + i, r + i)
  BY <1>2, <1>3 DEF DownIs
<1>9. /\ r <= m /\ (\A i \in 1..r : read[i] = spoken[i])
      /\ \A i \in 1..m : spoken[i] = i
  BY <1>0 DEF Lists
<1>. HIDE DEF r, n, m
<1>10. r + 1 \in 1..m /\ 1 \in 1..n BY <1>6, <1>7, <1>8
<1>11. /\ Decrypts(FirstFrame(inbuf), keys.read, r)
       /\ FirstFrame(inbuf)[1].node = r + 1
  <2>1. IsData(fs[1], Reply.keys.read, r + 1, r + 1) BY <1>8, <1>10
  <2>2. /\ Decrypts(FirstFrame(inbuf), Reply.keys.read, r)
        /\ FirstFrame(inbuf)[1].node = r + 1
    BY <1>5, <1>6, <2>1, DataDecrypts, Zenon
  <2>3. keys.read = Reply.keys.read BY <1>2
  <2>. QED BY <2>2, <2>3
<1>12. read' = Append(read, r + 1) /\ reader' = "decoding"
  BY <1>1, <1>2, <1>11 DEF r
<1>13. r + 1 \in 1..MaxFrames
  <2>1. spoken[r + 1] = r + 1 BY <1>9, <1>10
  <2>2. spoken[r + 1] \in 1..MaxFrames BY <1>6, <1>10, ElementOfSeq DEF m
  <2>. QED BY <2>1, <2>2
<1>14. /\ read' \in Seq(1..MaxFrames) /\ Len(read') = r + 1 /\ read'[r + 1] = r + 1
       /\ \A i \in 1..r : read'[i] = read[i]
  BY <1>6, <1>12, <1>13, AppendProperties DEF r
<1>15. Typed'
  <2>1. read_counter' \in Nat BY <1>0, <1>1 DEF Typed
  <2>. QED BY <1>0, <1>1, <1>5, <1>12, <1>14, <2>1 DEF Typed
<1>16. Stage'
  <2>1. read_counter' = Len(read') BY <1>1, <1>2, <1>14 DEF r
  <2>. QED BY <1>0, <1>1, <1>2, <1>12, <2>1 DEF Stage
<1>17. Tasks' BY <1>0, <1>1, TasksKept
<1>18. UpInv' BY <1>0, <1>1, UpKept
<1>19. DownInv'
  <2>1. Len(read') + Len(ds) = Len(spoken')
    <3>1. (r + 1) + (n - 1) = m BY <1>6, <1>7, <1>8
    <3>. QED BY <1>1, <1>7, <1>14, <3>1 DEF m
  <2>2. ASSUME NEW i \in 1..Len(ds)
        PROVE  IsData(ds[i], Reply.keys.read, Len(read') + i, Len(read') + i)
    <3>1. i \in 1..(n - 1) BY <1>7
    <3>2. i + 1 \in 1..n /\ r + (i + 1) = (r + 1) + i BY <1>6, <1>7, <3>1
    <3>3. IsData(fs[i + 1], Reply.keys.read, r + (i + 1), r + (i + 1)) BY <1>8, <3>2
    <3>. QED BY <1>7, <1>14, <3>1, <3>2, <3>3
  <2>3. DownIs(ds)' BY <1>1, <1>2, <2>1, <2>2 DEF DownIs
  <2>4. Carries(inbuf' \o down', ds) BY <1>1, <1>5, <1>7
  <2>. QED BY <2>3, <2>4 DEF DownInv
<1>20. Lists'
  <2>1. r + 1 <= m BY <1>6, <1>10
  <2>2. ASSUME NEW i \in 1..(r + 1) PROVE read'[i] = spoken[i]
    <3>1. CASE i \in 1..r BY <1>9, <1>14, <3>1
    <3>2. CASE i = r + 1 BY <1>9, <1>10, <1>14, <3>2
    <3>. QED BY <1>6, <3>1, <3>2
  <2>. QED BY <1>0, <1>1, <1>14, <2>1, <2>2 DEF Lists, m
<1>. QED BY <1>15, <1>16, <1>17, <1>18, <1>19, <1>20 DEF IInv

-----------------------------------------------------------------------------
\* The server.

LEMMA ServerHearsStep ==
  ASSUME IInv, NEW k \in 1..Len(up), ServerHears(k)
  PROVE  IInv'
<1>0. Typed /\ Stage /\ Tasks /\ UpInv /\ DownInv /\ Lists BY DEF IInv
<1>1. /\ server' = [server EXCEPT !.in = @ \o SubSeq(up, 1, k)]
      /\ up' = SubSeq(up, k + 1, Len(up))
      /\ UNCHANGED <<task, frame, lock, mutex, calls>>
      /\ UNCHANGED <<phase, keys, intro_sent, write_counter, closing, written>>
      /\ UNCHANGED <<inbuf, read_counter, reader, read, down, heard, spoken>>
  BY DEF ServerHears, inbound, sending
<1>2. server.in \in Seq(Symbol) /\ up \in Seq(Symbol) /\ server \in Server
  BY <1>0 DEF Typed, Server
<1>. DEFINE in2 == server.in \o SubSeq(up, 1, k)
<1>3. in2 \in Seq(Symbol) /\ up' \in Seq(Symbol) /\ in2 \o up' = server.in \o up
  BY <1>1, <1>2, Pieces, Zenon
<1>4. server' \in Server BY <1>1, <1>2, <1>3 DEF Server
<1>5. /\ server'.in = in2 /\ server'.state = server.state
      /\ server'.counter = server.counter /\ server'.certificate = server.certificate
      /\ server'.noise = server.noise /\ server'.keys = server.keys
  BY <1>1, <1>2 DEF Server
<1>. HIDE DEF in2
<1>6. phase # "hello" /\ up # <<>>
  <2>1. up # <<>> BY <1>2
  <2>. QED BY <1>0, <2>1 DEF Stage
<1>7. Typed' BY <1>0, <1>1, <1>3, <1>4 DEF Typed
<1>8. Stage' BY <1>0, <1>1, <1>5, <1>6 DEF Stage
<1>9. Tasks' BY <1>0, <1>1, TasksKept
<1>10. UpInv'
  <2>1. PICK fs \in Seq(Token) : UpIs(fs) /\ Carries(Upward, fs)
    BY <1>0, <1>6 DEF UpInv
  <2>2. Upward' = Upward BY <1>3, <1>5 DEF Upward
  <2>3. UpIs(fs)' BY <1>1, <1>5, <2>1 DEF UpIs
  <2>4. (server.state = "intro" => server.in \o up # <<>>)'
    BY <1>0, <1>3, <1>5, <1>6 DEF UpInv
  <2>. QED BY <2>1, <2>2, <2>3, <2>4 DEF UpInv
<1>11. DownInv'
  <2>1. \A fs : DownIs(fs)' <=> DownIs(fs) BY <1>1, <1>5 DEF DownIs
  <2>. QED BY <1>0, <1>1, <1>5, <2>1 DEF DownInv
<1>12. Lists' BY <1>0, <1>1, ListsKept
<1>. QED BY <1>7, <1>8, <1>9, <1>10, <1>11, <1>12 DEF IInv

\* The first element of a stream is that of its first part.
LEMMA TailOfConcat ==
  \A a, b \in Seq(Symbol) : a # <<>> => Tail(a) \in Seq(Symbol) /\ Tail(a \o b) = Tail(a) \o b
<1>1. SUFFICES ASSUME NEW a \in Seq(Symbol), NEW b \in Seq(Symbol), a # <<>>
               PROVE  Tail(a) \in Seq(Symbol) /\ Tail(a \o b) = Tail(a) \o b
  OBVIOUS
<1>2. Len(a) \in Nat \ {0} /\ Len(b) \in Nat BY <1>1, EmptySeq, LenProperties
<1>3. /\ Tail(a) \in Seq(Symbol) /\ Len(Tail(a)) = Len(a) - 1
      /\ \A i \in 1..(Len(a) - 1) : Tail(a)[i] = a[i + 1]
  BY <1>1, HeadTailProperties
<1>4. /\ a \o b \in Seq(Symbol) /\ Len(a \o b) = Len(a) + Len(b)
      /\ \A i \in 1..Len(a) + Len(b) :
           (a \o b)[i] = IF i <= Len(a) THEN a[i] ELSE b[i - Len(a)]
  BY ConcatProperties
<1>5. /\ Tail(a) \o b \in Seq(Symbol) /\ Len(Tail(a) \o b) = (Len(a) - 1) + Len(b)
      /\ \A i \in 1..(Len(a) - 1) + Len(b) :
           (Tail(a) \o b)[i] = IF i <= Len(a) - 1 THEN Tail(a)[i] ELSE b[i - (Len(a) - 1)]
  BY <1>3, ConcatProperties
<1>6. a \o b # <<>> BY <1>2, <1>4
<1>7. /\ Tail(a \o b) \in Seq(Symbol) /\ Len(Tail(a \o b)) = (Len(a) + Len(b)) - 1
      /\ \A i \in 1..(Len(a) + Len(b)) - 1 : Tail(a \o b)[i] = (a \o b)[i + 1]
  BY <1>4, <1>6, HeadTailProperties
<1>8. \A i \in 1..(Len(a) + Len(b)) - 1 : Tail(a \o b)[i] = (Tail(a) \o b)[i]
  <2>1. SUFFICES ASSUME NEW i \in 1..(Len(a) + Len(b)) - 1
                 PROVE  (a \o b)[i + 1] = (Tail(a) \o b)[i]
    BY <1>7
  <2>2. /\ i + 1 \in 1..Len(a) + Len(b) /\ i \in 1..(Len(a) - 1) + Len(b)
    BY <1>2
  <2>3. CASE i <= Len(a) - 1
    <3>1. i + 1 <= Len(a) /\ i \in 1..(Len(a) - 1) BY <1>2, <2>3
    <3>. QED BY <1>3, <1>4, <1>5, <2>2, <2>3, <3>1
  <2>4. CASE ~(i <= Len(a) - 1)
    <3>1. ~(i + 1 <= Len(a)) /\ (i + 1) - Len(a) = i - (Len(a) - 1) BY <1>2, <2>4
    <3>. QED BY <1>4, <1>5, <2>2, <2>4, <3>1
  <2>. QED BY <2>3, <2>4
<1>9. Len(Tail(a \o b)) = Len(Tail(a) \o b) BY <1>2, <1>5, <1>7
<1>10. Tail(a \o b) = Tail(a) \o b BY <1>5, <1>7, <1>8, <1>9, SeqEqual
<1>. QED BY <1>3, <1>10

LEMMA ServerIntroStep ==
  ASSUME IInv, ServerIntro
  PROVE  IInv'
<1>0. Typed /\ Stage /\ Tasks /\ UpInv /\ DownInv /\ Lists BY DEF IInv
<1>1. /\ server.state = "intro" /\ server.in # <<>>
      /\ server' = [server EXCEPT !.in = Tail(@), !.state = "hello"]
      /\ UNCHANGED <<task, frame, lock, mutex, calls>>
      /\ UNCHANGED <<phase, keys, intro_sent, write_counter, closing, up, written>>
      /\ UNCHANGED <<inbuf, read_counter, reader, read, down, heard, spoken>>
  BY DEF ServerIntro, outbound, inbound, sending
<1>2. server.in \in Seq(Symbol) /\ up \in Seq(Symbol) /\ server \in Server
  BY <1>0 DEF Typed, Server
<1>3. phase = "answer" BY <1>0, <1>1 DEF Typed, Stage
<1>4. Tail(server.in) \in Seq(Symbol) /\ Tail(server.in \o up) = Tail(server.in) \o up
  BY <1>1, <1>2, TailOfConcat
<1>5. /\ server' \in Server
      /\ server'.in = Tail(server.in) /\ server'.state = "hello"
      /\ server'.counter = server.counter /\ server'.certificate = server.certificate
  BY <1>1, <1>2, <1>4 DEF Server
<1>6. Typed' BY <1>0, <1>1, <1>5 DEF Typed
<1>7. Stage' BY <1>0, <1>1, <1>3, <1>5 DEF Stage
<1>8. Tasks' BY <1>0, <1>1, TasksKept
<1>9. UpInv'
  <2>1. PICK fs \in Seq(Token) : UpIs(fs) /\ Carries(Upward, fs)
    BY <1>0, <1>3 DEF UpInv
  <2>2. Upward' = Upward BY <1>1, <1>4, <1>5 DEF Upward
  <2>3. UpIs(fs)' BY <1>1, <1>5, <2>1 DEF UpIs
  <2>. QED BY <1>5, <2>1, <2>2, <2>3 DEF UpInv
<1>10. DownInv' BY <1>5 DEF DownInv
<1>11. Lists' BY <1>0, <1>1, ListsKept
<1>. QED BY <1>6, <1>7, <1>8, <1>9, <1>10, <1>11 DEF IInv

\* A frame behind a stream, as the server puts it together.
LEMMA Behind ==
  ASSUME SizesFit, NEW key, NEW counter, NEW node, NEW n \in Nat \ {0},
         TokenOf(key, counter, node, n) \in Token, NEW s \in Seq(Symbol)
  PROVE  s \o Prefix(n) \o Body(key, counter, node, n)
           = s \o FrameOf(TokenOf(key, counter, node, n))
<1>. DEFINE b == Body(key, counter, node, n)
            t == TokenOf(key, counter, node, n)
<1>1. Prefix(n) \o b = FrameOf(t) /\ b = BodyOf(t) BY Bodies
<1>2. Nat \subseteq Symbol /\ t \in Symbol /\ Fits(t) BY Tokens
<1>3. t.size = n BY DEF TokenOf
<1>. HIDE DEF b, t
<1>4. b \in Seq(Symbol) BY <1>1, <1>2, <1>3 DEF BodyOf
<1>5. Prefix(n) \in Seq(Symbol)
  <2>1. Prefix(n) \in Seq(Nat) BY <1>2, <1>3, Digits DEF Fits
  <2>. QED BY <1>2, <2>1, SeqMonotonic
<1>6. s \o Prefix(n) \o b = s \o (Prefix(n) \o b) BY <1>4, <1>5, Regroup
<1>. QED BY <1>1, <1>6 DEF b, t

\* What the server finds in the first frame, and what is left.
LEMMA ServerFinds ==
  ASSUME SizesFit, IInv, server.state # "intro", Complete(server.in)
  PROVE  /\ phase # "hello" /\ server.in \in Seq(Symbol) /\ up \in Seq(Symbol)
         /\ AfterFirst(server.in) \in Seq(Symbol)
         /\ \E fs, ds \in Seq(Token) :
              /\ UpIs(fs) /\ Len(fs) \in Nat \ {0} /\ fs[1] \in Token
              /\ FirstFrame(server.in)[1] = fs[1]
              /\ Len(FirstFrame(server.in)) = fs[1].size /\ FirstFrame(server.in) # <<>>
              /\ Len(ds) = Len(fs) - 1 /\ \A i \in 1..(Len(fs) - 1) : ds[i] = fs[i + 1]
              /\ Carries(AfterFirst(server.in) \o up, ds)
<1>0. Typed /\ Stage /\ UpInv BY DEF IInv
<1>1. phase # "hello" BY <1>0 DEF Stage
<1>2. server.in \in Seq(Symbol) /\ up \in Seq(Symbol) BY <1>0 DEF Typed, Server
<1>3. PICK fs \in Seq(Token) : UpIs(fs) /\ Carries(server.in \o up, fs)
  BY <1>0, <1>1 DEF UpInv, Upward
<1>4. /\ fs # <<>> /\ fs[1] \in Token
      /\ FirstFrame(server.in)[1] = fs[1] /\ Len(FirstFrame(server.in)) = fs[1].size
      /\ FirstFrame(server.in) # <<>> /\ AfterFirst(server.in) \in Seq(Symbol)
      /\ Carries(AfterFirst(server.in) \o up, Tail(fs))
  BY <1>2, <1>3, FirstToken, Zenon
<1>5. PICK ds \in Seq(Token) :
        /\ ds = Tail(fs) /\ Len(fs) \in Nat \ {0} /\ Len(ds) = Len(fs) - 1
        /\ \A i \in 1..(Len(fs) - 1) : ds[i] = fs[i + 1]
  BY <1>4, TailShift
<1>. QED BY <1>1, <1>2, <1>3, <1>4, <1>5

LEMMA ServerHelloStep ==
  ASSUME SizesFit, IInv, ServerReads, server.state = "hello"
  PROVE  IInv'
<1>0. Typed /\ Stage /\ Tasks /\ UpInv /\ DownInv /\ Lists BY DEF IInv
<1>. DEFINE body == FirstFrame(server.in)
            answer == Noise!Hello(body[1].node, "server_e", "server_static",
                                  server.certificate)
            g == Greeting(server.certificate)
<1>1. /\ Complete(server.in)
      /\ server' = [[server EXCEPT !.in = AfterFirst(@)]
                      EXCEPT !.state = "finish", !.noise = answer.noise]
      /\ down' = down \o Prefix(2) \o Raw(answer.hello, 2)
      /\ UNCHANGED <<task, frame, lock, mutex, calls>>
      /\ UNCHANGED <<phase, keys, intro_sent, write_counter, closing, up, written>>
      /\ UNCHANGED <<inbuf, read_counter, reader, read, spoken, heard>>
  BY DEF ServerReads, outbound, inbound, sending
<1>2. PICK fs \in Seq(Token), ds \in Seq(Token) :
        /\ UpIs(fs) /\ FirstFrame(server.in)[1] = fs[1] /\ Len(ds) = Len(fs) - 1
        /\ Carries(AfterFirst(server.in) \o up, ds)
  BY <1>1, ServerFinds
<1>3. /\ server \in Server /\ server.in \in Seq(Symbol) /\ AfterFirst(server.in) \in Seq(Symbol)
      /\ server.certificate \in Certificates /\ down = <<>> /\ inbuf = <<>>
      /\ heard = <<>> /\ spoken = <<>> /\ server.counter = 0
  BY <1>0, <1>1, ServerFinds DEF Typed, Server, Stage
<1>4. phase = "answer"
  <2>1. phase # "hello" BY <1>1, ServerFinds
  <2>. QED BY <1>0, <2>1 DEF Typed, Stage
<1>5. Len(fs) = 1 /\ fs[1] = HelloToken BY <1>2 DEF UpIs
<1>6. answer = g BY <1>2, <1>5 DEF HelloToken, TokenOf, Greeting
<1>. HIDE DEF answer, body
<1>7. /\ server' \in Server
      /\ server'.in = AfterFirst(server.in) /\ server'.state = "finish"
      /\ server'.noise = g.noise /\ server'.certificate = server.certificate
      /\ server'.counter = server.counter
  BY <1>1, <1>3, <1>6 DEF Server
<1>. DEFINE t == AnswerToken(server.certificate)
            F == FrameOf(t)
<1>8. /\ t \in Token /\ F \in Seq(Symbol) /\ <<t>> \in Seq(Token) /\ Carries(F, <<t>>)
  BY <1>3, SpecialTokens, Single
<1>9. down' = F
  <2>1. <<>> \in Seq(Symbol) /\ 2 \in Nat \ {0} OBVIOUS
  <2>2. \A x \in Seq(Symbol) : \A n \in Nat \ {0} :
          TokenOf(<<>>, 0, g.hello, n) \in Token =>
            x \o Prefix(n) \o Body(<<>>, 0, g.hello, n) = x \o FrameOf(TokenOf(<<>>, 0, g.hello, n))
    BY Behind
  <2>3. t = TokenOf(<<>>, 0, g.hello, 2) BY DEF AnswerToken
  <2>4. <<>> \o F = F BY <1>8, ConcatEmptySeq
  <2>5. down' = <<>> \o Prefix(2) \o Body(<<>>, 0, g.hello, 2)
    BY <1>1, <1>3, <1>6 DEF Raw
  <2>. HIDE DEF g
  <2>. QED BY <1>8, <2>1, <2>2, <2>3, <2>4, <2>5
<1>10. PICK as \in Seq(Token) : as = <<t>> /\ Carries(F, as) BY <1>8
<1>11. Len(as) = 1 /\ as[1] = t BY <1>10
<1>. HIDE DEF F
<1>12. Typed' BY <1>0, <1>1, <1>7, <1>8, <1>9 DEF Typed
<1>13. Stage' BY <1>0, <1>1, <1>4, <1>7 DEF Stage
<1>14. Tasks' BY <1>0, <1>1, TasksKept
<1>15. UpInv'
  <2>1. UpIs(ds)' BY <1>1, <1>2, <1>4, <1>5, <1>7 DEF UpIs
  <2>. QED BY <1>1, <1>2, <1>7, <2>1 DEF UpInv, Upward
<1>16. DownInv'
  <2>1. DownIs(as)' BY <1>1, <1>4, <1>7, <1>11 DEF DownIs
  <2>2. <<>> \o F = F BY <1>8, ConcatEmptySeq
  <2>3. Carries(inbuf' \o down', as) BY <1>1, <1>3, <1>9, <1>10, <2>2
  <2>. QED BY <2>1, <2>3 DEF DownInv
<1>17. Lists' BY <1>0, <1>1, ListsKept
<1>. QED BY <1>12, <1>13, <1>14, <1>15, <1>16, <1>17 DEF IInv

LEMMA ServerFinishStep ==
  ASSUME SizesFit, IInv, ServerReads, server.state = "finish"
  PROVE  IInv'
<1>0. Typed /\ Stage /\ Tasks /\ UpInv /\ DownInv /\ Lists BY DEF IInv
<1>1. Complete(server.in) BY DEF ServerReads
<1>2. PICK fs \in Seq(Token), ds \in Seq(Token) :
        /\ UpIs(fs) /\ FirstFrame(server.in)[1] = fs[1] /\ Len(fs) \in Nat \ {0}
        /\ Len(ds) = Len(fs) - 1 /\ \A i \in 1..(Len(fs) - 1) : ds[i] = fs[i + 1]
        /\ Carries(AfterFirst(server.in) \o up, ds)
  BY <1>1, ServerFinds
<1>3. phase # "hello" BY <1>1, ServerFinds
<1>4. phase \in {"finish", "transport"}
  <2>1. phase \notin {"answer", "failed"} BY <1>2 DEF UpIs
  <2>. QED BY <1>0, <1>3, <2>1 DEF Typed
<1>5. /\ server.certificate = "certificate" /\ server.noise = Greeting("certificate").noise
      /\ heard = <<>> /\ spoken = <<>> /\ server.counter = 0
      /\ server \in Server /\ AfterFirst(server.in) \in Seq(Symbol)
  BY <1>0, <1>1, <1>4, ServerFinds DEF Stage, Typed
<1>6. /\ Len(fs) = Len(written) + 1 /\ fs[1] = FinishToken
      /\ \A i \in 1..Len(written) : IsData(fs[i + 1], Reply.keys.write, i, written[i])
  BY <1>2, <1>4 DEF UpIs
<1>. DEFINE finished == Noise!Finished(server.noise, "server_e", FirstFrame(server.in)[1].node)
<1>7. finished = {Reply.keys}
  <2>1. FirstFrame(server.in)[1].node = Reply.finish
    BY <1>2, <1>6 DEF FinishToken, TokenOf
  <2>. QED BY <1>5, <2>1, Agreed
<1>8. /\ server' = [[server EXCEPT !.in = AfterFirst(@)]
                      EXCEPT !.state = "transport", !.noise = <<>>,
                             !.keys = CHOOSE k \in finished : TRUE]
      /\ UNCHANGED <<task, frame, lock, mutex, calls>>
      /\ UNCHANGED <<phase, keys, intro_sent, write_counter, closing, up, written>>
      /\ UNCHANGED <<inbuf, read_counter, reader, read, spoken, heard, down>>
  <2>1. finished # {} BY <1>7
  <2>. QED BY <2>1 DEF ServerReads, outbound, inbound, sending
<1>9. (CHOOSE k \in finished : TRUE) = Reply.keys BY <1>7
<1>. HIDE DEF finished
<1>10. /\ server' \in Server
       /\ server'.in = AfterFirst(server.in) /\ server'.state = "transport"
       /\ server'.keys = Reply.keys /\ server'.certificate = server.certificate
       /\ server'.counter = server.counter
  BY <1>5, <1>8, <1>9 DEF Server
<1>11. Typed' BY <1>0, <1>8, <1>10 DEF Typed
<1>12. Stage' BY <1>0, <1>4, <1>5, <1>8, <1>10 DEF Stage
<1>13. Tasks' BY <1>0, <1>8, TasksKept
<1>14. UpInv'
  <2>. DEFINE w == Len(written)
  <2>1. w \in Nat BY <1>0 DEF Typed
  <2>2. Len(ds) = w BY <1>2, <1>6, <2>1
  <2>3. Len(heard) = 0 BY <1>5
  <2>4. ASSUME NEW i \in 1..w
        PROVE  IsData(ds[i], Reply.keys.write, 0 + i, written[0 + i])
    <3>1. i \in 1..(Len(fs) - 1) /\ 0 + i = i BY <1>6, <2>1
    <3>. QED BY <1>2, <1>6, <3>1
  <2>5. UpIs(ds)'
    <3>1. Len(heard') + Len(ds) = Len(written') BY <1>8, <2>1, <2>2, <2>3
    <3>2. \A i \in 1..Len(ds) :
            IsData(ds[i], Reply.keys.write, Len(heard') + i, written'[Len(heard') + i])
      BY <1>8, <2>2, <2>3, <2>4
    <3>. QED BY <1>10, <3>1, <3>2 DEF UpIs
  <2>. QED BY <1>2, <1>8, <1>10, <2>5 DEF UpInv, Upward
<1>15. DownInv'
  <2>1. \A gs : DownIs(gs)' <=> DownIs(gs) BY <1>8, <1>10 DEF DownIs
  <2>2. phase # "failed" BY <1>4
  <2>. QED BY <1>0, <1>8, <1>10, <2>1, <2>2 DEF DownInv
<1>16. Lists' BY <1>0, <1>8, ListsKept
<1>. QED BY <1>11, <1>12, <1>13, <1>14, <1>15, <1>16 DEF IInv

LEMMA ServerDataStep ==
  ASSUME SizesFit, IInv, ServerReads, server.state = "transport"
  PROVE  IInv'
<1>0. Typed /\ Stage /\ Tasks /\ UpInv /\ DownInv /\ Lists BY DEF IInv
<1>1. Complete(server.in) BY DEF ServerReads
<1>2. PICK fs \in Seq(Token), ds \in Seq(Token) :
        /\ UpIs(fs) /\ FirstFrame(server.in)[1] = fs[1] /\ Len(fs) \in Nat \ {0}
        /\ Len(FirstFrame(server.in)) = fs[1].size /\ FirstFrame(server.in) # <<>>
        /\ Len(ds) = Len(fs) - 1 /\ \A i \in 1..(Len(fs) - 1) : ds[i] = fs[i + 1]
        /\ Carries(AfterFirst(server.in) \o up, ds)
  BY <1>1, ServerFinds
<1>3. /\ server.keys = Reply.keys /\ server.counter = Len(heard)
      /\ server \in Server /\ AfterFirst(server.in) \in Seq(Symbol)
      /\ phase \in {"finish", "transport"}
  BY <1>0, <1>1, ServerFinds DEF Stage, Typed
<1>. DEFINE h == Len(heard)
            n == Len(fs)
            w == Len(written)
<1>4. h \in Nat /\ n \in Nat \ {0} /\ w \in Nat
      /\ heard \in Seq(1..MaxSends) /\ written \in Seq(1..MaxSends)
  BY <1>0, <1>2 DEF Typed
<1>5. /\ h + n = w
      /\ \A i \in 1..n : IsData(fs[i], Reply.keys.write, h + i, written[h + i])
  BY <1>2 DEF UpIs
<1>6. h <= w /\ \A i \in 1..h : heard[i] = written[i] BY <1>0 DEF Lists
<1>. HIDE DEF h, n, w
<1>7. h + 1 \in 1..w /\ 1 \in 1..n BY <1>4, <1>5
<1>8. /\ Decrypts(FirstFrame(server.in), server.keys.write, server.counter)
      /\ FirstFrame(server.in)[1].node = written[h + 1]
  <2>1. IsData(fs[1], Reply.keys.write, h + 1, written[h + 1]) BY <1>5, <1>7
  <2>2. /\ Decrypts(FirstFrame(server.in), Reply.keys.write, h)
        /\ FirstFrame(server.in)[1].node = written[h + 1]
    <3>1. /\ FirstFrame(server.in) # <<>> /\ FirstFrame(server.in)[1] = fs[1]
          /\ Len(FirstFrame(server.in)) = fs[1].size /\ h \in Nat
      BY <1>2, <1>4
    <3>. QED BY <2>1, <3>1, DataDecrypts, Zenon
  <2>3. server.keys.write = Reply.keys.write /\ server.counter = h BY <1>3 DEF h
  <2>. QED BY <2>2, <2>3
<1>9. /\ server' = [[server EXCEPT !.in = AfterFirst(@)] EXCEPT !.counter = @ + 1]
      /\ heard' = Append(heard, written[h + 1])
      /\ UNCHANGED <<task, frame, lock, mutex, calls>>
      /\ UNCHANGED <<phase, keys, intro_sent, write_counter, closing, up, written>>
      /\ UNCHANGED <<inbuf, read_counter, reader, read, spoken, down>>
  BY <1>8 DEF ServerReads, outbound, inbound, sending
<1>10. written[h + 1] \in 1..MaxSends BY <1>4, <1>7, ElementOfSeq DEF w
<1>11. /\ heard' \in Seq(1..MaxSends) /\ Len(heard') = h + 1 /\ heard'[h + 1] = written[h + 1]
       /\ \A i \in 1..h : heard'[i] = heard[i]
  BY <1>4, <1>9, <1>10, AppendProperties DEF h
<1>12. /\ server' \in Server
       /\ server'.in = AfterFirst(server.in) /\ server'.state = "transport"
       /\ server'.keys = server.keys /\ server'.certificate = server.certificate
       /\ server'.counter = h + 1
  <2>1. server.counter = h /\ server.counter + 1 \in Nat BY <1>3, <1>4 DEF h
  <2>. QED BY <1>3, <1>9, <2>1 DEF Server
<1>13. Typed' BY <1>0, <1>9, <1>11, <1>12 DEF Typed
<1>14. Stage' BY <1>0, <1>3, <1>9, <1>11, <1>12 DEF Stage
<1>15. Tasks' BY <1>0, <1>9, TasksKept
<1>16. UpInv'
  <2>1. Len(heard') + Len(ds) = Len(written')
    <3>1. (h + 1) + (n - 1) = w BY <1>4, <1>5
    <3>. QED BY <1>2, <1>9, <1>11, <3>1 DEF n, w
  <2>2. ASSUME NEW i \in 1..Len(ds)
        PROVE  IsData(ds[i], Reply.keys.write, Len(heard') + i, written'[Len(heard') + i])
    <3>1. i \in 1..(n - 1) BY <1>2 DEF n
    <3>2. i + 1 \in 1..n /\ h + (i + 1) = (h + 1) + i BY <1>4, <3>1
    <3>3. IsData(fs[i + 1], Reply.keys.write, h + (i + 1), written[h + (i + 1)]) BY <1>5, <3>2
    <3>4. ds[i] = fs[i + 1] BY <1>2, <3>1 DEF n
    <3>. QED BY <1>9, <1>11, <3>2, <3>3, <3>4
  <2>3. UpIs(ds)' BY <1>9, <1>12, <2>1, <2>2 DEF UpIs
  <2>. QED BY <1>2, <1>9, <1>12, <2>3 DEF UpInv, Upward
<1>17. DownInv'
  <2>1. \A gs : DownIs(gs)' <=> DownIs(gs) BY <1>9, <1>12 DEF DownIs
  <2>2. phase # "failed" BY <1>3
  <2>. QED BY <1>0, <1>9, <1>12, <2>1, <2>2 DEF DownInv
<1>18. Lists'
  <2>1. h + 1 <= w BY <1>4, <1>7
  <2>2. ASSUME NEW i \in 1..(h + 1) PROVE heard'[i] = written[i]
    <3>1. CASE i \in 1..h BY <1>6, <1>11, <3>1
    <3>2. CASE i = h + 1 BY <1>11, <3>2
    <3>. QED BY <1>4, <3>1, <3>2
  <2>. QED BY <1>0, <1>9, <1>11, <2>1, <2>2 DEF Lists, w
<1>. QED BY <1>13, <1>14, <1>15, <1>16, <1>17, <1>18 DEF IInv

LEMMA ServerSendsStep ==
  ASSUME SizesFit, IInv, NEW n \in Sizes, ServerSends(n)
  PROVE  IInv'
<1>0. Typed /\ Stage /\ Tasks /\ UpInv /\ DownInv /\ Lists BY DEF IInv
<1>. DEFINE m == Len(spoken)
            r == Len(read)
            t == TokenOf(Reply.keys.read, m, m + 1, n)
            F == FrameOf(t)
<1>1. /\ server.state = "transport" /\ m < MaxFrames
      /\ down' = down \o Prefix(n) \o Body(server.keys.read, m, m + 1, n)
      /\ spoken' = Append(spoken, m + 1)
      /\ UNCHANGED <<task, frame, lock, mutex, calls>>
      /\ UNCHANGED <<phase, keys, intro_sent, write_counter, closing, up, written>>
      /\ UNCHANGED <<inbuf, read_counter, reader, read, server, heard>>
  BY DEF ServerSends, outbound, inbound, sending
<1>2. phase \in {"finish", "transport"} /\ server.keys = Reply.keys
  BY <1>0, <1>1 DEF Typed, Stage
<1>3. /\ m \in Nat /\ r \in Nat /\ n \in Nat \ {0} /\ MaxFrames \in Nat
      /\ spoken \in Seq(1..MaxFrames) /\ down \in Seq(Symbol) /\ inbuf \in Seq(Symbol)
  BY <1>0, NoiseTransportAssumption DEF Typed
<1>4. t \in Token
  <2>1. m + 1 \in Nat BY <1>3
  <2>. QED BY <1>3, <2>1 DEF TokenOf, Token
<1>5. t.key = Reply.keys.read /\ t.counter = m /\ t.node = m + 1 BY DEF TokenOf
<1>6. F \in Seq(Symbol) BY <1>4, Single
<1>7. down' = down \o F
  <2>1. \A x \in Seq(Symbol) : \A key, counter, node : \A z \in Nat \ {0} :
          TokenOf(key, counter, node, z) \in Token =>
            x \o Prefix(z) \o Body(key, counter, node, z)
              = x \o FrameOf(TokenOf(key, counter, node, z))
    BY Behind
  <2>2. down' = down \o Prefix(n) \o Body(Reply.keys.read, m, m + 1, n) BY <1>1, <1>2
  <2>3. TokenOf(Reply.keys.read, m, m + 1, n) \in Token BY <1>4
  <2>4. down \in Seq(Symbol) /\ n \in Nat \ {0} BY <1>3
  <2>. HIDE DEF m
  <2>5. down \o Prefix(n) \o Body(Reply.keys.read, m, m + 1, n)
          = down \o FrameOf(TokenOf(Reply.keys.read, m, m + 1, n))
    BY <2>1, <2>3, <2>4, Zenon
  <2>. QED BY <2>2, <2>5
<1>. HIDE DEF F, t, m, r
<1>8. /\ down' \in Seq(Symbol) /\ inbuf \o down \in Seq(Symbol)
      /\ inbuf \o down' = (inbuf \o down) \o F
  <2>1. \A a, b, c \in Seq(Symbol) : /\ a \o b \in Seq(Symbol) /\ b \o c \in Seq(Symbol)
                                     /\ a \o (b \o c) = (a \o b) \o c
    BY Regroup
  <2>. QED BY <1>3, <1>6, <1>7, <2>1, Zenon
<1>9. PICK fs \in Seq(Token) : DownIs(fs) /\ Carries(inbuf \o down, fs)
  BY <1>0, <1>1, <1>2 DEF DownInv
<1>. DEFINE k == Len(fs)
<1>10. /\ k \in Nat /\ r + k = m
       /\ \A i \in 1..k : IsData(fs[i], Reply.keys.read, r + i, r + i)
  BY <1>2, <1>9, LenProperties DEF DownIs, r, m
<1>. HIDE DEF k
<1>11. PICK gs \in Seq(Token) : gs = Append(fs, t) /\ Carries((inbuf \o down) \o F, gs)
  <2>1. Nat \subseteq Symbol /\ \A x \in Token : Fits(x) /\ x \in Symbol BY Tokens
  <2>2. /\ Append(fs, t) \in Seq(Token)
        /\ Carries((inbuf \o down) \o FrameOf(t), Append(fs, t))
    BY <1>4, <1>8, <1>9, <2>1, Joined
  <2>. QED BY <2>2 DEF F
<1>12. Len(gs) = k + 1 /\ gs[k + 1] = t /\ \A i \in 1..k : gs[i] = fs[i]
  BY <1>11, AppendProperties DEF k
<1>13. m + 1 \in 1..MaxFrames BY <1>1, <1>3 DEF m
<1>14. /\ spoken' \in Seq(1..MaxFrames) /\ Len(spoken') = m + 1 /\ spoken'[m + 1] = m + 1
       /\ \A i \in 1..m : spoken'[i] = spoken[i]
  BY <1>1, <1>3, <1>13, AppendProperties DEF m
<1>15. Typed' BY <1>0, <1>1, <1>8, <1>14 DEF Typed
<1>16. Stage' BY <1>0, <1>1, <1>2 DEF Stage
<1>17. Tasks' BY <1>0, <1>1, TasksKept
<1>18. UpInv' BY <1>0, <1>1, UpKept
<1>19. DownInv'
  <2>1. Len(read') + Len(gs) = Len(spoken')
    <3>1. r + (k + 1) = m + 1 BY <1>3, <1>10
    <3>. QED BY <1>1, <1>12, <1>14, <3>1 DEF r
  <2>2. ASSUME NEW i \in 1..Len(gs)
        PROVE  IsData(gs[i], Reply.keys.read, Len(read') + i, Len(read') + i)
    <3>1. i \in 1..(k + 1) /\ Len(read') = r BY <1>1, <1>12 DEF r
    <3>2. CASE i \in 1..k BY <1>10, <1>12, <3>1, <3>2
    <3>3. CASE i = k + 1
      <4>1. r + i = m + 1 /\ (r + i) - 1 = m BY <1>3, <1>10, <3>3
      <4>2. gs[i] = t BY <1>12, <3>3
      <4>. QED BY <1>5, <3>1, <4>1, <4>2 DEF IsData
    <3>. QED BY <1>10, <3>1, <3>2, <3>3
  <2>3. DownIs(gs)' BY <1>1, <1>2, <2>1, <2>2 DEF DownIs
  <2>4. Carries(inbuf' \o down', gs) BY <1>1, <1>8, <1>11
  <2>. QED BY <2>3, <2>4 DEF DownInv
<1>20. Lists'
  <2>1. r <= m /\ (\A i \in 1..r : read[i] = spoken[i]) /\ \A i \in 1..m : spoken[i] = i
    BY <1>0 DEF Lists, r, m
  <2>2. r <= m + 1 /\ \A i \in 1..r : i \in 1..m BY <1>3, <2>1
  <2>3. \A i \in 1..r : read[i] = spoken'[i] BY <1>14, <2>1, <2>2
  <2>4. ASSUME NEW i \in 1..(m + 1) PROVE spoken'[i] = i
    <3>1. CASE i \in 1..m BY <1>14, <2>1, <3>1
    <3>2. CASE i = m + 1 BY <1>14, <3>2
    <3>. QED BY <1>3, <3>1, <3>2
  <2>. QED BY <1>0, <1>1, <1>14, <2>2, <2>3, <2>4 DEF Lists, r
<1>. QED BY <1>15, <1>16, <1>17, <1>18, <1>19, <1>20 DEF IInv

-----------------------------------------------------------------------------
\* All steps.

LEMMA SameInv == ASSUME IInv, UNCHANGED vars PROVE IInv'
<1>. USE DEF vars, outbound, inbound, far, sending
<1>1. Typed' BY DEF IInv, Typed
<1>2. Stage' BY DEF IInv, Stage
<1>3. Tasks' BY TasksKept DEF IInv
<1>4. UpInv' BY UpKept DEF IInv
<1>5. DownInv' BY DownKept DEF IInv
<1>6. Lists' BY ListsKept DEF IInv
<1>. QED BY <1>1, <1>2, <1>3, <1>4, <1>5, <1>6 DEF IInv

LEMMA StepInv ==
  ASSUME SizesFit
  PROVE  IInv /\ [Next]_vars => IInv'
<1>. SUFFICES ASSUME IInv, [Next]_vars PROVE IInv'
  OBVIOUS
<1>1. CASE Hello BY <1>1, HelloStep
<1>2. CASE Finish BY <1>2, FinishStep
<1>3. CASE \E k \in 1..Len(down) : Answer(k) BY <1>3, AnswerStep
<1>4. CASE \E s \in Senders :
             Call(s) \/ Encode(s) \/ Write(s) \/ Drained(s) \/ SendRaises(s) \/ Cancel(s)
  BY <1>4, CallStep, EncodeStep, WriteStep, LeavingSteps
<1>5. CASE Close \/ CloseDrained BY <1>5, ClosingSteps
<1>6. CASE \E k \in 1..Len(down) : Receive(k) BY <1>6, ReceiveStep
<1>7. CASE Yield BY <1>7, YieldStep
<1>8. CASE Exhausted BY <1>8, ExhaustedStep
<1>9. CASE \E k \in 1..Len(up) : ServerHears(k) BY <1>9, ServerHearsStep
<1>10. CASE ServerIntro BY <1>10, ServerIntroStep
<1>11. CASE ServerReads
  <2>1. server.state \in {"hello", "finish", "transport"}
    BY <1>11 DEF ServerReads, IInv, Typed, Server
  <2>. QED BY <1>11, <2>1, ServerHelloStep, ServerFinishStep, ServerDataStep
<1>12. CASE \E n \in Sizes : ServerSends(n) BY <1>12, ServerSendsStep
<1>13. CASE UNCHANGED vars BY <1>13, SameInv
<1>. QED BY <1>1, <1>2, <1>3, <1>4, <1>5, <1>6, <1>7, <1>8, <1>9, <1>10, <1>11, <1>12, <1>13
        DEF Next

LEMMA AlwaysInv == ASSUME SizesFit PROVE Spec => []IInv
<1>1. IInv /\ [Next]_vars => IInv' BY StepInv
<1>. QED BY <1>1, InitInv, PTL DEF Spec

-----------------------------------------------------------------------------
\* Client and server stay in step: the server decrypts every frame it reads and the
\* reader every frame it yields, with any number of tasks that send and are cancelled,
\* any pieces, and however the connection is closed (_send_node, decode_frames).
THEOREM InStepAlways ==
  ASSUME SizesFit
  PROVE  Spec => []InStep
<1>1. IInv => InStep BY DEF IInv, Typed, Server, InStep
<1>2. Spec => []IInv BY AlwaysInv
<1>. QED BY <1>1, <1>2, PTL

\* What is in the variables, and who holds the write lock and the library's mutex.
THEOREM TransportTyped ==
  ASSUME SizesFit
  PROVE  Spec => []TypeOK
<1>1. IInv => TypeOK
  <2>. SUFFICES ASSUME IInv PROVE TypeOK
    OBVIOUS
  <2>1. Typed /\ Tasks BY DEF IInv
  <2>2. MaxSends \in Nat BY NoiseTransportAssumption
  <2>3. server.counter \in Nat /\ server.dropped \in BOOLEAN BY <2>1 DEF Typed, Server
  <2>4. calls \in Nat BY <2>1, <2>2 DEF Typed
  <2>. QED BY <2>1, <2>3, <2>4 DEF Typed, Tasks, TypeOK
<1>2. Spec => []IInv BY AlwaysInv
<1>. QED BY <1>1, <1>2, PTL

-----------------------------------------------------------------------------
\* Each direction is an ordered channel.

\* What a step does to the list of nodes one end wrote and the list the other has.
LEMMA OutboundSteps ==
  ASSUME IInv, SizesFit, [Next]_vars
  PROVE  \/ UNCHANGED <<written, heard>>
         \/ \E x \in 1..MaxSends : Outbound!Send(x)
         \/ Outbound!Get
<1>0. Typed /\ Stage /\ Tasks /\ Lists BY DEF IInv
<1>1. CASE \E s \in Senders : Write(s)
  <2>1. PICK s \in Senders : Write(s) BY <1>1
  <2>2. PICK t \in Token : t.node \in 1..MaxSends /\ frame[s] = FrameOf(t)
    BY <1>0, <2>1 DEF Tasks, Write
  <2>3. written' = Append(written, t.node) BY <2>1, <2>2, LastOf DEF Write
  <2>4. UNCHANGED heard BY <2>1 DEF Write, far
  <2>. QED BY <2>2, <2>3, <2>4 DEF Outbound!Send
<1>2. CASE ServerReads
  <2>1. UNCHANGED written BY <1>2 DEF ServerReads, outbound
  <2>2. CASE UNCHANGED heard BY <2>1, <2>2
  <2>3. CASE heard' # heard
    <3>1. /\ server.state = "transport" /\ heard' = Append(heard, FirstFrame(server.in)[1].node)
          /\ Complete(server.in)
      BY <1>2, <2>3 DEF ServerReads
    <3>2. PICK fs \in Seq(Token) :
            /\ UpIs(fs) /\ FirstFrame(server.in)[1] = fs[1] /\ Len(fs) \in Nat \ {0}
      BY <3>1, ServerFinds
    <3>. DEFINE h == Len(heard)
                n == Len(fs)
                w == Len(written)
    <3>3. /\ h + n = w
          /\ \A i \in 1..n : IsData(fs[i], Reply.keys.write, h + i, written[h + i])
      BY <3>1, <3>2 DEF UpIs
    <3>4. h \in Nat /\ n \in Nat \ {0} /\ w \in Nat BY <1>0, <3>2 DEF Typed
    <3>. HIDE DEF h, n, w
    <3>5. 1 \in 1..n /\ h < w BY <3>3, <3>4
    <3>6. FirstFrame(server.in)[1].node = written[h + 1] BY <3>2, <3>3, <3>5 DEF IsData
    <3>. QED BY <2>1, <3>1, <3>5, <3>6 DEF Outbound!Get, h, w
  <2>. QED BY <2>2, <2>3
<1>3. CASE ~ServerReads /\ ~\E s \in Senders : Write(s)
  <2>. USE DEF outbound, inbound, far, sending
  <2>1. CASE Hello \/ Finish \/ Close \/ CloseDrained \/ Yield \/ Exhausted \/ ServerIntro
    BY <2>1 DEF Hello, Finish, Close, CloseDrained, Yield, Exhausted, ServerIntro
  <2>2. CASE \E k \in 1..Len(down) : Answer(k) \/ Receive(k) BY <2>2 DEF Answer, Receive
  <2>3. CASE \E k \in 1..Len(up) : ServerHears(k) BY <2>3 DEF ServerHears
  <2>4. CASE \E n \in Sizes : ServerSends(n) BY <2>4 DEF ServerSends
  <2>5. CASE \E s \in Senders : Call(s) \/ Encode(s) \/ Drained(s) \/ SendRaises(s) \/ Cancel(s)
    BY <2>5 DEF Call, Encode, Drained, SendRaises, Cancel, Leave
  <2>6. CASE UNCHANGED vars BY <2>6 DEF vars
  <2>. QED BY <1>3, <2>1, <2>2, <2>3, <2>4, <2>5, <2>6 DEF Next
<1>. QED BY <1>1, <1>2, <1>3

LEMMA InboundSteps ==
  ASSUME IInv, SizesFit, [Next]_vars
  PROVE  \/ UNCHANGED <<spoken, read>>
         \/ \E x \in 1..MaxFrames : Inbound!Send(x)
         \/ Inbound!Get
<1>0. Typed /\ Stage /\ Tasks /\ DownInv /\ Lists BY DEF IInv
<1>1. CASE \E n \in Sizes : ServerSends(n)
  <2>1. PICK n \in Sizes : ServerSends(n) BY <1>1
  <2>2. /\ Len(spoken) < MaxFrames /\ spoken' = Append(spoken, Len(spoken) + 1)
        /\ UNCHANGED read
    BY <2>1 DEF ServerSends, inbound
  <2>3. Len(spoken) + 1 \in 1..MaxFrames
    <3>1. Len(spoken) \in Nat /\ MaxFrames \in Nat
      BY <1>0, NoiseTransportAssumption DEF Typed
    <3>. QED BY <2>2, <3>1
  <2>. QED BY <2>2, <2>3 DEF Inbound!Send
<1>2. CASE Yield
  <2>1. UNCHANGED spoken BY <1>2 DEF Yield, far
  <2>2. CASE UNCHANGED read BY <2>1, <2>2
  <2>3. CASE read' # read
    <3>1. /\ reader = "decoding" /\ read' = Append(read, FirstFrame(inbuf)[1].node)
          /\ Complete(inbuf)
      BY <1>2, <2>3 DEF Yield
    <3>2. phase = "transport" /\ server.state \in {"finish", "transport"}
      BY <1>0, <3>1 DEF Stage
    <3>3. PICK fs \in Seq(Token) : DownIs(fs) /\ Carries(inbuf \o down, fs)
      BY <1>0, <3>2 DEF DownInv
    <3>4. fs # <<>> /\ FirstFrame(inbuf)[1] = fs[1]
      <4>1. inbuf \in Seq(Symbol) /\ down \in Seq(Symbol) BY <1>0 DEF Typed
      <4>2. Complete(inbuf) BY <3>1
      <4>. QED BY <3>3, <4>1, <4>2, FirstToken, Zenon
    <3>. DEFINE r == Len(read)
                n == Len(fs)
                m == Len(spoken)
    <3>5. /\ r + n = m
          /\ \A i \in 1..n : IsData(fs[i], Reply.keys.read, r + i, r + i)
      BY <3>2, <3>3 DEF DownIs
    <3>6. r \in Nat /\ n \in Nat \ {0} /\ m \in Nat
      BY <1>0, <3>4, TailShift DEF Typed
    <3>7. \A i \in 1..m : spoken[i] = i BY <1>0 DEF Lists
    <3>. HIDE DEF r, n, m
    <3>8. 1 \in 1..n /\ r < m /\ r + 1 \in 1..m BY <3>5, <3>6
    <3>9. FirstFrame(inbuf)[1].node = spoken[r + 1] BY <3>4, <3>5, <3>7, <3>8 DEF IsData
    <3>. QED BY <2>1, <3>1, <3>8, <3>9 DEF Inbound!Get, r, m
  <2>. QED BY <2>2, <2>3
<1>3. CASE ~Yield /\ ~\E n \in Sizes : ServerSends(n)
  <2>. USE DEF outbound, inbound, far, sending
  <2>1. CASE Hello \/ Finish \/ Close \/ CloseDrained \/ Exhausted \/ ServerIntro
    BY <2>1 DEF Hello, Finish, Close, CloseDrained, Exhausted, ServerIntro
  <2>2. CASE \E k \in 1..Len(down) : Answer(k) \/ Receive(k) BY <2>2 DEF Answer, Receive
  <2>3. CASE \E k \in 1..Len(up) : ServerHears(k) BY <2>3 DEF ServerHears
  <2>4. CASE ServerReads BY <2>4 DEF ServerReads
  <2>5. CASE \E s \in Senders :
               Call(s) \/ Encode(s) \/ Write(s) \/ Drained(s) \/ SendRaises(s) \/ Cancel(s)
    BY <2>5 DEF Call, Encode, Write, Drained, SendRaises, Cancel, Leave
  <2>6. CASE UNCHANGED vars BY <2>6 DEF vars
  <2>. QED BY <1>3, <2>1, <2>2, <2>3, <2>4, <2>5, <2>6 DEF Next
<1>. QED BY <1>1, <1>2, <1>3

\* What the server decrypts is what was written, in that order, each frame once
\* (the part of ImplementsOutbound without the fairness).
THEOREM OutboundInOrder ==
  ASSUME SizesFit
  PROVE  Spec => Outbound!Init /\ [][Outbound!Next]_<<written, heard>>
<1>1. Init => Outbound!Init BY DEF Init, Outbound!Init
<1>2. IInv /\ [Next]_vars => [Outbound!Next]_<<written, heard>>
  BY OutboundSteps DEF Outbound!Next
<1>3. Spec => []IInv BY AlwaysInv
<1>. QED BY <1>1, <1>2, <1>3, PTL DEF Spec

\* What the reader yields is what the server sent, in that order, each node once
\* (the part of ImplementsInbound without the fairness).
THEOREM InboundInOrder ==
  ASSUME SizesFit
  PROVE  Spec => Inbound!Init /\ [][Inbound!Next]_<<spoken, read>>
<1>1. Init => Inbound!Init BY DEF Init, Inbound!Init
<1>2. IInv /\ [Next]_vars => [Inbound!Next]_<<spoken, read>>
  BY InboundSteps DEF Inbound!Next
<1>3. Spec => []IInv BY AlwaysInv
<1>. QED BY <1>1, <1>2, <1>3, PTL DEF Spec

=============================================================================
