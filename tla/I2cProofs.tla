----------------------------- MODULE I2cProofs -----------------------------
(***************************************************************************)
(* The I2C controller as MCDrivers runs it: what goes over the bus, call   *)
(* by call, and the bring-up of the bridge, whatever faults the bus has.   *)
(***************************************************************************)
EXTENDS MCDrivers, TLAPS

----------------------------------------------------------------------------
\* The I2C controller.  Sequences of anything, and how they are put together.
IsSeq(s) == \E T : s \in Seq(T)

LEMMA SeqIs == ASSUME NEW s, IsSeq(s)
  PROVE Len(s) \in Nat /\ s = [i \in 1..Len(s) |-> s[i]] /\ (s = <<>> <=> Len(s) = 0)
BY DEF IsSeq

\* u is the elements of s and then those of t.
JoinOf(u, s, t) ==
  /\ IsSeq(u) /\ Len(u) = Len(s) + Len(t)
  /\ \A i \in 1..Len(s) : u[i] = s[i]
  /\ \A i \in 1..Len(t) : u[Len(s) + i] = t[i]
LEMMA Joins == ASSUME NEW s, NEW t, IsSeq(s), IsSeq(t) PROVE JoinOf(s \o t, s, t)
<1>1. PICK S : s \in Seq(S)
  BY DEF IsSeq
<1>2. PICK T : t \in Seq(T)
  BY DEF IsSeq
<1>3. PICK U : U = S \cup T
  OBVIOUS
<1>4. s \in Seq(U) /\ t \in Seq(U)
  BY <1>1, <1>2, <1>3
<1>5. s \o t \in Seq(U)
  BY <1>4
<1>. QED
  BY <1>4, <1>5 DEF IsSeq, JoinOf

\* u is the elements of s and then x.
LongerBy(u, s, x) ==
  /\ IsSeq(u) /\ Len(u) = Len(s) + 1
  /\ \A i \in 1..Len(s) : u[i] = s[i]
  /\ u[Len(s) + 1] = x
LEMMA Appends == ASSUME NEW s, IsSeq(s), NEW x PROVE LongerBy(Append(s, x), s, x)
<1>1. PICK S : s \in Seq(S)
  BY DEF IsSeq
<1>2. PICK U : U = S \cup {x}
  OBVIOUS
<1>3. s \in Seq(U) /\ x \in U
  BY <1>1, <1>2
<1>4. Append(s, x) \in Seq(U)
  BY <1>3
<1>. QED
  BY <1>3, <1>4 DEF IsSeq, LongerBy

LEMMA OneLong == ASSUME NEW x PROVE IsSeq(<<x>>) /\ Len(<<x>>) = 1 /\ <<x>>[1] = x
<1>1. <<x>> \in Seq({x})
  OBVIOUS
<1>. QED
  BY <1>1 DEF IsSeq

IsPair(u, x, y) == IsSeq(u) /\ Len(u) = 2 /\ u[1] = x /\ u[2] = y
LEMMA TwoLong == ASSUME NEW x, NEW y PROVE IsPair(<<x>> \o <<y>>, x, y)
<1>1. PICK s : s = <<x>>
  OBVIOUS
<1>2. PICK t : t = <<y>>
  OBVIOUS
<1>3. PICK u : u = s \o t
  OBVIOUS
<1>4. IsSeq(s) /\ Len(s) = 1 /\ s[1] = x /\ IsSeq(t) /\ Len(t) = 1 /\ t[1] = y
  BY <1>1, <1>2, OneLong
<1>5. JoinOf(u, s, t)
  BY <1>3, <1>4, Joins
<1>6. IsPair(u, x, y)
  BY <1>4, <1>5 DEF IsPair, JoinOf
<1>. QED
  BY <1>1, <1>2, <1>3, <1>6

\* A message that writes at least one byte, and one that reads no more than the driver takes.
WriteOf(m, bs) == IsSeq(bs) /\ Len(bs) >= 1 /\ m = I2c!WriteMsg(bs)
ReadOf(m, n) == n \in 1..60 /\ m = I2c!ReadMsg(n)
\* The messages of a call that qup_i2c_xfer carries out.
GoodMsgs(ms) ==
  \/ \E w, bs : WriteOf(w, bs) /\ ms = <<w>>
  \/ \E r, n : ReadOf(r, n) /\ ms = <<r>>
  \/ \E w, bs, r, n : WriteOf(w, bs) /\ ReadOf(r, n) /\ ms = <<w, r>>

\* Where the bytes of a stream end, and the stream; what stands at a place of it.
BytesWritten(ms) == I2c!BytesOf(ms)
WriteEnd(ms) == IF BytesWritten(ms) = <<>> THEN 0 ELSE Len(BytesWritten(ms)) + 2
StreamEnd(ms) == WriteEnd(ms) + (IF I2c!RdLen(ms) > 0 THEN 2 ELSE 0)
Tagged(t, ms, i) ==
  /\ i \in 3..WriteEnd(ms) => t.tag = "byte" /\ t.v = BytesWritten(ms)[i - 2]
  /\ i = WriteEnd(ms) + 2 => t.tag = "rd" /\ t.n = I2c!RdLen(ms)
  /\ i = 1 \/ i = WriteEnd(ms) + 1 => t.tag = "start"
  /\ i = 2 /\ WriteEnd(ms) # 0 => t.tag = "wr"
Sized(ms) ==
  /\ IsSeq(BytesWritten(ms)) /\ Len(BytesWritten(ms)) \in Nat
  /\ WriteEnd(ms) \in Nat /\ WriteEnd(ms) # 1 /\ WriteEnd(ms) # 2
  /\ I2c!RdLen(ms) \in 0..60
  /\ StreamEnd(ms) \in Nat /\ StreamEnd(ms) >= 2
StreamIs(S, ms) == Sized(ms) /\ IsSeq(S) /\ Len(S) = StreamEnd(ms) /\
    \A i \in 1..StreamEnd(ms) : Tagged(S[i], ms, i)

WriteTags(s, bs) ==
  /\ IsSeq(s) /\ Len(s) = 2 + Len(bs) /\ s[1].tag = "start" /\ s[2].tag = "wr"
  /\ \A i \in 1..Len(bs) : s[2 + i].tag = "byte" /\ s[2 + i].v = bs[i]
LEMMA WritesTagged == ASSUME NEW w, NEW bs, WriteOf(w, bs), NEW stop
  PROVE  WriteTags(I2c!DataWr(w, stop), bs)
<1>1. w.rd = FALSE /\ w.bytes = bs /\ Len(bs) \in Nat
  BY SeqIs DEF WriteOf, I2c!WriteMsg
<1>2. PICK t1 : t1 = [tag |-> "start", rd |-> w.rd]
  OBVIOUS
<1>3. PICK t2 : t2 = [tag |-> "wr", stop |-> stop]
  OBVIOUS
<1>4. PICK body : body = [i \in 1..Len(bs) |-> [tag |-> "byte", v |-> bs[i]]]
  OBVIOUS
<1>5. I2c!DataWr(w, stop) = <<t1>> \o <<t2>> \o body
  BY <1>1, <1>2, <1>3, <1>4 DEF I2c!DataWr, I2c!Start
<1>6. PICK pre : pre = <<t1>> \o <<t2>>
  OBVIOUS
<1>7. IsSeq(pre) /\ Len(pre) = 2 /\ pre[1] = t1 /\ pre[2] = t2
  BY <1>6, TwoLong DEF IsPair
<1>8. IsSeq(body) /\ Len(body) = Len(bs)
  <2>1. body \in Seq({body[i] : i \in 1..Len(bs)}) /\ Len(body) = Len(bs)
    BY <1>1, <1>4
  <2>. QED
    BY <2>1 DEF IsSeq
<1>9. \A i \in 1..Len(bs) : body[i].tag = "byte" /\ body[i].v = bs[i]
  BY <1>4
<1>10. PICK out : out = pre \o body
  OBVIOUS
<1>11. IsSeq(out) /\ Len(out) = 2 + Len(bs) /\ (\A i \in 1..2 : out[i] = pre[i]) /\
         \A i \in 1..Len(bs) : out[2 + i] = body[i]
  <2>1. JoinOf(out, pre, body)
    BY <1>7, <1>8, <1>10, Joins
  <2>. QED
    BY <1>7, <1>8, <2>1 DEF JoinOf
<1>12. out[1] = t1 /\ out[2] = t2
  BY <1>7, <1>11
<1>13. t1.tag = "start" /\ t2.tag = "wr"
  BY <1>2, <1>3
<1>14. WriteTags(out, bs)
  BY <1>9, <1>11, <1>12, <1>13 DEF WriteTags
<1>. QED
  BY <1>5, <1>6, <1>10, <1>14

ReadTags(s, n) == IsSeq(s) /\ Len(s) = 2 /\ s[1].tag = "start" /\ s[2].tag = "rd" /\ s[2].n = n
LEMMA ReadsTagged == ASSUME NEW r, NEW n, ReadOf(r, n)
  PROVE  ReadTags(I2c!DataRd(r), n)
<1>1. r.rd = TRUE /\ r.n = n
  BY DEF ReadOf, I2c!ReadMsg
<1>2. PICK t1 : t1 = [tag |-> "start", rd |-> r.rd]
  OBVIOUS
<1>3. PICK t2 : t2 = [tag |-> "rd", n |-> r.n]
  OBVIOUS
<1>4. I2c!DataRd(r) = <<t1>> \o <<t2>>
  BY <1>1, <1>2, <1>3 DEF I2c!DataRd, I2c!Start
<1>5. t1.tag = "start" /\ t2.tag = "rd" /\ t2.n = n
  BY <1>1, <1>2, <1>3
<1>. QED
  BY <1>4, <1>5, TwoLong DEF IsPair, ReadTags

LEMMA Written ==
  ASSUME NEW ms, NEW j \in 1..Len(BytesWritten(ms)), Len(BytesWritten(ms)) \in Nat,
         WriteEnd(ms) = Len(BytesWritten(ms)) + 2, NEW t, NEW i, i = 2 + j,
                        t.tag = "byte", t.v = BytesWritten(ms)[j]
  PROVE  Tagged(t, ms, i)
<1>1. i - 2 = j /\ ~(i = WriteEnd(ms) + 2) /\ ~(i = 1 \/ i = WriteEnd(ms) + 1) /\ i # 2
  OBVIOUS
<1>. QED
  BY <1>1 DEF Tagged

LEMMA StreamTagged == ASSUME NEW ms, GoodMsgs(ms) PROVE StreamIs(I2c!Stream(ms), ms)
<1>1. ASSUME NEW w, NEW bs, WriteOf(w, bs), ms = <<w>> PROVE StreamIs(I2c!Stream(ms), ms)
  <2>1. IsSeq(bs) /\ Len(bs) \in Nat /\ Len(bs) >= 1 /\ bs # <<>>
    BY <1>1, SeqIs DEF WriteOf
  <2>2. Len(ms) = 1 /\ ms[1] = w /\ ~w.rd /\ w.bytes = bs
    BY <1>1 DEF WriteOf, I2c!WriteMsg
  <2>3. BytesWritten(ms) = bs
    BY <2>2 DEF BytesWritten, I2c!BytesOf
  <2>4. I2c!RdLen(ms) = 0
    BY <2>2 DEF I2c!RdLen
  <2>5. PICK S : S = I2c!DataWr(w, TRUE)
    OBVIOUS
  <2>6. I2c!Stream(ms) = S
    BY <2>2, <2>5 DEF I2c!Stream
  <2>7. WriteTags(S, bs)
    BY <1>1, <2>5, WritesTagged
  <2>8. WriteEnd(ms) = Len(bs) + 2 /\ StreamEnd(ms) = Len(bs) + 2
    BY <2>1, <2>3, <2>4 DEF WriteEnd, StreamEnd
  <2>9. Sized(ms)
    BY <2>1, <2>3, <2>4, <2>8 DEF Sized
  <2>10. ASSUME NEW i \in 1..StreamEnd(ms) PROVE Tagged(S[i], ms, i)
    <3>1. CASE i <= 2
      BY <2>1, <2>7, <2>8, <3>1 DEF Tagged, WriteTags
    <3>2. CASE i > 2
      <4>1. PICK j : j = i - 2
        OBVIOUS
      <4>2. j \in 1..Len(bs) /\ i = 2 + j
        BY <2>1, <2>8, <3>2, <4>1
      <4>3. S[i].tag = "byte" /\ S[i].v = bs[j]
        BY <2>7, <4>2 DEF WriteTags
      <4>. QED
        BY <2>1, <2>3, <2>8, <4>2, <4>3, Written
    <3>. QED
      BY <2>1, <2>8, <3>1, <3>2
  <2>. QED
    BY <2>1, <2>6, <2>7, <2>8, <2>9, <2>10 DEF StreamIs, WriteTags
<1>2. ASSUME NEW r, NEW n, ReadOf(r, n), ms = <<r>> PROVE StreamIs(I2c!Stream(ms), ms)
  <2>1. n \in 1..60
    BY <1>2 DEF ReadOf
  <2>2. Len(ms) = 1 /\ ms[1] = r /\ r.rd /\ r.n = n
    BY <1>2 DEF ReadOf, I2c!ReadMsg
  <2>3. BytesWritten(ms) = <<>>
    BY <2>2 DEF BytesWritten, I2c!BytesOf
  <2>4. I2c!RdLen(ms) = n
    BY <2>1, <2>2 DEF I2c!RdLen, I2c!ReadLimit
  <2>5. PICK S : S = I2c!DataRd(r)
    OBVIOUS
  <2>6. I2c!Stream(ms) = S
    BY <2>2, <2>5 DEF I2c!Stream
  <2>7. ReadTags(S, n)
    BY <1>2, <2>5, ReadsTagged
  <2>8. WriteEnd(ms) = 0 /\ StreamEnd(ms) = 2
    BY <2>1, <2>3, <2>4 DEF WriteEnd, StreamEnd
  <2>9. Sized(ms)
    <3>1. <<>> \in Seq({}) /\ Len(<<>>) = 0
      OBVIOUS
    <3>2. IsSeq(BytesWritten(ms)) /\ Len(BytesWritten(ms)) = 0
      BY <2>3, <3>1 DEF IsSeq
    <3>. QED
      BY <2>1, <2>4, <2>8, <3>2 DEF Sized
  <2>10. ASSUME NEW i \in 1..StreamEnd(ms) PROVE Tagged(S[i], ms, i)
    BY <2>4, <2>7, <2>8 DEF Tagged, ReadTags
  <2>. QED
    BY <2>6, <2>7, <2>8, <2>9, <2>10 DEF StreamIs, ReadTags
<1>3. ASSUME NEW w, NEW bs, NEW r, NEW n, WriteOf(w, bs), ReadOf(r, n), ms = <<w, r>>
        PROVE StreamIs(I2c!Stream(ms), ms)
  <2>1. IsSeq(bs) /\ Len(bs) \in Nat /\ Len(bs) >= 1 /\ bs # <<>> /\ n \in 1..60
    BY <1>3, SeqIs DEF WriteOf, ReadOf
  <2>2. Len(ms) = 2 /\ ms[1] = w /\ ms[2] = r /\ ~w.rd /\ w.bytes = bs /\ r.rd /\ r.n = n
    BY <1>3 DEF WriteOf, ReadOf, I2c!WriteMsg, I2c!ReadMsg
  <2>3. BytesWritten(ms) = bs
    BY <2>2 DEF BytesWritten, I2c!BytesOf
  <2>4. I2c!RdLen(ms) = n
    BY <2>1, <2>2 DEF I2c!RdLen, I2c!ReadLimit
  <2>5. PICK wr : wr = I2c!DataWr(w, FALSE)
    OBVIOUS
  <2>6. PICK rd : rd = I2c!DataRd(r)
    OBVIOUS
  <2>7. PICK S : S = wr \o rd
    OBVIOUS
  <2>8. I2c!Stream(ms) = S
    BY <2>2, <2>5, <2>6, <2>7 DEF I2c!Stream
  <2>9. WriteTags(wr, bs) /\ ReadTags(rd, n)
    BY <1>3, <2>5, <2>6, WritesTagged, ReadsTagged
  <2>10. WriteEnd(ms) = Len(bs) + 2 /\ StreamEnd(ms) = Len(bs) + 4
    BY <2>1, <2>3, <2>4 DEF WriteEnd, StreamEnd
  <2>11. Sized(ms)
    BY <2>1, <2>3, <2>4, <2>10 DEF Sized
  <2>12. IsSeq(wr) /\ Len(wr) = 2 + Len(bs) /\ IsSeq(rd) /\ Len(rd) = 2
    BY <2>9 DEF WriteTags, ReadTags
  <2>13. /\ IsSeq(S) /\ Len(S) = 2 + Len(bs) + 2
         /\ \A i \in 1..2 + Len(bs) : S[i] = wr[i]
         /\ \A i \in 1..2 : S[2 + Len(bs) + i] = rd[i]
    <3>1. JoinOf(S, wr, rd)
      BY <2>7, <2>12, Joins
    <3>. QED
      BY <2>12, <3>1 DEF JoinOf
  <2>14. ASSUME NEW i \in 1..StreamEnd(ms) PROVE Tagged(S[i], ms, i)
    <3>1. CASE i <= 2
      <4>1. S[i] = wr[i]
        BY <2>1, <2>13, <3>1
      <4>. QED
        BY <2>1, <2>9, <2>10, <3>1, <4>1 DEF Tagged, WriteTags
    <3>2. CASE i > 2 /\ i <= 2 + Len(bs)
      <4>1. PICK j : j = i - 2
        OBVIOUS
      <4>2. j \in 1..Len(bs) /\ i = 2 + j
        BY <2>1, <2>10, <3>2, <4>1
      <4>3. S[i] = wr[i]
        BY <2>1, <2>13, <3>2
      <4>4. S[i].tag = "byte" /\ S[i].v = bs[j]
        BY <2>9, <4>2, <4>3 DEF WriteTags
      <4>. QED
        BY <2>1, <2>3, <2>10, <4>2, <4>4, Written
    <3>3. CASE i = 2 + Len(bs) + 1
      <4>1. S[i] = rd[1]
        BY <2>1, <2>13, <3>3
      <4>. QED
        BY <2>1, <2>9, <2>10, <3>3, <4>1 DEF Tagged, ReadTags
    <3>4. CASE i = 2 + Len(bs) + 2
      <4>1. S[i] = rd[2]
        BY <2>1, <2>13, <3>4
      <4>. QED
        BY <2>1, <2>4, <2>9, <2>10, <3>4, <4>1 DEF Tagged, ReadTags
    <3>. QED
      BY <2>1, <2>10, <3>1, <3>2, <3>3, <3>4
  <2>. QED
    BY <2>1, <2>8, <2>10, <2>11, <2>13, <2>14 DEF StreamIs
<1>. QED
  BY <1>1, <1>2, <1>3 DEF GoodMsgs

TailOf(u, s) == IsSeq(u) /\ Len(u) = Len(s) - 1 /\ \A i \in 1..Len(s) - 1 : u[i] = s[i + 1]
LEMMA Tails == ASSUME NEW s, IsSeq(s), s # <<>> PROVE TailOf(Tail(s), s) /\ Head(s) = s[1] /\ Len(s) >= 1
<1>1. PICK S : s \in Seq(S)
  BY DEF IsSeq
<1>2. Tail(s) \in Seq(S)
  BY <1>1
<1>. QED
  BY <1>1, <1>2 DEF IsSeq, TailOf

LEMMA Sizes == ASSUME NEW ms, Sized(ms)
  PROVE /\ WriteEnd(ms) \in Nat /\ WriteEnd(ms) # 1 /\ WriteEnd(ms) # 2 /\ StreamEnd(ms) \in Nat /\
             Len(BytesWritten(ms)) \in Nat
        /\ WriteEnd(ms) # 0 => WriteEnd(ms) = Len(BytesWritten(ms)) + 2
        /\ WriteEnd(ms) = 0 => Len(BytesWritten(ms)) = 0
        /\ I2c!RdLen(ms) \in Nat
<1>1. BytesWritten(ms) = <<>> <=> Len(BytesWritten(ms)) = 0
  BY SeqIs DEF Sized
<1>2. Len(BytesWritten(ms)) \in Nat /\ WriteEnd(ms) \in Nat /\ WriteEnd(ms) # 1 /\ WriteEnd(ms) # 2 /\
        StreamEnd(ms) \in Nat
  BY DEF Sized
<1>3. I2c!RdLen(ms) \in Nat
  <2>1. PICK n : n = I2c!RdLen(ms)
    OBVIOUS
  <2>2. n \in 0..60
    BY <2>1 DEF Sized
  <2>3. n \in Nat
    BY ONLY <2>2
  <2>. QED
    BY <2>1, <2>3
<1>4. WriteEnd(ms) # 0 => WriteEnd(ms) = Len(BytesWritten(ms)) + 2
  BY DEF WriteEnd
<1>5. WriteEnd(ms) = 0 => Len(BytesWritten(ms)) = 0
  BY <1>1, <1>2 DEF WriteEnd
<1>. QED
  BY <1>2, <1>3, <1>4, <1>5

\* How many bytes are among the first k tags, and that the bridge has taken so many of them.
BytesIn(ms, k) == IF k <= 2 THEN 0 ELSE IF k <= WriteEnd(ms) THEN k - 2 ELSE Len(BytesWritten(ms))
TakenIs(b, ms, n) == IsSeq(b.taken) /\ Len(b.taken) = n /\ \A i \in 1..n : b.taken[i] = BytesWritten(ms)[i]

\* What is left of the stream after k tags.
LeftIs(out, ms, k) == IsSeq(out) /\ Len(out) = StreamEnd(ms) - k /\
    \A i \in 1..StreamEnd(ms) - k : Tagged(out[i], ms, k + i)

\* The first k tags have gone to the bus, all of them accepted, or the last of them refused.
Accepted(ms, q, b, k) ==
  /\ TakenIs(b, ms, BytesIn(ms, k))
  /\ k <= WriteEnd(ms) => b.count = Len(b.taken)
  /\ Len(b.taken) >= 1 => b.ptr = BytesWritten(ms)[1]
  /\ IF k = WriteEnd(ms) + 2
     THEN /\ IsSeq(q.in) /\ IsSeq(b.sent) /\ Len(q.in) = 2 + Len(b.sent) /\ q.due + Len(b.sent) = I2c!RdLen(ms)
          /\ \A i \in 1..Len(b.sent) : q.in[2 + i] = b.sent[i]
     ELSE q.in = <<>> /\ b.sent = <<>> /\ q.due = 0
RefusedAt(ms, q, b, k) ==
  /\ k \in 3..WriteEnd(ms) \/ k = 1 \/ k = WriteEnd(ms) + 1
  /\ TakenIs(b, ms, BytesIn(ms, k - 1))
  /\ q.in = <<>> /\ b.sent = <<>> /\ q.due = 0
Moved(ms, q, b) == \E k \in 0..StreamEnd(ms) :
  /\ LeftIs(q.out, ms, k) /\ q.due \in Nat /\ q.error \in BOOLEAN
  /\ q.error => RefusedAt(ms, q, b, k)
  /\ ~q.error => Accepted(ms, q, b, k)

\* The next tag of a stream tells where in the stream it is.
NextAt(ms, t, k) ==
  /\ t.tag = "byte" => k \in 2..WriteEnd(ms) - 1 /\ t.v = BytesWritten(ms)[k - 1]
  /\ t.tag = "rd" => k = WriteEnd(ms) + 1 /\ t.n = I2c!RdLen(ms)
  /\ t.tag = "start" => k = 0 \/ k = WriteEnd(ms)
  /\ t.tag = "wr" => k = 1 /\ WriteEnd(ms) # 0
LEMMA TagTells ==
  ASSUME NEW ms, Sized(ms), NEW k \in Nat, k < StreamEnd(ms), NEW t, Tagged(t, ms, k + 1)
  PROVE  NextAt(ms, t, k)
<1>1. WriteEnd(ms) \in Nat /\ WriteEnd(ms) # 1 /\ WriteEnd(ms) # 2 /\
        (StreamEnd(ms) = WriteEnd(ms) \/ StreamEnd(ms) = WriteEnd(ms) + 2)
  BY DEF Sized, StreamEnd
<1>2. CASE k + 1 \in 3..WriteEnd(ms)
  <2>1. t.tag = "byte" /\ t.v = BytesWritten(ms)[k + 1 - 2] /\ k + 1 - 2 = k - 1 /\ k \in 2..WriteEnd(ms) - 1
    BY <1>1, <1>2 DEF Tagged
  <2>. QED
    BY <2>1 DEF NextAt
<1>3. CASE k + 1 = WriteEnd(ms) + 2
  BY <1>1, <1>3 DEF Tagged, NextAt
<1>4. CASE k + 1 = 1 \/ k + 1 = WriteEnd(ms) + 1
  BY <1>1, <1>4 DEF Tagged, NextAt
<1>5. CASE k + 1 = 2 /\ WriteEnd(ms) # 0
  BY <1>1, <1>5 DEF Tagged, NextAt
<1>. QED
  BY <1>1, <1>2, <1>3, <1>4, <1>5

LEMMA LeftMoves ==
  ASSUME NEW ms, Sized(ms), NEW k \in 0..StreamEnd(ms), NEW out, LeftIs(out, ms, k), out # <<>>
  PROVE  k < StreamEnd(ms) /\ LeftIs(Tail(out), ms, k + 1) /\ NextAt(ms, Head(out), k)
<1>1. StreamEnd(ms) \in Nat
  BY DEF Sized
<1>2. PICK u : u = Tail(out)
  OBVIOUS
<1>3. TailOf(u, out) /\ Head(out) = out[1] /\ Len(out) >= 1
  BY <1>2, Tails DEF LeftIs
<1>4. Len(out) = StreamEnd(ms) - k /\ k < StreamEnd(ms)
  BY <1>1, <1>3 DEF LeftIs
<1>5. ASSUME NEW i \in 1..StreamEnd(ms) - (k + 1) PROVE Tagged(u[i], ms, k + 1 + i)
  <2>1. i + 1 \in 1..StreamEnd(ms) - k /\ k + (i + 1) = k + 1 + i /\ i \in 1..Len(out) - 1
    BY <1>1, <1>4
  <2>2. Tagged(out[i + 1], ms, k + (i + 1)) /\ u[i] = out[i + 1]
    BY <1>3, <2>1 DEF LeftIs, TailOf
  <2>. QED
    BY <2>1, <2>2
<1>6. LeftIs(u, ms, k + 1)
  BY <1>1, <1>3, <1>4, <1>5 DEF LeftIs, TailOf
<1>7. Tagged(out[1], ms, k + 1)
  BY <1>1, <1>4 DEF LeftIs
<1>. QED
  BY <1>2, <1>3, <1>4, <1>6, <1>7, TagTells

\* What the controller does on the bus moves the transfer on by a tag, or by a byte read.
LEMMA StartMoves ==
  ASSUME NEW ms, NEW q, NEW b, NEW p, NEW c, Sized(ms), Moved(ms, q, b), q.out # <<>>, ~q.error,
         Head(q.out).tag \in {"start", "wr"},
         p.out = Tail(q.out), p.in = q.in, p.due = q.due, p.error = q.error,
         c.taken = b.taken, c.sent = b.sent, c.ptr = b.ptr,
         Head(q.out).tag = "start" => c.count = 0,
         Head(q.out).tag = "wr" => c.count = b.count
  PROVE  Moved(ms, p, c)
<1>1. PICK k \in 0..StreamEnd(ms) : LeftIs(q.out, ms, k) /\ q.due \in Nat /\ q.error \in BOOLEAN /\
        Accepted(ms, q, b, k)
  BY DEF Moved
<1>2. k < StreamEnd(ms) /\ LeftIs(p.out, ms, k + 1) /\ NextAt(ms, Head(q.out), k)
  BY <1>1, LeftMoves
<1>3. WriteEnd(ms) \in Nat /\ WriteEnd(ms) # 1 /\ WriteEnd(ms) # 2 /\ StreamEnd(ms) \in Nat /\
        Len(BytesWritten(ms)) \in Nat
      /\ (WriteEnd(ms) # 0 => WriteEnd(ms) = Len(BytesWritten(ms)) + 2)
  BY Sizes
<1>4. (Head(q.out).tag = "start" /\ (k = 0 \/ k = WriteEnd(ms))) \/ (Head(q.out).tag = "wr" /\ k = 1 /\ WriteEnd(ms) # 0)
  BY <1>2 DEF NextAt
<1>5. BytesIn(ms, k + 1) = BytesIn(ms, k) /\ k + 1 # WriteEnd(ms) + 2 /\ k # WriteEnd(ms) + 2
  BY <1>3, <1>4 DEF BytesIn
<1>6. TakenIs(c, ms, BytesIn(ms, k + 1))
  BY <1>1, <1>5 DEF Accepted, TakenIs
<1>7. k + 1 <= WriteEnd(ms) => c.count = Len(c.taken)
  <2>1. CASE Head(q.out).tag = "start"
    <3>1. k + 1 <= WriteEnd(ms) => k = 0
      BY <1>3, <1>4, <2>1
    <3>2. k = 0 => Len(c.taken) = 0 /\ c.count = 0
      BY <1>5, <1>6, <2>1 DEF TakenIs, BytesIn
    <3>. QED
      BY <3>1, <3>2
  <2>2. CASE Head(q.out).tag = "wr"
    BY <1>1, <1>3, <1>4, <2>2 DEF Accepted
  <2>. QED
    BY <1>4, <2>1, <2>2
<1>8. Accepted(ms, p, c, k + 1)
  BY <1>1, <1>5, <1>6, <1>7 DEF Accepted
<1>9. k + 1 \in 0..StreamEnd(ms) /\ p.due \in Nat /\ p.error = FALSE
  BY <1>1, <1>2, <1>3 DEF Moved
<1>. QED
  BY <1>2, <1>8, <1>9 DEF Moved

ByteFacts(ms, q, b, c) ==
  /\ b.count = Len(b.taken) /\ Len(b.taken) \in 0..Len(BytesWritten(ms)) - 1 /\ Len(c.taken) = Len(b.taken) + 1
  /\ Head(q.out).v = BytesWritten(ms)[Len(b.taken) + 1]
  /\ Len(b.taken) # 0 => b.ptr = BytesWritten(ms)[1]
LEMMA ByteMoves ==
  ASSUME NEW ms, NEW q, NEW b, NEW p, NEW c, Sized(ms), Moved(ms, q, b), q.out # <<>>, ~q.error,
         Head(q.out).tag = "byte",
         p.out = Tail(q.out), p.in = q.in, p.due = q.due, p.error = q.error,
         c.taken = Append(b.taken, Head(q.out).v), c.sent = b.sent, c.count = b.count + 1,
         b.count = 0 => c.ptr = Head(q.out).v,
         b.count # 0 => c.ptr = b.ptr
  PROVE  Moved(ms, p, c) /\ ByteFacts(ms, q, b, c)
<1>1. PICK k \in 0..StreamEnd(ms) : LeftIs(q.out, ms, k) /\ q.due \in Nat /\ q.error \in BOOLEAN /\
        Accepted(ms, q, b, k)
  BY DEF Moved
<1>2. k < StreamEnd(ms) /\ LeftIs(p.out, ms, k + 1) /\ NextAt(ms, Head(q.out), k)
  BY <1>1, LeftMoves
<1>3. WriteEnd(ms) \in Nat /\ WriteEnd(ms) # 1 /\ WriteEnd(ms) # 2 /\ StreamEnd(ms) \in Nat /\
        Len(BytesWritten(ms)) \in Nat
      /\ (WriteEnd(ms) # 0 => WriteEnd(ms) = Len(BytesWritten(ms)) + 2)
  BY Sizes
<1>4. k \in 2..WriteEnd(ms) - 1 /\ Head(q.out).v = BytesWritten(ms)[k - 1]
  BY <1>2 DEF NextAt
<1>5. BytesIn(ms, k) = k - 2 /\ BytesIn(ms, k + 1) = k - 1 /\ k + 1 # WriteEnd(ms) + 2 /\ k # WriteEnd(ms) + 2
  BY <1>3, <1>4 DEF BytesIn
<1>6. /\ IsSeq(b.taken) /\ Len(b.taken) = k - 2 /\ \A i \in 1..k - 2 : b.taken[i] = BytesWritten(ms)[i]
  BY <1>1, <1>5 DEF Accepted, TakenIs
<1>7. b.count = Len(b.taken) /\ (Len(b.taken) >= 1 => b.ptr = BytesWritten(ms)[1])
  BY <1>1, <1>3, <1>4 DEF Accepted
<1>8. PICK v : v = Head(q.out).v
  OBVIOUS
<1>9. IsSeq(c.taken) /\ Len(c.taken) = k - 2 + 1 /\ (\A i \in 1..k - 2 : c.taken[i] = b.taken[i]) /\
        c.taken[k - 2 + 1] = v
  <2>1. LongerBy(c.taken, b.taken, v)
    BY <1>6, <1>8, Appends
  <2>. QED
    BY <1>6, <2>1 DEF LongerBy
<1>10. TakenIs(c, ms, BytesIn(ms, k + 1))
  <2>1. ASSUME NEW i \in 1..k - 1 PROVE c.taken[i] = BytesWritten(ms)[i]
    <3>1. i \in 1..k - 2 \/ (i = k - 2 + 1 /\ i = k - 1)
      BY <1>4
    <3>. QED
      BY <1>4, <1>6, <1>8, <1>9, <3>1
  <2>. QED
    BY <1>4, <1>5, <1>9, <2>1 DEF TakenIs
<1>11. Len(b.taken) + 1 = k - 1 /\ Len(c.taken) = k - 1 /\ Len(b.taken) \in 0..Len(BytesWritten(ms)) - 1
  BY <1>3, <1>4, <1>6, <1>9
<1>12. c.ptr = BytesWritten(ms)[1]
  <2>1. CASE k = 2
    BY <1>4, <1>6, <1>7, <2>1
  <2>2. CASE k # 2
    BY <1>4, <1>6, <1>7, <2>2
  <2>. QED
    BY <2>1, <2>2
<1>13. Accepted(ms, p, c, k + 1)
  BY <1>1, <1>5, <1>7, <1>10, <1>11, <1>12 DEF Accepted
<1>14. k + 1 \in 0..StreamEnd(ms) /\ p.due \in Nat /\ p.error = FALSE
  BY <1>1, <1>2, <1>3 DEF Moved
<1>15. Moved(ms, p, c)
  BY <1>2, <1>13, <1>14 DEF Moved
<1>16. ByteFacts(ms, q, b, c)
  BY <1>4, <1>7, <1>11 DEF ByteFacts
<1>. QED
  BY <1>15, <1>16

LEMMA OrderMoves ==
  ASSUME NEW ms, NEW q, NEW b, NEW p, Sized(ms), Moved(ms, q, b), q.out # <<>>, ~q.error,
         Head(q.out).tag = "rd",
         p.out = Tail(q.out), p.in = <<"tag", "len">>, p.due = Head(q.out).n, p.error = q.error
  PROVE  Moved(ms, p, b) /\ q.in = <<>>
<1>1. PICK k \in 0..StreamEnd(ms) : LeftIs(q.out, ms, k) /\ q.due \in Nat /\ q.error \in BOOLEAN /\
        Accepted(ms, q, b, k)
  BY DEF Moved
<1>2. k < StreamEnd(ms) /\ LeftIs(p.out, ms, k + 1) /\ NextAt(ms, Head(q.out), k)
  BY <1>1, LeftMoves
<1>3. WriteEnd(ms) \in Nat /\ WriteEnd(ms) # 1 /\ WriteEnd(ms) # 2 /\ StreamEnd(ms) \in Nat /\
        Len(BytesWritten(ms)) \in Nat
      /\ (WriteEnd(ms) # 0 => WriteEnd(ms) = Len(BytesWritten(ms)) + 2) /\ I2c!RdLen(ms) \in Nat
      /\ (WriteEnd(ms) = 0 => Len(BytesWritten(ms)) = 0)
  BY Sizes
<1>4. k = WriteEnd(ms) + 1 /\ p.due = I2c!RdLen(ms)
  BY <1>2 DEF NextAt
<1>5. BytesIn(ms, k + 1) = BytesIn(ms, k) /\ ~(k + 1 <= WriteEnd(ms)) /\ k # WriteEnd(ms) + 2
  BY <1>3, <1>4 DEF BytesIn
<1>6. q.in = <<>> /\ b.sent = <<>> /\ IsSeq(b.sent) /\ Len(b.sent) = 0
  <2>1. <<>> \in Seq({}) /\ Len(<<>>) = 0
    OBVIOUS
  <2>. QED
    BY <1>1, <1>5, <2>1 DEF Accepted, IsSeq
<1>7. IsSeq(p.in) /\ Len(p.in) = 2
  <2>1. <<"tag", "len">> \in Seq({"tag", "len"}) /\ Len(<<"tag", "len">>) = 2
    OBVIOUS
  <2>. QED
    BY <2>1 DEF IsSeq
<1>8. Accepted(ms, p, b, k + 1)
  BY <1>1, <1>3, <1>4, <1>5, <1>6, <1>7 DEF Accepted
<1>9. k + 1 \in 0..StreamEnd(ms) /\ p.due \in Nat
  BY <1>1, <1>2, <1>3, <1>4
<1>. QED
  BY <1>1, <1>2, <1>6, <1>8, <1>9 DEF Moved

ReadFacts(ms, q, b, p, c, v) ==
  /\ Len(b.taken) = Len(BytesWritten(ms)) /\ (Len(b.taken) >= 1 => b.ptr = BytesWritten(ms)[1])
  /\ LongerBy(c.sent, b.sent, v) /\ Len(b.sent) \in Nat
  /\ Len(q.in) \in Nat /\ Len(p.in) = Len(q.in) + 1
LEMMA ReadMoves ==
  ASSUME NEW ms, NEW q, NEW b, NEW p, NEW c, NEW v, Sized(ms), Moved(ms, q, b), q.due > 0,
         p.out = q.out, p.in = Append(q.in, v), p.due = q.due - 1, p.error = q.error,
         c.taken = b.taken, c.sent = Append(b.sent, v), c.count = b.count, c.ptr = b.ptr
  PROVE  Moved(ms, p, c) /\ ReadFacts(ms, q, b, p, c, v)
<1>1. PICK k \in 0..StreamEnd(ms) : LeftIs(q.out, ms, k) /\ q.due \in Nat /\ q.error \in BOOLEAN
                              /\ (q.error => RefusedAt(ms, q, b, k)) /\ (~q.error => Accepted(ms, q, b, k))
  BY DEF Moved
<1>2. ~q.error
  BY <1>1 DEF RefusedAt
<1>3. k = WriteEnd(ms) + 2 /\ Accepted(ms, q, b, k)
  BY <1>1, <1>2 DEF Accepted
<1>4. WriteEnd(ms) \in Nat /\ I2c!RdLen(ms) \in Nat /\ (WriteEnd(ms) = 0 => Len(BytesWritten(ms)) = 0)
  BY Sizes
<1>5. BytesIn(ms, k) = Len(BytesWritten(ms))
  BY <1>3, <1>4 DEF BytesIn
<1>6. IsSeq(q.in) /\ IsSeq(b.sent) /\ Len(q.in) = 2 + Len(b.sent) /\ q.due + Len(b.sent) = I2c!RdLen(ms)
      /\ \A i \in 1..Len(b.sent) : q.in[2 + i] = b.sent[i]
  BY <1>3 DEF Accepted
<1>7. LongerBy(p.in, q.in, v) /\ LongerBy(c.sent, b.sent, v)
  BY <1>6, Appends
<1>8. Len(b.sent) \in Nat
  BY <1>6, SeqIs
<1>9. ASSUME NEW i \in 1..Len(c.sent) PROVE p.in[2 + i] = c.sent[i]
  <2>1. i \in 1..Len(b.sent) \/ i = Len(b.sent) + 1
    BY <1>7, <1>8 DEF LongerBy
  <2>2. CASE i \in 1..Len(b.sent)
    <3>1. 2 + i \in 1..Len(q.in)
      BY <1>6, <1>8, <2>2
    <3>. QED
      BY <1>6, <1>7, <2>2, <3>1 DEF LongerBy
  <2>3. CASE i = Len(b.sent) + 1
    <3>1. 2 + i = Len(q.in) + 1
      BY <1>6, <1>8, <2>3
    <3>. QED
      BY <1>7, <2>3, <3>1 DEF LongerBy
  <2>. QED
    BY <2>1, <2>2, <2>3
<1>10. IsSeq(p.in) /\ IsSeq(c.sent) /\ Len(p.in) = 2 + Len(c.sent) /\ p.due + Len(c.sent) = I2c!RdLen(ms) /\
         p.due \in Nat
  <2>1. IsSeq(p.in) /\ IsSeq(c.sent) /\ Len(p.in) = Len(q.in) + 1 /\ Len(c.sent) = Len(b.sent) + 1
    BY <1>7 DEF LongerBy
  <2>2. q.due \in Nat /\ q.due > 0 /\ p.due = q.due - 1
    BY <1>1
  <2>3. Len(q.in) = 2 + Len(b.sent) /\ q.due + Len(b.sent) = I2c!RdLen(ms)
    BY <1>6
  <2>4. PICK l, n : l = Len(b.sent) /\ n = I2c!RdLen(ms)
    OBVIOUS
  <2>5. l \in Nat /\ Len(q.in) = 2 + l /\ q.due + l = n /\ Len(p.in) = Len(q.in) + 1 /\ Len(c.sent) = l + 1
    BY <1>8, <2>1, <2>3, <2>4
  <2>6. Len(p.in) = 2 + Len(c.sent) /\ p.due + Len(c.sent) = n /\ p.due \in Nat
    BY ONLY <2>2, <2>5
  <2>. QED
    BY <2>1, <2>4, <2>6
<1>11. TakenIs(c, ms, BytesIn(ms, k)) /\ Len(b.taken) = Len(BytesWritten(ms)) /\
         (Len(b.taken) >= 1 => b.ptr = BytesWritten(ms)[1])
  BY <1>3, <1>5 DEF Accepted, TakenIs
<1>12. Accepted(ms, p, c, k)
  BY <1>3, <1>4, <1>9, <1>10, <1>11 DEF Accepted
<1>13. Moved(ms, p, c)
  BY <1>1, <1>2, <1>10, <1>12 DEF Moved
<1>14. Len(q.in) \in Nat /\ Len(p.in) = Len(q.in) + 1
  BY <1>6, <1>7, SeqIs DEF LongerBy
<1>15. ReadFacts(ms, q, b, p, c, v)
  BY <1>7, <1>8, <1>11, <1>14 DEF ReadFacts
<1>. QED
  BY <1>13, <1>15

LEMMA RefusalMoves ==
  ASSUME NEW ms, NEW q, NEW b, NEW p, Sized(ms), Moved(ms, q, b), q.out # <<>>, ~q.error,
         Head(q.out).tag \in {"start", "byte"},
         p.out = Tail(q.out), p.in = q.in, p.due = q.due, p.error = TRUE
  PROVE  Moved(ms, p, b)
<1>1. PICK k \in 0..StreamEnd(ms) : LeftIs(q.out, ms, k) /\ q.due \in Nat /\ q.error \in BOOLEAN /\
        Accepted(ms, q, b, k)
  BY DEF Moved
<1>2. k < StreamEnd(ms) /\ LeftIs(p.out, ms, k + 1) /\ NextAt(ms, Head(q.out), k)
  BY <1>1, LeftMoves
<1>3. WriteEnd(ms) \in Nat /\ StreamEnd(ms) \in Nat
  BY DEF Sized
<1>4. k + 1 \in 3..WriteEnd(ms) \/ k + 1 = 1 \/ k + 1 = WriteEnd(ms) + 1
  BY <1>2, <1>3 DEF NextAt
<1>5. k + 1 - 1 = k /\ k # WriteEnd(ms) + 2
  BY <1>3, <1>4
<1>6. RefusedAt(ms, p, b, k + 1)
  BY <1>1, <1>4, <1>5 DEF RefusedAt, Accepted
<1>7. k + 1 \in 0..StreamEnd(ms) /\ p.due \in Nat
  BY <1>1, <1>2, <1>3
<1>. QED
  BY <1>2, <1>6, <1>7 DEF Moved

\* The controller has emptied the stream, and holds a tag, a length and what was asked for.
AllThere(ms, q) == q.out = <<>> /\ (I2c!RdLen(ms) > 0 => Len(q.in) >= I2c!RdLen(ms) + 2)
EndsWell(ms, q, b) ==
  /\ q.due = 0
  /\ IsSeq(b.sent) /\ Len(b.sent) = I2c!RdLen(ms)
  /\ \A i \in 1..I2c!RdLen(ms) : 2 + i <= Len(q.in) /\ q.in[2 + i] = b.sent[i]
  /\ ~q.error => TakenIs(b, ms, Len(BytesWritten(ms)))
  /\ q.error => I2c!RdLen(ms) = 0 /\ Len(BytesWritten(ms)) >= 1 /\ TakenIs(b, ms, Len(BytesWritten(ms)) - 1)

LEMMA EmptyIs == IsSeq(<<>>) /\ Len(<<>>) = 0
<1>1. <<>> \in Seq({}) /\ Len(<<>>) = 0
  OBVIOUS
<1>. QED
  BY <1>1 DEF IsSeq

LEMMA MoveEnds == ASSUME NEW ms, NEW q, NEW b, Sized(ms), Moved(ms, q, b), AllThere(ms, q) PROVE EndsWell(ms, q, b)
<1>1. PICK k \in 0..StreamEnd(ms) : LeftIs(q.out, ms, k) /\ q.due \in Nat /\ q.error \in BOOLEAN
                              /\ (q.error => RefusedAt(ms, q, b, k)) /\ (~q.error => Accepted(ms, q, b, k))
  BY DEF Moved
<1>2. PICK we, l, n : we = WriteEnd(ms) /\ l = Len(BytesWritten(ms)) /\ n = I2c!RdLen(ms)
  OBVIOUS
<1>3. we \in Nat /\ we # 1 /\ we # 2 /\ l \in Nat /\ n \in Nat /\ (we # 0 => we = l + 2) /\ (we = 0 => l = 0)
  BY <1>2, Sizes
<1>4. StreamEnd(ms) = we + (IF n > 0 THEN 2 ELSE 0) /\ StreamEnd(ms) \in Nat
  BY <1>2, Sizes DEF StreamEnd
<1>5. k = StreamEnd(ms)
  BY <1>1, <1>4, EmptyIs DEF AllThere, LeftIs
<1>6. CASE q.error
  <2>1. k \in 3..we \/ k = 1 \/ k = we + 1
    BY <1>1, <1>2, <1>6 DEF RefusedAt
  <2>2. n = 0 /\ k = we /\ l >= 1 /\ we = l + 2
    BY <1>3, <1>4, <1>5, <2>1
  <2>3. BytesIn(ms, k - 1) = l - 1
    BY <1>2, <1>3, <2>2 DEF BytesIn
  <2>4. TakenIs(b, ms, l - 1) /\ b.sent = <<>> /\ q.due = 0
    BY <1>1, <1>6, <2>3 DEF RefusedAt
  <2>. QED
    BY <1>2, <1>6, <2>2, <2>4, EmptyIs DEF EndsWell
<1>7. CASE ~q.error
  <2>1. BytesIn(ms, k) = l
    BY <1>2, <1>3, <1>4, <1>5 DEF BytesIn
  <2>2. TakenIs(b, ms, l)
    BY <1>1, <1>7, <2>1 DEF Accepted
  <2>3. CASE n = 0
    <3>1. k # we + 2
      BY <1>3, <1>4, <1>5, <2>3
    <3>2. b.sent = <<>> /\ q.due = 0
      BY <1>1, <1>2, <1>7, <3>1 DEF Accepted
    <3>. QED
      BY <1>2, <1>7, <2>2, <2>3, <3>2, EmptyIs DEF EndsWell
  <2>4. CASE n > 0
    <3>1. k = we + 2
      BY <1>3, <1>4, <1>5, <2>4
    <3>2. IsSeq(b.sent) /\ Len(q.in) = 2 + Len(b.sent) /\ q.due + Len(b.sent) = n
          /\ \A i \in 1..Len(b.sent) : q.in[2 + i] = b.sent[i]
      BY <1>1, <1>2, <1>7, <3>1 DEF Accepted
    <3>3. Len(q.in) >= n + 2
      BY <1>2, <2>4 DEF AllThere
    <3>4. Len(b.sent) \in Nat
      BY <3>2, SeqIs
    <3>5. PICK m : m = Len(b.sent)
      OBVIOUS
    <3>6. m \in Nat /\ q.due \in Nat /\ n \in Nat /\ Len(q.in) = 2 + m /\ q.due + m = n /\ Len(q.in) >= n + 2
      BY <1>1, <1>3, <3>2, <3>3, <3>4, <3>5
    <3>7. q.due = 0 /\ m = n /\ \A i \in 1..n : 2 + i <= Len(q.in)
      BY ONLY <3>6
    <3>. QED
      BY <1>2, <1>7, <2>2, <3>2, <3>5, <3>7 DEF EndsWell
  <2>. QED
    BY <1>3, <2>3, <2>4
<1>. QED
  BY <1>6, <1>7

\* The transfer begins with the whole stream in the output FIFO.
Blank(q, b) ==
  /\ q.out = <<>> /\ q.in = <<>> /\ q.due = 0 /\ q.error = FALSE
  /\ b.taken = <<>> /\ b.sent = <<>> /\ b.count = 0
LEMMA MoveStarts ==
  ASSUME NEW ms, NEW q, NEW b, NEW p, GoodMsgs(ms), Blank(q, b),
         p.out = I2c!Stream(ms), p.in = q.in, p.due = q.due, p.error = q.error
  PROVE  Moved(ms, p, b)
<1>1. PICK S : S = I2c!Stream(ms)
  OBVIOUS
<1>2. StreamIs(S, ms)
  BY <1>1, StreamTagged
<1>3. Sized(ms) /\ StreamEnd(ms) \in Nat /\ WriteEnd(ms) \in Nat
  BY <1>2, Sizes DEF StreamIs
<1>4. LeftIs(S, ms, 0)
  <2>1. ASSUME NEW i \in 1..StreamEnd(ms) - 0 PROVE Tagged(S[i], ms, 0 + i)
    <3>1. i \in 1..StreamEnd(ms) /\ 0 + i = i
      BY <1>3
    <3>. QED
      BY <1>2, <3>1 DEF StreamIs
  <2>2. IsSeq(S) /\ Len(S) = StreamEnd(ms) - 0
    BY <1>2, <1>3 DEF StreamIs
  <2>. QED
    BY <2>1, <2>2 DEF LeftIs
<1>5. BytesIn(ms, 0) = 0 /\ 0 # WriteEnd(ms) + 2
  BY <1>3 DEF BytesIn
<1>6. TakenIs(b, ms, BytesIn(ms, 0)) /\ b.count = Len(b.taken) /\ ~(Len(b.taken) >= 1)
  BY <1>5, EmptyIs DEF Blank, TakenIs
<1>7. Accepted(ms, p, b, 0)
  BY <1>5, <1>6 DEF Blank, Accepted
<1>8. 0 \in 0..StreamEnd(ms) /\ p.due \in Nat /\ p.error = FALSE
  BY <1>3 DEF Blank
<1>. QED
  BY <1>1, <1>4, <1>7, <1>8 DEF Moved

\* The driver has taken out of the input FIFO what the bridge sent.
LEMMA DrainedIs ==
  ASSUME NEW ms, NEW q, NEW b, Sized(ms), EndsWell(ms, q, b)
  PROVE  [i \in 1..I2c!RdLen(ms) |-> IF 2 + i <= Len(q.in) THEN q.in[2 + i] ELSE "junk"] = b.sent
<1>1. b.sent = [i \in 1..Len(b.sent) |-> b.sent[i]] /\ Len(b.sent) = I2c!RdLen(ms)
  BY SeqIs DEF EndsWell
<1>2. \A i \in 1..I2c!RdLen(ms) : 2 + i <= Len(q.in) /\ q.in[2 + i] = b.sent[i]
  BY DEF EndsWell
<1>3. [i \in 1..I2c!RdLen(ms) |-> IF 2 + i <= Len(q.in) THEN q.in[2 + i] ELSE "junk"] =
        [i \in 1..I2c!RdLen(ms) |-> b.sent[i]]
  BY <1>2
<1>. QED
  BY <1>1, <1>3

\* What a call that succeeds shows: all bytes arrived, but perhaps for the last one of a write.
LEMMA TakenAll ==
  ASSUME NEW ms, NEW b, Sized(ms), TakenIs(b, ms, Len(BytesWritten(ms)))
  PROVE  b.taken = I2c!BytesOf(ms)
<1>1. PICK u, w : u = b.taken /\ w = BytesWritten(ms)
  OBVIOUS
<1>2. IsSeq(u) /\ IsSeq(w) /\ Len(u) = Len(w) /\ \A i \in 1..Len(w) : u[i] = w[i]
  BY <1>1 DEF TakenIs, Sized
<1>3. u = [i \in 1..Len(u) |-> u[i]] /\ w = [i \in 1..Len(w) |-> w[i]]
  BY <1>2, SeqIs
<1>4. u = w
  BY <1>2, <1>3
<1>. QED
  BY <1>1, <1>4 DEF BytesWritten
LEMMA TakenButLast ==
  ASSUME NEW ms, NEW b, GoodMsgs(ms), Sized(ms), I2c!RdLen(ms) = 0, Len(BytesWritten(ms)) >= 1,
         TakenIs(b, ms, Len(BytesWritten(ms)) - 1)
  PROVE  Len(ms) = 1 /\ Append(b.taken, ms[1].bytes[Len(ms[1].bytes)]) = ms[1].bytes
<1>1. \E w, bs : WriteOf(w, bs) /\ ms = <<w>>
  <2>1. ASSUME NEW r, NEW n, ReadOf(r, n), ms[Len(ms)] = r PROVE FALSE
    BY <2>1 DEF ReadOf, I2c!RdLen, I2c!ReadMsg, I2c!ReadLimit
  <2>2. ASSUME NEW r, NEW n, ReadOf(r, n), ms = <<r>> PROVE FALSE
    <3>1. ms[Len(ms)] = r
      BY <2>2
    <3>. QED
      BY <2>1, <2>2, <3>1
  <2>3. ASSUME NEW w, NEW bs, NEW r, NEW n, ReadOf(r, n), ms = <<w, r>> PROVE FALSE
    <3>1. ms[Len(ms)] = r
      BY <2>3
    <3>. QED
      BY <2>1, <2>3, <3>1
  <2>. QED
    BY <2>2, <2>3, Zenon DEF GoodMsgs
<1>2. PICK w, bs : WriteOf(w, bs) /\ ms = <<w>>
  BY <1>1
<1>3. Len(ms) = 1 /\ ms[1].bytes = bs /\ BytesWritten(ms) = bs /\ IsSeq(bs)
  BY <1>2 DEF WriteOf, I2c!WriteMsg, BytesWritten, I2c!BytesOf
<1>4. PICK n : n = Len(bs)
  OBVIOUS
<1>5. n \in Nat /\ n >= 1 /\ bs = [i \in 1..n |-> bs[i]]
  BY <1>3, <1>4, SeqIs
<1>6. PICK u : u = Append(b.taken, bs[n])
  OBVIOUS
<1>7. IsSeq(b.taken) /\ Len(b.taken) = n - 1 /\ \A i \in 1..n - 1 : b.taken[i] = bs[i]
  BY <1>3, <1>4 DEF TakenIs
<1>8. LongerBy(u, b.taken, bs[n])
  BY <1>6, <1>7, Appends
<1>9. IsSeq(u) /\ Len(u) = n /\ (\A i \in 1..n - 1 : u[i] = bs[i]) /\ u[n] = bs[n]
  <2>1. n - 1 + 1 = n
    BY <1>5
  <2>. QED
    BY <1>7, <1>8, <2>1 DEF LongerBy
<1>10. u = [i \in 1..n |-> u[i]]
  BY <1>9, SeqIs
<1>11. ASSUME NEW i \in 1..n PROVE u[i] = bs[i]
  <2>1. i \in 1..n - 1 \/ i = n
    BY <1>5
  <2>. QED
    BY <1>9, <2>1
<1>12. u = bs
  BY <1>5, <1>10, <1>11
<1>. QED
  BY <1>3, <1>4, <1>6, <1>12

\* The calls of the bring-up.
LEMMA JobList == ASSUME NEW v
  PROVE /\ Len(I2c!JobsOf(v)) = 9
        /\ I2c!JobsOf(v)[1] = I2c!ReadReg("rev") /\ I2c!JobsOf(v)[2] = I2c!WriteReg("hpd", "c0")
        /\ I2c!JobsOf(v)[3] = I2c!ReadReg("power") /\ I2c!JobsOf(v)[4] = I2c!WriteReg("power", I2c!PoweredUp(v))
        /\ I2c!JobsOf(v)[5] = I2c!ReadReg("power") /\ I2c!JobsOf(v)[6] = I2c!WriteReg("power", "10")
        /\ I2c!JobsOf(v)[7] = I2c!WriteReg("hpd", "c0") /\ I2c!JobsOf(v)[8] = <<I2c!ReadMsg(2)>>
        /\ I2c!JobsOf(v)[9] = I2c!WriteReg("a", "b") \o I2c!WriteReg("a", "b")
<1>1. PICK s : s = I2c!BringUp(v)
  OBVIOUS
<1>2. PICK t : t = I2c!DisplayCalls
  OBVIOUS
<1>3. PICK u : u = I2c!JobsOf(v)
  OBVIOUS
<1>4. u = s \o t
  BY <1>1, <1>2, <1>3 DEF I2c!JobsOf
<1>5. /\ IsSeq(s) /\ Len(s) = 5
      /\ s[1] = I2c!ReadReg("rev") /\ s[2] = I2c!WriteReg("hpd", "c0") /\ s[3] = I2c!ReadReg("power")
      /\ s[4] = I2c!WriteReg("power", I2c!PoweredUp(v)) /\ s[5] = I2c!ReadReg("power")
  <2>1. PICK x1, x2, x3, x4 : x1 = I2c!ReadReg("rev") /\ x2 = I2c!WriteReg("hpd", "c0") /\ x3 = I2c!ReadReg("power")
                              /\ x4 = I2c!WriteReg("power", I2c!PoweredUp(v))
    OBVIOUS
  <2>2. s = <<x1, x2, x3, x4, x3>>
    BY <1>1, <2>1 DEF I2c!BringUp
  <2>3. s \in Seq({x1, x2, x3, x4})
    BY <2>2
  <2>. QED
    BY <2>1, <2>2, <2>3 DEF IsSeq
<1>6. /\ IsSeq(t) /\ Len(t) = 4
      /\ t[1] = I2c!WriteReg("power", "10") /\ t[2] = I2c!WriteReg("hpd", "c0") /\ t[3] = <<I2c!ReadMsg(2)>>
      /\ t[4] = I2c!WriteReg("a", "b") \o I2c!WriteReg("a", "b")
  <2>1. PICK x1, x2, x3, x4 : x1 = I2c!WriteReg("power", "10") /\ x2 = I2c!WriteReg("hpd", "c0") /\
          x3 = <<I2c!ReadMsg(2)>>
                              /\ x4 = I2c!WriteReg("a", "b") \o I2c!WriteReg("a", "b")
    OBVIOUS
  <2>2. t = <<x1, x2, x3, x4>>
    BY <1>2, <2>1 DEF I2c!DisplayCalls
  <2>3. t \in Seq({x1, x2, x3, x4})
    BY <2>2
  <2>. QED
    BY <2>1, <2>2, <2>3 DEF IsSeq
<1>7. JoinOf(u, s, t)
  BY <1>4, <1>5, <1>6, Joins
<1>8. Len(u) = 9 /\ (\A i \in 1..5 : u[i] = s[i]) /\ \A i \in 1..4 : u[5 + i] = t[i]
  BY <1>5, <1>6, <1>7 DEF JoinOf
<1>9. u[1] = s[1] /\ u[2] = s[2] /\ u[3] = s[3] /\ u[4] = s[4] /\ u[5] = s[5]
      /\ u[6] = t[1] /\ u[7] = t[2] /\ u[8] = t[3] /\ u[9] = t[4]
  BY <1>8
<1>. QED
  BY <1>3, <1>5, <1>6, <1>8, <1>9

\* A call reads a register, writes one, or is one of the two of DisplayDxe that do neither.
ReadsReg(ms, r) == Len(ms) = 2 /\ I2c!Known(ms) /\ GoodMsgs(ms) /\ Sized(ms) /\ BytesWritten(ms) = <<r>> /\
    I2c!RdLen(ms) = 1
WritesReg(ms, r, v) == Len(ms) = 1 /\ I2c!Known(ms) /\ GoodMsgs(ms) /\ Sized(ms) /\ BytesWritten(ms) = <<r, v>> /\
    I2c!RdLen(ms) = 0
LEMMA ReadRegIs == ASSUME NEW r PROVE ReadsReg(I2c!ReadReg(r), r)
<1>1. PICK w, x, ms : w = I2c!WriteMsg(<<r>>) /\ x = I2c!ReadMsg(1) /\ ms = <<w, x>>
  OBVIOUS
<1>2. ms = I2c!ReadReg(r)
  BY <1>1 DEF I2c!ReadReg
<1>3. w.rd = FALSE /\ w.bytes = <<r>> /\ x.rd = TRUE /\ x.n = 1
  BY <1>1 DEF I2c!WriteMsg, I2c!ReadMsg
<1>4. Len(ms) = 2 /\ ms[1] = w /\ ms[2] = x
  BY <1>1
<1>5. WriteOf(w, <<r>>) /\ ReadOf(x, 1)
  BY <1>1, OneLong DEF WriteOf, ReadOf
<1>6. GoodMsgs(ms)
  BY <1>1, <1>5, Zenon DEF GoodMsgs
<1>7. Sized(ms)
  BY <1>6, StreamTagged DEF StreamIs
<1>8. I2c!Known(ms) /\ BytesWritten(ms) = <<r>> /\ I2c!RdLen(ms) = 1
  BY <1>3, <1>4 DEF I2c!Known, BytesWritten, I2c!BytesOf, I2c!RdLen, I2c!ReadLimit
<1>. QED
  BY <1>2, <1>4, <1>6, <1>7, <1>8 DEF ReadsReg
LEMMA WriteRegIs ==
  ASSUME NEW r, NEW v
  PROVE  WritesReg(I2c!WriteReg(r, v), r, v) /\ ~I2c!Known(I2c!WriteReg(r, v) \o I2c!WriteReg(r, v))
<1>1. PICK w, ms : w = I2c!WriteMsg(<<r, v>>) /\ ms = <<w>>
  OBVIOUS
<1>2. ms = I2c!WriteReg(r, v)
  BY <1>1 DEF I2c!WriteReg
<1>3. w.rd = FALSE /\ w.bytes = <<r, v>>
  BY <1>1 DEF I2c!WriteMsg
<1>4. Len(ms) = 1 /\ ms[1] = w
  BY <1>1
<1>5. WriteOf(w, <<r, v>>)
  <2>1. PICK bs : bs = <<r, v>>
    OBVIOUS
  <2>2. bs \in Seq({r, v}) /\ Len(bs) = 2
    BY <2>1
  <2>3. IsSeq(bs) /\ Len(bs) >= 1
    BY <2>2 DEF IsSeq
  <2>. QED
    BY <1>1, <2>1, <2>3 DEF WriteOf
<1>6. GoodMsgs(ms)
  BY <1>1, <1>5, Zenon DEF GoodMsgs
<1>7. Sized(ms)
  BY <1>6, StreamTagged DEF StreamIs
<1>8. I2c!Known(ms) /\ BytesWritten(ms) = <<r, v>> /\ I2c!RdLen(ms) = 0
  BY <1>3, <1>4 DEF I2c!Known, BytesWritten, I2c!BytesOf, I2c!RdLen
<1>9. ~I2c!Known(ms \o ms)
  <2>1. PICK two : two = <<w>> \o <<w>>
    OBVIOUS
  <2>2. IsPair(two, w, w)
    BY <2>1, TwoLong
  <2>3. ~I2c!Known(two)
    BY <1>3, <2>2 DEF I2c!Known, IsPair
  <2>. QED
    BY <1>1, <2>1, <2>3
<1>. QED
  BY <1>2, <1>4, <1>6, <1>7, <1>8, <1>9 DEF WritesReg
LEMMA ReadTwoIs == GoodMsgs(<<I2c!ReadMsg(2)>>)
<1>1. ReadOf(I2c!ReadMsg(2), 2)
  BY DEF ReadOf
<1>. QED
  BY <1>1, Zenon DEF GoodMsgs

LEMMA JobsGood == ASSUME NEW v, NEW j \in 1..9, NEW ms, ms = I2c!JobsOf(v)[j], I2c!Known(ms) PROVE GoodMsgs(ms)
<1>1. ASSUME NEW r, ms = I2c!ReadReg(r) PROVE GoodMsgs(ms)
  BY <1>1, ReadRegIs DEF ReadsReg
<1>2. ASSUME NEW r, NEW x, ms = I2c!WriteReg(r, x) PROVE GoodMsgs(ms)
  BY <1>2, WriteRegIs DEF WritesReg
<1>3. CASE j = 1
  BY <1>1, <1>3, JobList
<1>4. CASE j = 2
  BY <1>2, <1>4, JobList
<1>5. CASE j = 3
  BY <1>1, <1>5, JobList
<1>6. CASE j = 4
  BY <1>2, <1>6, JobList
<1>7. CASE j = 5
  BY <1>1, <1>7, JobList
<1>8. CASE j = 6
  BY <1>2, <1>8, JobList
<1>9. CASE j = 7
  BY <1>2, <1>9, JobList
<1>10. CASE j = 8
  BY <1>10, JobList, ReadTwoIs
<1>11. CASE j = 9
  BY <1>11, JobList, WriteRegIs
<1>. QED
  BY <1>3, <1>4, <1>5, <1>6, <1>7, <1>8, <1>9, <1>10, <1>11

\* The bridge's registers and the value the driver holds after j calls of an undisturbed bring-up.
RegsAfter(j) == [r \in {"rev", "hpd", "power", "a"} |->
                   IF r = "rev" THEN "rev"
                   ELSE IF r = "hpd" THEN (IF j >= 2 THEN "c0" ELSE "boot")
                   ELSE IF r = "power" THEN (IF j >= 4 THEN "on" ELSE "off")
                   ELSE "boot"]
ValAfter(j) == IF j = 0 THEN "0" ELSE IF j \in {1, 2} THEN "rev" ELSE IF j \in {3, 4} THEN "off" ELSE "on"
\* What the j-th call of it does.
Reading(j, ms) == \E r : ReadsReg(ms, r) /\ RegsAfter(j - 1)[r] = ValAfter(j) /\ RegsAfter(j) = RegsAfter(j - 1)
Writing(j, ms) == \E r, v : WritesReg(ms, r, v) /\ [RegsAfter(j - 1) EXCEPT ![r] = v] = RegsAfter(j) /\
    ValAfter(j) = ValAfter(j - 1)
Upkeep(j, ms) == (j \in {1, 3, 5} /\ Reading(j, ms)) \/ (j \in {2, 4} /\ Writing(j, ms))

LEMMA BringUpCalls == ASSUME NEW j \in 1..5, NEW ms, ms = I2c!JobsOf(ValAfter(j - 1))[j] PROVE Upkeep(j, ms)
<1>1. CASE j = 1
  <2>1. RegsAfter(j - 1)["rev"] = ValAfter(j) /\ RegsAfter(j) = RegsAfter(j - 1)
    BY <1>1 DEF RegsAfter, ValAfter
  <2>2. ReadsReg(ms, "rev")
    BY <1>1, JobList, ReadRegIs
  <2>. QED
    BY <1>1, <2>1, <2>2 DEF Upkeep, Reading
<1>2. CASE j = 2
  <2>1. [RegsAfter(j - 1) EXCEPT !["hpd"] = "c0"] = RegsAfter(j) /\ ValAfter(j) = ValAfter(j - 1)
    <3>1. RegsAfter(j - 1) = [r \in {"rev", "hpd", "power", "a"} |->
              IF r = "rev" THEN "rev" ELSE IF r = "power" THEN "off" ELSE "boot"]
      BY <1>2 DEF RegsAfter
    <3>2. RegsAfter(j) = [r \in {"rev", "hpd", "power", "a"} |->
              IF r = "rev" THEN "rev" ELSE IF r = "hpd" THEN "c0" ELSE IF r = "power" THEN "off" ELSE "boot"]
      BY <1>2 DEF RegsAfter
    <3>3. ValAfter(j) = ValAfter(j - 1)
      BY <1>2 DEF ValAfter
    <3>. QED
      BY <3>1, <3>2, <3>3
  <2>2. WritesReg(ms, "hpd", "c0")
    BY <1>2, JobList, WriteRegIs
  <2>. QED
    BY <1>2, <2>1, <2>2 DEF Upkeep, Writing
<1>3. CASE j = 3
  <2>1. RegsAfter(j - 1)["power"] = ValAfter(j) /\ RegsAfter(j) = RegsAfter(j - 1)
    BY <1>3 DEF RegsAfter, ValAfter
  <2>2. ReadsReg(ms, "power")
    BY <1>3, JobList, ReadRegIs
  <2>. QED
    BY <1>3, <2>1, <2>2 DEF Upkeep, Reading
<1>4. CASE j = 4
  <2>1. [RegsAfter(j - 1) EXCEPT !["power"] = "on"] = RegsAfter(j) /\ ValAfter(j) = ValAfter(j - 1)
    <3>1. RegsAfter(j - 1) = [r \in {"rev", "hpd", "power", "a"} |->
              IF r = "rev" THEN "rev" ELSE IF r = "hpd" THEN "c0" ELSE IF r = "power" THEN "off" ELSE "boot"]
      BY <1>4 DEF RegsAfter
    <3>2. RegsAfter(j) = [r \in {"rev", "hpd", "power", "a"} |->
              IF r = "rev" THEN "rev" ELSE IF r = "hpd" THEN "c0" ELSE IF r = "power" THEN "on" ELSE "boot"]
      BY <1>4 DEF RegsAfter
    <3>3. ValAfter(j) = ValAfter(j - 1)
      BY <1>4 DEF ValAfter
    <3>. QED
      BY <3>1, <3>2, <3>3
  <2>2. I2c!PoweredUp(ValAfter(j - 1)) = "on"
    BY <1>4 DEF ValAfter, I2c!PoweredUp
  <2>3. ms = I2c!WriteReg("power", I2c!PoweredUp(ValAfter(j - 1)))
    BY <1>4, JobList
  <2>4. WritesReg(ms, "power", "on")
    BY <2>2, <2>3, WriteRegIs
  <2>. QED
    BY <1>4, <2>1, <2>4 DEF Upkeep, Writing
<1>5. CASE j = 5
  <2>1. RegsAfter(j - 1)["power"] = ValAfter(j) /\ RegsAfter(j) = RegsAfter(j - 1)
    BY <1>5 DEF RegsAfter, ValAfter
  <2>2. ReadsReg(ms, "power")
    BY <1>5, JobList, ReadRegIs
  <2>. QED
    BY <1>5, <2>1, <2>2 DEF Upkeep, Reading
<1>. QED
  BY <1>1, <1>2, <1>3, <1>4, <1>5

\* The I2C controller: what the records of its state are.
DriverRecord(d) ==
  d = [pc |-> d.pc, job |-> d.job, msgs |-> d.msgs, rc |-> d.rc, op |-> d.op, buf |-> d.buf,
       val |-> d.val, progress |-> d.progress, faults |-> d.faults, allOk |-> d.allOk]
QupRecord(q) ==
  q = [state |-> q.state, gen |-> q.gen, out |-> q.out, in |-> q.in, want |-> q.want,
       due |-> q.due, error |-> q.error]
BridgeRecord(b) ==
  b = [regs |-> b.regs, ptr |-> b.ptr, count |-> b.count, taken |-> b.taken, sent |-> b.sent]

Early == {"gen", "run", "pause", "push"}
Late == {"start", "poll", "polled", "drain", "teardown", "done"}
NoCall == {"init", "idle"}

\* Where the driver is, and that a call that has not failed is one that qup_i2c_xfer knows.
DriverInv(d) ==
  /\ d.job \in Nat /\ d.faults \in Int /\ d.faults <= I2cFaults
  /\ d.pc \in NoCall \cup {"sw_reset"} \cup Early \cup Late
  /\ d.pc \in NoCall => d.progress = 0
  /\ d.pc \notin NoCall \cup {"teardown", "done"} => d.rc = "ok"
  /\ d.pc \notin NoCall /\ d.rc = "ok" => GoodMsgs(d.msgs)

\* How far the transfer of a call that has not failed has come.
WantIs(ms, q) == q.want = IF I2c!RdLen(ms) > 0 THEN I2c!RdLen(ms) + 2 ELSE 0
FlagsTrue(d, q) == (d.op.out => q.out = <<>>) /\ (d.op.in => Len(q.in) >= q.want)
TransferInv(d, q, b) == d.rc = "ok" =>
  /\ d.pc \in Early => Blank(q, b)
  /\ d.pc \in Late => Moved(d.msgs, q, b)
  /\ d.pc \in {"run", "pause", "push", "start", "poll", "polled"} => WantIs(d.msgs, q)
  /\ d.pc = "polled" => FlagsTrue(d, q)
  /\ d.pc \in {"drain", "teardown", "done"} => AllThere(d.msgs, q)
  /\ d.pc \in {"teardown", "done"} => d.buf = b.sent

\* What an undisturbed bring-up has done so far.
Undisturbed(d) == d.faults = I2cFaults /\ d.job <= 5
RegsNow(j, b) == b.regs = IF j \in {2, 4} /\ Len(b.taken) = 2 THEN RegsAfter(j) ELSE RegsAfter(j - 1)
SentNow(j, b) == j \in {1, 3, 5} => \A i \in 1..Len(b.sent) : b.sent[i] = ValAfter(j)
BusQuiet(q) == q.out = <<>> /\ q.due = 0
BringUpInv(d, q, b) == Undisturbed(d) =>
  /\ q.error = FALSE
  /\ d.pc \in NoCall \cup {"sw_reset"} => BusQuiet(q)
  /\ d.pc \in NoCall => b.regs = RegsAfter(d.job) /\ d.val = ValAfter(d.job)
  /\ d.pc \notin NoCall => d.job \in 1..5 /\ d.rc = "ok" /\ Upkeep(d.job, d.msgs) /\ d.val = ValAfter(d.job - 1)
  /\ d.pc \in {"sw_reset"} \cup Early => b.regs = RegsAfter(d.job - 1)
  /\ d.pc \in Late => RegsNow(d.job, b) /\ SentNow(d.job, b)

I2cRecords(d, q, b) == DriverRecord(d) /\ QupRecord(q) /\ BridgeRecord(b)
I2cState(d, q, b) == I2cRecords(d, q, b) /\ DriverInv(d) /\ TransferInv(d, q, b) /\ BringUpInv(d, q, b)
I2cInv == \E d, q, b : slot1 = d /\ slot2 = q /\ slot3 = b /\ I2cState(d, q, b)

LEMMA I2cStarts == ASSUME I2c!I2cInit PROVE I2cInv
<1>1. PICK d, q, b : d = slot1 /\ q = slot2 /\ b = slot3
  OBVIOUS
<1>2. d = [pc |-> "init", job |-> 0, msgs |-> <<>>, rc |-> "ok", op |-> [out |-> FALSE, in |-> FALSE], buf |-> <<>>,
           val |-> "0", progress |-> 0, faults |-> I2cFaults, allOk |-> TRUE]
  BY <1>1 DEF I2c!I2cInit
<1>3. q = [state |-> "reset", gen |-> FALSE, out |-> <<>>, in |-> <<>>, want |-> 0, due |-> 0, error |-> FALSE]
  BY <1>1 DEF I2c!I2cInit, I2c!IdleQup
<1>4. PICK regs : regs = [r \in {"rev", "hpd", "power", "a"} |->
          CASE r = "rev" -> "rev" [] r = "power" -> "off" [] OTHER -> "boot"]
  OBVIOUS
<1>5. b = [regs |-> regs, ptr |-> "rev", count |-> 0, taken |-> <<>>, sent |-> <<>>]
  BY <1>1, <1>4 DEF I2c!I2cInit
<1>6. regs = RegsAfter(0) /\ ValAfter(0) = "0"
  BY <1>4 DEF RegsAfter, ValAfter
<1>7. I2cRecords(d, q, b)
  BY <1>2, <1>3, <1>5 DEF I2cRecords, DriverRecord, QupRecord, BridgeRecord
<1>8. DriverInv(d)
  BY <1>2, I2cFaultsAssumption DEF DriverInv, NoCall, I2c!I2cFaultsAssumption
<1>9. TransferInv(d, q, b)
  BY <1>2 DEF TransferInv, Early, Late
<1>10. BringUpInv(d, q, b)
  BY <1>2, <1>3, <1>5, <1>6 DEF BringUpInv, NoCall, Early, Late, BusQuiet
<1>. QED
  BY <1>1, <1>7, <1>8, <1>9, <1>10, Zenon DEF I2cInv, I2cState

\* What each kind of update leaves.
CallStays(d, e) == e.job = d.job /\ e.msgs = d.msgs /\ e.val = d.val /\ e.faults = d.faults
LEMMA Jumps == ASSUME NEW d, slot1 = d, DriverRecord(d), NEW to, I2c!Jump(to), NEW e, e = slot1'
  PROVE  DriverRecord(e) /\ e.pc = to /\ e.rc = d.rc /\ e.op = d.op /\ e.buf = d.buf /\ e.progress = d.progress /\
      CallStays(d, e)
<1>1. e = [d EXCEPT !.pc = to]
  BY DEF I2c!Jump
<1>. QED
  BY <1>1 DEF DriverRecord, CallStays
LEMMA Expires == ASSUME NEW d, slot1 = d, DriverRecord(d), NEW to, I2c!TimesOut(to), NEW e, e = slot1'
  PROVE  DriverRecord(e) /\ e.pc = to /\ e.rc = "error" /\ e.faults = d.faults - 1 /\ e.job = d.job
<1>1. e = [d EXCEPT !.pc = to, !.rc = "error", !.faults = d.faults - 1]
  BY DEF I2c!TimesOut
<1>. QED
  BY <1>1 DEF DriverRecord

\* A call that has failed promises nothing more.
LEMMA FailedCall ==
  ASSUME NEW d, NEW e, NEW q, NEW b, DriverInv(d), I2cRecords(e, q, b), e.pc \in {"teardown", "done"},
         e.rc = "error",
                       e.job = d.job, e.faults = d.faults - 1
  PROVE  I2cState(e, q, b)
<1>1. e.faults \in Int /\ e.faults <= I2cFaults /\ e.faults # I2cFaults
  BY I2cFaultsAssumption DEF DriverInv, I2c!I2cFaultsAssumption
<1>2. DriverInv(e)
  BY <1>1 DEF DriverInv, NoCall, Early, Late
<1>3. TransferInv(e, q, b) /\ BringUpInv(e, q, b)
  BY <1>1 DEF TransferInv, BringUpInv, Undisturbed
<1>. QED
  BY <1>2, <1>3 DEF I2cState

\* What the controller does on the bus.
OnBus == I2c!StartOnBus \/ I2c!ByteOnBus \/ I2c!ReadOrder \/ I2c!ReadOnBus
SameQup(q, p) == p.want = q.want /\ p.error = q.error /\ p.out = Tail(q.out)
LEMMA TakenOff == ASSUME NEW q, QupRecord(q), NEW p, p = [q EXCEPT !.out = Tail(@)]
  PROVE QupRecord(p) /\ SameQup(q, p) /\ p.in = q.in /\ p.due = q.due
BY DEF QupRecord, SameQup

StartFlat(q, b, p, c) ==
  /\ q.out # <<>> /\ q.due = 0 /\ ~q.error /\ Head(q.out).tag \in {"start", "wr"}
  /\ SameQup(q, p) /\ p.in = q.in /\ p.due = q.due
  /\ c.regs = b.regs /\ c.ptr = b.ptr /\ c.taken = b.taken /\ c.sent = b.sent
  /\ Head(q.out).tag = "start" => c.count = 0
  /\ Head(q.out).tag = "wr" => c.count = b.count
LEMMA StartIs ==
  ASSUME NEW q, NEW b, NEW p, NEW c, slot2 = q, slot3 = b, p = slot2', c = slot3', QupRecord(q), BridgeRecord(b),
         I2c!StartOnBus
  PROVE  StartFlat(q, b, p, c) /\ QupRecord(p) /\ BridgeRecord(c)
<1>1. q.out # <<>> /\ q.due = 0 /\ ~q.error /\ Head(q.out).tag \in {"start", "wr"}
  BY DEF I2c!StartOnBus, I2c!Working, I2c!Next1
<1>2. p = [q EXCEPT !.out = Tail(@)]
  BY DEF I2c!StartOnBus, I2c!Taken
<1>3. c = IF Head(q.out).tag = "start" THEN [b EXCEPT !.count = 0] ELSE b
  BY DEF I2c!StartOnBus, I2c!Next1
<1>4. /\ BridgeRecord(c) /\ c.regs = b.regs /\ c.ptr = b.ptr /\ c.taken = b.taken /\ c.sent = b.sent
      /\ Head(q.out).tag = "start" => c.count = 0
      /\ Head(q.out).tag = "wr" => c.count = b.count
  BY <1>3 DEF BridgeRecord
<1>. QED
  BY <1>1, <1>2, <1>4, TakenOff DEF StartFlat

ByteFlat(q, b, p, c) ==
  /\ q.out # <<>> /\ q.due = 0 /\ ~q.error /\ Head(q.out).tag = "byte"
  /\ SameQup(q, p) /\ p.in = q.in /\ p.due = q.due
  /\ c.taken = Append(b.taken, Head(q.out).v) /\ c.sent = b.sent /\ c.count = b.count + 1
  /\ b.count = 0 => c.ptr = Head(q.out).v /\ c.regs = b.regs
  /\ b.count # 0 => c.ptr = b.ptr /\ c.regs = [b.regs EXCEPT ![b.ptr] = Head(q.out).v]
LEMMA ByteIs ==
  ASSUME NEW q, NEW b, NEW p, NEW c, slot2 = q, slot3 = b, p = slot2', c = slot3', QupRecord(q), BridgeRecord(b),
         I2c!ByteOnBus
  PROVE  ByteFlat(q, b, p, c) /\ QupRecord(p) /\ BridgeRecord(c)
<1>1. q.out # <<>> /\ q.due = 0 /\ ~q.error /\ Head(q.out).tag = "byte"
  BY DEF I2c!ByteOnBus, I2c!Working, I2c!Next1
<1>2. p = [q EXCEPT !.out = Tail(@)]
  BY DEF I2c!ByteOnBus, I2c!Taken
<1>3. PICK v : v = Head(q.out).v
  OBVIOUS
<1>4. c = [b EXCEPT !.count = @ + 1, !.taken = Append(@, v), !.ptr = IF b.count = 0 THEN v ELSE @,
                    !.regs = IF b.count = 0 THEN @ ELSE [@ EXCEPT ![b.ptr] = v]]
  BY <1>3 DEF I2c!ByteOnBus, I2c!Next1
<1>5. /\ BridgeRecord(c) /\ c.taken = Append(b.taken, v) /\ c.sent = b.sent /\ c.count = b.count + 1
      /\ c.ptr = (IF b.count = 0 THEN v ELSE b.ptr)
      /\ c.regs = (IF b.count = 0 THEN b.regs ELSE [b.regs EXCEPT ![b.ptr] = v])
  BY <1>4 DEF BridgeRecord
<1>. QED
  BY <1>1, <1>2, <1>3, <1>5, TakenOff DEF ByteFlat

OrderFlat(q, b, p, c) ==
  /\ q.out # <<>> /\ q.due = 0 /\ ~q.error /\ Head(q.out).tag = "rd"
  /\ SameQup(q, p) /\ p.in = <<"tag", "len">> /\ p.due = Head(q.out).n
  /\ c = b
LEMMA OrderIs ==
  ASSUME NEW q, NEW b, NEW p, NEW c, slot2 = q, slot3 = b, p = slot2', c = slot3', QupRecord(q), I2c!ReadOrder
  PROVE  OrderFlat(q, b, p, c) /\ QupRecord(p)
<1>1. q.out # <<>> /\ q.due = 0 /\ ~q.error /\ Head(q.out).tag = "rd" /\ c = b
  BY DEF I2c!ReadOrder, I2c!Working, I2c!Next1
<1>2. PICK x, n, u : x = [q EXCEPT !.out = Tail(@)] /\ n = Head(q.out).n /\ u = <<"tag", "len">>
  OBVIOUS
<1>3. p = [x EXCEPT !.due = n, !.in = u]
  BY <1>2 DEF I2c!ReadOrder, I2c!Taken, I2c!Next1
<1>4. QupRecord(x) /\ SameQup(q, x)
  BY <1>2, TakenOff
<1>5. QupRecord(p) /\ p.want = x.want /\ p.error = x.error /\ p.out = x.out /\ p.in = u /\ p.due = n
  BY <1>3, <1>4 DEF QupRecord
<1>. QED
  BY <1>1, <1>2, <1>4, <1>5 DEF OrderFlat, SameQup

ReadFlat(q, b, p, c) ==
  /\ q.due > 0 /\ p.want = q.want /\ p.error = q.error /\ p.out = q.out /\ p.due = q.due - 1
  /\ p.in = Append(q.in, b.regs[b.ptr])
  /\ c.regs = b.regs /\ c.ptr = b.ptr /\ c.count = b.count /\ c.taken = b.taken /\
       c.sent = Append(b.sent, b.regs[b.ptr])
LEMMA ReadIs ==
  ASSUME NEW q, NEW b, NEW p, NEW c, slot2 = q, slot3 = b, p = slot2', c = slot3', QupRecord(q), BridgeRecord(b),
         I2c!ReadOnBus
  PROVE  ReadFlat(q, b, p, c) /\ QupRecord(p) /\ BridgeRecord(c)
<1>1. PICK v : v = b.regs[b.ptr]
  OBVIOUS
<1>2. q.due > 0 /\ p = [q EXCEPT !.due = @ - 1, !.in = Append(@, v)] /\ c = [b EXCEPT !.sent = Append(@, v)]
  BY <1>1 DEF I2c!ReadOnBus
<1>3. QupRecord(p) /\ p.want = q.want /\ p.error = q.error /\ p.out = q.out /\ p.due = q.due - 1 /\
        p.in = Append(q.in, v)
  BY <1>2 DEF QupRecord
<1>4. BridgeRecord(c) /\ c.regs = b.regs /\ c.ptr = b.ptr /\ c.count = b.count /\ c.taken = b.taken /\
        c.sent = Append(b.sent, v)
  BY <1>2 DEF BridgeRecord
<1>. QED
  BY <1>1, <1>2, <1>3, <1>4 DEF ReadFlat

BusFlat(q, b, p, c) ==
  StartFlat(q, b, p, c) \/ ByteFlat(q, b, p, c) \/ OrderFlat(q, b, p, c) \/ ReadFlat(q, b, p, c)

\* A transfer under way stays one, and what has been seen of the FIFOs stays true.
LEMMA BusMoves == ASSUME NEW ms, NEW q, NEW b, NEW p, NEW c, Sized(ms), Moved(ms, q, b), BusFlat(q, b, p, c)
  PROVE Moved(ms, p, c)
<1>1. CASE StartFlat(q, b, p, c)
  BY <1>1, StartMoves DEF StartFlat, SameQup
<1>2. CASE ByteFlat(q, b, p, c)
  BY <1>2, ByteMoves DEF ByteFlat, SameQup
<1>3. CASE OrderFlat(q, b, p, c)
  BY <1>3, OrderMoves DEF OrderFlat, SameQup
<1>4. CASE ReadFlat(q, b, p, c)
  <2>1. PICK v : v = b.regs[b.ptr]
    OBVIOUS
  <2>2. /\ q.due > 0 /\ p.out = q.out /\ p.in = Append(q.in, v) /\ p.due = q.due - 1 /\ p.error = q.error
        /\ c.taken = b.taken /\ c.sent = Append(b.sent, v) /\ c.count = b.count /\ c.ptr = b.ptr
    BY <1>4, <2>1 DEF ReadFlat
  <2>. QED
    BY <2>2, ReadMoves
<1>. QED
  BY <1>1, <1>2, <1>3, <1>4 DEF BusFlat

LEMMA BusIsBusy ==
  ASSUME NEW q, NEW b, NEW p, NEW c, BusFlat(q, b, p, c)
  PROVE  ~BusQuiet(q) /\ p.want = q.want /\ p.error = q.error
BY DEF BusFlat, StartFlat, ByteFlat, OrderFlat, ReadFlat, SameQup, BusQuiet

LEMMA FlagsStay ==
  ASSUME NEW ms, NEW d, NEW q, NEW b, NEW p, NEW c, Sized(ms), Moved(ms, q, b), WantIs(ms, q), FlagsTrue(d, q),
         BusFlat(q, b, p, c)
  PROVE  FlagsTrue(d, p)
<1>1. q.want \in Int /\ p.want = q.want
  <2>1. I2c!RdLen(ms) \in Nat
    BY Sizes
  <2>. QED
    BY <2>1, BusIsBusy DEF WantIs
<1>2. CASE StartFlat(q, b, p, c) \/ ByteFlat(q, b, p, c)
  <2>1. p.in = q.in /\ q.out # <<>>
    BY <1>2 DEF StartFlat, ByteFlat
  <2>. QED
    BY <1>1, <2>1 DEF FlagsTrue
<1>3. CASE OrderFlat(q, b, p, c)
  <2>1. q.in = <<>>
    BY <1>3, OrderMoves DEF OrderFlat, SameQup
  <2>2. Len(q.in) = 0 /\ Len(p.in) = 2 /\ q.out # <<>>
    BY <1>3, <2>1 DEF OrderFlat
  <2>. QED
    BY <1>1, <2>2 DEF FlagsTrue
<1>4. CASE ReadFlat(q, b, p, c)
  <2>1. PICK v : v = b.regs[b.ptr]
    OBVIOUS
  <2>2. /\ q.due > 0 /\ p.out = q.out /\ p.in = Append(q.in, v) /\ p.due = q.due - 1 /\ p.error = q.error
        /\ c.taken = b.taken /\ c.sent = Append(b.sent, v) /\ c.count = b.count /\ c.ptr = b.ptr
    BY <1>4, <2>1 DEF ReadFlat
  <2>3. Len(q.in) \in Nat /\ Len(p.in) = Len(q.in) + 1
    <3>1. ReadFacts(ms, q, b, p, c, v)
      BY <2>2, ReadMoves
    <3>. QED
      BY <3>1 DEF ReadFacts
  <2>. QED
    BY <1>1, <2>2, <2>3 DEF FlagsTrue
<1>. QED
  BY <1>2, <1>3, <1>4 DEF BusFlat

\* The bring-up's registers follow the bytes that the bridge takes, and what it sends is theirs.
LEMMA RegsFollow ==
  ASSUME NEW j \in 1..5, NEW ms, NEW q, NEW b, NEW p, NEW c, Upkeep(j, ms), Moved(ms, q, b), RegsNow(j, b),
         SentNow(j, b),
         BusFlat(q, b, p, c)
  PROVE  RegsNow(j, c) /\ SentNow(j, c)
<1>1. Sized(ms)
  BY DEF Upkeep, Reading, Writing, ReadsReg, WritesReg
<1>2. CASE StartFlat(q, b, p, c) \/ OrderFlat(q, b, p, c)
  <2>1. c.regs = b.regs /\ c.taken = b.taken /\ c.sent = b.sent
    BY <1>2 DEF StartFlat, OrderFlat
  <2>. QED
    BY <2>1 DEF RegsNow, SentNow
<1>3. CASE ByteFlat(q, b, p, c)
  <2>1. PICK n, v : n = Len(b.taken) /\ v = Head(q.out).v
    OBVIOUS
  <2>2. /\ b.count = n /\ n \in 0..Len(BytesWritten(ms)) - 1 /\ Len(c.taken) = n + 1 /\ v = BytesWritten(ms)[n + 1]
        /\ n # 0 => b.ptr = BytesWritten(ms)[1]
    <3>1. ByteFacts(ms, q, b, c)
      BY <1>1, <1>3, ByteMoves DEF ByteFlat, SameQup
    <3>. QED
      BY <2>1, <3>1 DEF ByteFacts
  <2>3. c.sent = b.sent /\ (n = 0 => c.regs = b.regs) /\ (n # 0 => c.regs = [b.regs EXCEPT ![b.ptr] = v])
    BY <1>3, <2>1, <2>2 DEF ByteFlat
  <2>4. SentNow(j, c)
    BY <2>3 DEF SentNow
  <2>5. CASE n = 0
    <3>1. b.regs = RegsAfter(j - 1) /\ Len(c.taken) = 1
      BY <2>1, <2>2, <2>5 DEF RegsNow
    <3>. QED
      BY <2>3, <2>4, <2>5, <3>1 DEF RegsNow
  <2>6. CASE n # 0
    <3>1. j \in {2, 4} /\ Writing(j, ms)
      <4>1. ASSUME NEW r, ReadsReg(ms, r) PROVE FALSE
        <5>1. Len(BytesWritten(ms)) = 1
          BY <4>1 DEF ReadsReg
        <5>. QED
          BY <2>2, <2>6, <5>1
      <4>. QED
        BY <4>1 DEF Upkeep, Reading
    <3>2. PICK r, x : WritesReg(ms, r, x) /\ [RegsAfter(j - 1) EXCEPT ![r] = x] = RegsAfter(j)
      BY <3>1 DEF Writing
    <3>3. PICK bs : bs = BytesWritten(ms)
      OBVIOUS
    <3>4. bs = <<r, x>>
      BY <3>2, <3>3 DEF WritesReg
    <3>5. Len(bs) = 2 /\ bs[1] = r /\ bs[2] = x
      BY <3>4
    <3>6. n = 1
      BY <2>2, <2>6, <3>3, <3>5
    <3>7. v = x /\ b.ptr = r /\ Len(c.taken) = 2
      BY <2>2, <3>3, <3>5, <3>6
    <3>8. b.regs = RegsAfter(j - 1)
      BY <2>1, <3>6 DEF RegsNow
    <3>9. c.regs = RegsAfter(j)
      BY <2>3, <2>6, <3>2, <3>7, <3>8
    <3>. QED
      BY <2>4, <3>1, <3>7, <3>9 DEF RegsNow
  <2>. QED
    BY <2>5, <2>6
<1>4. CASE ReadFlat(q, b, p, c)
  <2>1. PICK v : v = b.regs[b.ptr]
    OBVIOUS
  <2>2. /\ q.due > 0 /\ p.out = q.out /\ p.in = Append(q.in, v) /\ p.due = q.due - 1 /\ p.error = q.error
        /\ c.taken = b.taken /\ c.sent = Append(b.sent, v) /\ c.count = b.count /\ c.ptr = b.ptr /\ c.regs = b.regs
    BY <1>4, <2>1 DEF ReadFlat
  <2>3. /\ Len(b.taken) = Len(BytesWritten(ms)) /\ (Len(b.taken) >= 1 => b.ptr = BytesWritten(ms)[1])
        /\ LongerBy(c.sent, b.sent, v) /\ Len(b.sent) \in Nat
    <3>1. ReadFacts(ms, q, b, p, c, v)
      BY <1>1, <2>2, ReadMoves
    <3>. QED
      BY <3>1 DEF ReadFacts
  <2>4. RegsNow(j, c)
    BY <2>2 DEF RegsNow
  <2>5. ASSUME j \in {1, 3, 5} PROVE v = ValAfter(j)
    <3>1. Reading(j, ms)
      BY <2>5 DEF Upkeep
    <3>2. PICK r : ReadsReg(ms, r) /\ RegsAfter(j - 1)[r] = ValAfter(j)
      BY <3>1 DEF Reading
    <3>3. PICK bs : bs = BytesWritten(ms)
      OBVIOUS
    <3>4. bs = <<r>>
      BY <3>2, <3>3 DEF ReadsReg
    <3>5. Len(bs) = 1 /\ bs[1] = r
      BY <3>4
    <3>6. b.ptr = r
      BY <2>3, <3>3, <3>5
    <3>7. b.regs = RegsAfter(j - 1)
      BY <2>5 DEF RegsNow
    <3>. QED
      BY <2>1, <3>2, <3>6, <3>7
  <2>6. SentNow(j, c)
    <3>1. ASSUME j \in {1, 3, 5}, NEW i \in 1..Len(c.sent) PROVE c.sent[i] = ValAfter(j)
      <4>1. i \in 1..Len(b.sent) \/ i = Len(b.sent) + 1
        BY <2>3, <3>1 DEF LongerBy
      <4>2. CASE i \in 1..Len(b.sent)
        BY <2>3, <3>1, <4>2 DEF LongerBy, SentNow
      <4>3. CASE i = Len(b.sent) + 1
        BY <2>3, <2>5, <3>1, <4>3 DEF LongerBy
      <4>. QED
        BY <4>1, <4>2, <4>3
    <3>. QED
      BY <3>1 DEF SentNow
  <2>. QED
    BY <2>4, <2>6
<1>. QED
  BY <1>2, <1>3, <1>4 DEF BusFlat

LEMMA GoodSized == ASSUME NEW ms, GoodMsgs(ms) PROVE Sized(ms)
BY StreamTagged DEF StreamIs

LEMMA BusKeeps ==
  ASSUME NEW d, NEW q, NEW b, NEW p, NEW c, I2cState(d, q, b), I2cRecords(d, p, c), BusFlat(q, b, p, c)
  PROVE  I2cState(d, p, c)
<1>1. ~BusQuiet(q) /\ p.want = q.want /\ p.error = q.error
  BY BusIsBusy
<1>2. DriverInv(d) /\ TransferInv(d, q, b) /\ BringUpInv(d, q, b)
  BY DEF I2cState
<1>3. ASSUME d.rc = "ok", d.pc \notin NoCall PROVE Sized(d.msgs)
  BY <1>2, <1>3, GoodSized DEF DriverInv
<1>4. ASSUME d.rc = "ok" PROVE d.pc \notin Early /\ d.pc \notin {"drain", "teardown", "done"}
  <2>1. d.pc \notin Early
    BY <1>1, <1>2, <1>4 DEF TransferInv, Blank, BusQuiet
  <2>2. ASSUME d.pc \in {"drain", "teardown", "done"} PROVE FALSE
    <3>1. Sized(d.msgs) /\ Moved(d.msgs, q, b) /\ AllThere(d.msgs, q)
      BY <1>2, <1>3, <1>4, <2>2 DEF TransferInv, NoCall, Late
    <3>2. q.due = 0
      BY <3>1, MoveEnds DEF EndsWell
    <3>. QED
      BY <1>1, <3>1, <3>2 DEF AllThere, BusQuiet
  <2>. QED
    BY <2>1, <2>2
<1>5. TransferInv(d, p, c)
  <2>1. SUFFICES ASSUME d.rc = "ok" PROVE
          /\ d.pc \in Late => Moved(d.msgs, p, c)
          /\ d.pc \in {"run", "pause", "push", "start", "poll", "polled"} => WantIs(d.msgs, p)
          /\ d.pc = "polled" => FlagsTrue(d, p)
    BY <1>4 DEF TransferInv
  <2>2. ASSUME d.pc \in Late PROVE Moved(d.msgs, p, c)
    <3>1. Sized(d.msgs) /\ Moved(d.msgs, q, b)
      BY <1>2, <1>3, <2>1, <2>2 DEF TransferInv, NoCall, Late
    <3>. QED
      BY <3>1, BusMoves
  <2>3. d.pc \in {"run", "pause", "push", "start", "poll", "polled"} => WantIs(d.msgs, p)
    BY <1>1, <1>2, <2>1 DEF TransferInv, WantIs
  <2>4. ASSUME d.pc = "polled" PROVE FlagsTrue(d, p)
    <3>1. Sized(d.msgs) /\ Moved(d.msgs, q, b) /\ WantIs(d.msgs, q) /\ FlagsTrue(d, q)
      BY <1>2, <1>3, <2>1, <2>4 DEF TransferInv, NoCall, Late
    <3>. QED
      BY <3>1, FlagsStay
  <2>. QED
    BY <2>2, <2>3, <2>4
<1>6. BringUpInv(d, p, c)
  <2>1. SUFFICES ASSUME Undisturbed(d) PROVE
          /\ p.error = FALSE
          /\ d.pc \in NoCall \cup {"sw_reset"} => BusQuiet(p)
          /\ d.pc \in NoCall => c.regs = RegsAfter(d.job) /\ d.val = ValAfter(d.job)
          /\ d.pc \notin NoCall => d.job \in 1..5 /\ d.rc = "ok" /\ Upkeep(d.job, d.msgs) /\
               d.val = ValAfter(d.job - 1)
          /\ d.pc \in {"sw_reset"} \cup Early => c.regs = RegsAfter(d.job - 1)
          /\ d.pc \in Late => RegsNow(d.job, c) /\ SentNow(d.job, c)
    BY DEF BringUpInv
  <2>2. p.error = FALSE /\ d.pc \notin NoCall \cup {"sw_reset"}
    BY <1>1, <1>2, <2>1 DEF BringUpInv
  <2>3. d.job \in 1..5 /\ d.rc = "ok" /\ Upkeep(d.job, d.msgs) /\ d.val = ValAfter(d.job - 1)
    BY <1>2, <2>1, <2>2 DEF BringUpInv
  <2>4. d.pc \notin Early
    BY <1>4, <2>3
  <2>5. ASSUME d.pc \in Late PROVE RegsNow(d.job, c) /\ SentNow(d.job, c)
    <3>1. Moved(d.msgs, q, b) /\ RegsNow(d.job, b) /\ SentNow(d.job, b)
      BY <1>2, <2>1, <2>3, <2>5 DEF BringUpInv, TransferInv
    <3>. QED
      BY <2>3, <3>1, RegsFollow
  <2>. QED
    BY <2>2, <2>3, <2>4, <2>5
<1>. QED
  BY <1>2, <1>5, <1>6 DEF I2cState

\* A refusal leaves the bus to the driver, and the bring-up disturbed.
LEMMA RefusalKeeps ==
  ASSUME NEW d, NEW q, NEW b, NEW e, NEW p, slot1 = d, slot2 = q, slot3 = b, e = slot1', p = slot2',
         I2cState(d, q, b), I2c!Refused
  PROVE  I2cState(e, p, b)
<1>1. q.out # <<>> /\ q.due = 0 /\ ~q.error /\ Head(q.out).tag \in {"start", "byte"}
  BY DEF I2c!Refused, I2c!Working, I2c!Next1
<1>2. DriverRecord(d) /\ QupRecord(q) /\ BridgeRecord(b) /\ DriverInv(d) /\ TransferInv(d, q, b)
  BY DEF I2cState, I2cRecords
<1>3. e = [d EXCEPT !.faults = d.faults - 1]
  BY DEF I2c!Refused
<1>4. DriverRecord(e) /\ e.pc = d.pc /\ e.rc = d.rc /\ e.op = d.op /\ e.buf = d.buf /\ e.progress = d.progress
      /\ e.faults = d.faults - 1 /\ e.job = d.job /\ e.msgs = d.msgs
  BY <1>2, <1>3 DEF DriverRecord
<1>5. PICK x : x = [q EXCEPT !.out = Tail(@)]
  OBVIOUS
<1>6. QupRecord(x) /\ SameQup(q, x) /\ x.in = q.in /\ x.due = q.due
  BY <1>2, <1>5, TakenOff
<1>7. p = [x EXCEPT !.error = TRUE]
  BY <1>5 DEF I2c!Refused, I2c!Taken
<1>8. QupRecord(p) /\ p.want = q.want /\ p.error = TRUE /\ p.out = Tail(q.out) /\ p.in = q.in /\ p.due = q.due
  BY <1>6, <1>7 DEF QupRecord, SameQup
<1>9. e.faults \in Int /\ e.faults <= I2cFaults /\ e.faults # I2cFaults
  BY <1>2, <1>4, I2cFaultsAssumption DEF DriverInv, I2c!I2cFaultsAssumption
<1>10. DriverInv(e)
  BY <1>2, <1>4, <1>9 DEF DriverInv
<1>11. TransferInv(e, p, b)
  <2>1. SUFFICES ASSUME d.rc = "ok" PROVE
          /\ d.pc \notin Early
          /\ d.pc \in Late => Moved(d.msgs, p, b)
          /\ d.pc \in {"run", "pause", "push", "start", "poll", "polled"} => WantIs(d.msgs, p)
          /\ d.pc = "polled" => FlagsTrue(e, p)
          /\ d.pc \notin {"drain", "teardown", "done"}
    BY <1>4 DEF TransferInv
  <2>2. d.pc \notin Early /\ d.pc \notin {"drain", "teardown", "done"}
    BY <1>1, <1>2, <2>1 DEF TransferInv, Blank, AllThere
  <2>3. ASSUME d.pc \in Late PROVE Moved(d.msgs, p, b)
    <3>1. Sized(d.msgs) /\ Moved(d.msgs, q, b)
      BY <1>2, <2>1, <2>3, GoodSized DEF DriverInv, TransferInv, NoCall, Late
    <3>. QED
      BY <1>1, <1>8, <3>1, RefusalMoves
  <2>4. d.pc \in {"run", "pause", "push", "start", "poll", "polled"} => WantIs(d.msgs, p)
    BY <1>2, <1>8, <2>1 DEF TransferInv, WantIs
  <2>5. d.pc = "polled" => FlagsTrue(e, p)
    BY <1>1, <1>2, <1>4, <1>8, <2>1 DEF TransferInv, FlagsTrue
  <2>. QED
    BY <2>2, <2>3, <2>4, <2>5
<1>12. BringUpInv(e, p, b)
  BY <1>9 DEF BringUpInv, Undisturbed
<1>. QED
  BY <1>2, <1>4, <1>8, <1>10, <1>11, <1>12 DEF I2cState, I2cRecords

LEMMA PartStays == ASSUME [Next]_vars PROVE part' = part
BY DEF Next, Keep3, Keep4, Keep5, vars

LEMMA RecordsStay == ASSUME NEW d, NEW q, NEW b, I2cState(d, q, b)
  PROVE DriverRecord(d) /\ QupRecord(q) /\ BridgeRecord(b) /\ DriverInv(d) /\ TransferInv(d, q, b) /\
      BringUpInv(d, q, b)
BY DEF I2cState, I2cRecords

\* Each step of the driver keeps the invariant.  The bring-up gives every call its messages.
LEMMA XferKeeps ==
  ASSUME NEW d, NEW q, NEW b, NEW e, slot1 = d, e = slot1', I2cState(d, q, b), I2c!Xfer
  PROVE  I2cState(e, q, b)
<1>1. PICK ms : ms = I2c!JobsOf(d.val)[d.job + 1]
  OBVIOUS
<1>2. PICK to, r : to = (IF I2c!Known(ms) THEN "sw_reset" ELSE "done") /\
        r = (IF I2c!Known(ms) THEN "ok" ELSE "error")
  OBVIOUS
<1>3. /\ d.pc = "idle" /\ d.job < Len(I2c!JobsOf(d.val))
      /\ e = [d EXCEPT !.job = @ + 1, !.msgs = ms, !.rc = r, !.progress = 1, !.buf = <<>>, !.pc = to]
  BY <1>1, <1>2 DEF I2c!Xfer, I2c!At
<1>4. DriverRecord(d) /\ QupRecord(q) /\ BridgeRecord(b) /\ DriverInv(d) /\ BringUpInv(d, q, b)
  BY RecordsStay
<1>5. DriverRecord(e) /\ e.job = d.job + 1 /\ e.msgs = ms /\ e.rc = r /\ e.pc = to /\ e.val = d.val /\
        e.faults = d.faults
  BY <1>3, <1>4 DEF DriverRecord
<1>6. d.job \in Nat /\ d.job + 1 \in 1..9
  <2>1. Len(I2c!JobsOf(d.val)) = 9
    BY JobList
  <2>. QED
    BY <1>3, <1>4, <2>1 DEF DriverInv
<1>7. I2c!Known(ms) => GoodMsgs(ms)
  BY <1>1, <1>6, JobsGood
<1>8. DriverInv(e)
  BY <1>2, <1>4, <1>5, <1>6, <1>7 DEF DriverInv, NoCall, Early, Late
<1>9. TransferInv(e, q, b)
  BY <1>2, <1>5 DEF TransferInv, Early, Late
<1>10. BringUpInv(e, q, b)
  <2>1. SUFFICES ASSUME Undisturbed(e) PROVE
          /\ q.error = FALSE /\ BusQuiet(q) /\ e.pc = "sw_reset" /\ e.rc = "ok" /\ e.job \in 1..5
          /\ Upkeep(e.job, e.msgs) /\ e.val = ValAfter(e.job - 1) /\ b.regs = RegsAfter(e.job - 1)
    BY DEF BringUpInv, NoCall, Early, Late
  <2>2. Undisturbed(d) /\ e.job \in 1..5 /\ e.job - 1 = d.job
    BY <1>5, <1>6, <2>1 DEF Undisturbed
  <2>3. q.error = FALSE /\ BusQuiet(q) /\ b.regs = RegsAfter(d.job) /\ d.val = ValAfter(d.job)
    BY <1>3, <1>4, <2>2 DEF BringUpInv, NoCall
  <2>4. Upkeep(e.job, ms)
    <3>1. PICK j : j = d.job + 1
      OBVIOUS
    <3>2. j \in 1..5 /\ ms = I2c!JobsOf(ValAfter(j - 1))[j] /\ e.job = j
      BY <1>1, <1>5, <2>2, <2>3, <3>1
    <3>. QED
      BY <3>2, BringUpCalls
  <2>5. I2c!Known(ms)
    BY <2>4 DEF Upkeep, Reading, Writing, ReadsReg, WritesReg
  <2>. QED
    BY <1>2, <1>5, <2>2, <2>3, <2>4, <2>5
<1>. QED
  BY <1>4, <1>5, <1>8, <1>9, <1>10 DEF I2cState, I2cRecords

LEMMA ResetKeeps ==
  ASSUME NEW d, NEW q, NEW b, NEW e, NEW p, NEW c, slot1 = d, slot2 = q, slot3 = b, e = slot1', p = slot2',
         c = slot3',
         I2cState(d, q, b), I2c!SwReset
  PROVE  I2cState(e, p, c)
<1>1. d.pc = "sw_reset"
  BY DEF I2c!SwReset, I2c!At
<1>2. DriverRecord(d) /\ QupRecord(q) /\ BridgeRecord(b) /\ DriverInv(d) /\ BringUpInv(d, q, b)
  BY RecordsStay
<1>3. CASE p = I2c!IdleQup /\ I2c!Jump("gen") /\ c = [b EXCEPT !.taken = <<>>, !.sent = <<>>, !.count = 0]
  <2>1. DriverRecord(e) /\ e.pc = "gen" /\ e.rc = d.rc /\ CallStays(d, e)
    BY <1>2, <1>3, Jumps
  <2>2. QupRecord(p) /\ p.out = <<>> /\ p.in = <<>> /\ p.due = 0 /\ p.error = FALSE
    BY <1>3 DEF QupRecord, I2c!IdleQup
  <2>3. BridgeRecord(c) /\ c.taken = <<>> /\ c.sent = <<>> /\ c.count = 0 /\ c.regs = b.regs
    BY <1>2, <1>3 DEF BridgeRecord
  <2>4. DriverInv(e)
    BY <1>1, <1>2, <2>1 DEF DriverInv, CallStays, NoCall, Early, Late
  <2>5. TransferInv(e, p, c)
    BY <2>1, <2>2, <2>3 DEF TransferInv, Blank, Early, Late
  <2>6. BringUpInv(e, p, c)
    BY <1>1, <1>2, <2>1, <2>2, <2>3 DEF BringUpInv, Undisturbed, CallStays, NoCall, Early, Late
  <2>. QED
    BY <2>1, <2>2, <2>3, <2>4, <2>5, <2>6 DEF I2cState, I2cRecords
<1>4. CASE p = [q EXCEPT !.state = "reset"] /\ I2c!TimesOut("done") /\ c = b
  <2>1. QupRecord(p)
    BY <1>2, <1>4 DEF QupRecord
  <2>2. DriverRecord(e) /\ e.pc = "done" /\ e.rc = "error" /\ e.faults = d.faults - 1 /\ e.job = d.job
    BY <1>2, <1>4, Expires
  <2>. QED
    BY <1>2, <1>4, <2>1, <2>2, FailedCall DEF I2cRecords
<1>. QED
  BY <1>3, <1>4 DEF I2c!SwReset

\* A step between the beginning of a transfer and its polling, which leaves the FIFOs alone.
LEMMA StateWritten ==
  ASSUME NEW d, NEW q, NEW b, NEW e, NEW p, slot1 = d, slot2 = q, e = slot1', p = slot2', I2cState(d, q, b), NEW s,
         NEW to,
         I2c!UpdateState(s, to, "done"),
         (d.pc = "run" /\ to = "pause") \/ (d.pc = "pause" /\ to = "push") \/ (d.pc = "start" /\ to = "poll")
  PROVE  I2cState(e, p, b)
<1>1. DriverRecord(d) /\ QupRecord(q) /\ BridgeRecord(b) /\ DriverInv(d) /\ TransferInv(d, q, b) /\
        BringUpInv(d, q, b)
  BY RecordsStay
<1>2. CASE p = [q EXCEPT !.state = s] /\ I2c!Jump(to)
  <2>1. DriverRecord(e) /\ e.pc = to /\ e.rc = d.rc /\ CallStays(d, e)
    BY <1>1, <1>2, Jumps
  <2>2. QupRecord(p) /\ p.out = q.out /\ p.in = q.in /\ p.due = q.due /\ p.error = q.error /\ p.want = q.want
    BY <1>1, <1>2 DEF QupRecord
  <2>3. DriverInv(e)
    BY <1>1, <2>1 DEF DriverInv, CallStays, NoCall, Early, Late
  <2>4. (Blank(q, b) => Blank(p, b)) /\ (WantIs(d.msgs, q) => WantIs(d.msgs, p)) /\
          (Moved(d.msgs, q, b) => Moved(d.msgs, p, b))
    BY <2>2 DEF Blank, WantIs, Moved, RefusedAt, Accepted
  <2>5. TransferInv(e, p, b)
    BY <1>1, <2>1, <2>4 DEF TransferInv, CallStays, Early, Late
  <2>6. BringUpInv(e, p, b)
    BY <1>1, <2>1, <2>2 DEF BringUpInv, Undisturbed, CallStays, NoCall, Early, Late
  <2>. QED
    BY <1>1, <2>1, <2>2, <2>3, <2>5, <2>6 DEF I2cState, I2cRecords
<1>3. CASE p \in {q, [q EXCEPT !.state = s]} /\ I2c!TimesOut("done")
  <2>1. QupRecord(p)
    BY <1>1, <1>3 DEF QupRecord
  <2>2. DriverRecord(e) /\ e.pc = "done" /\ e.rc = "error" /\ e.faults = d.faults - 1 /\ e.job = d.job
    BY <1>1, <1>3, Expires
  <2>. QED
    BY <1>1, <2>1, <2>2, FailedCall DEF I2cRecords
<1>. QED
  BY <1>2, <1>3 DEF I2c!UpdateState

LEMMA GenKeeps ==
  ASSUME NEW d, NEW q, NEW b, NEW e, NEW p, slot1 = d, slot2 = q, e = slot1', p = slot2', I2cState(d, q, b),
         I2c!MasterGen
  PROVE  I2cState(e, p, b)
<1>1. DriverRecord(d) /\ QupRecord(q) /\ BridgeRecord(b) /\ DriverInv(d) /\ TransferInv(d, q, b) /\
        BringUpInv(d, q, b)
  BY RecordsStay
<1>2. d.pc = "gen"
  BY DEF I2c!MasterGen, I2c!At
<1>3. PICK w : w = IF I2c!RdLen(d.msgs) > 0 THEN I2c!RdLen(d.msgs) + 2 ELSE 0
  OBVIOUS
<1>4. CASE p = [q EXCEPT !.gen = TRUE, !.want = w] /\ I2c!Jump("run")
  <2>1. DriverRecord(e) /\ e.pc = "run" /\ e.rc = d.rc /\ CallStays(d, e)
    BY <1>1, <1>4, Jumps
  <2>2. QupRecord(p) /\ p.out = q.out /\ p.in = q.in /\ p.due = q.due /\ p.error = q.error /\ p.want = w
    BY <1>1, <1>4 DEF QupRecord
  <2>3. DriverInv(e)
    BY <1>1, <1>2, <2>1 DEF DriverInv, CallStays, NoCall, Early, Late
  <2>4. (Blank(q, b) => Blank(p, b)) /\ WantIs(d.msgs, p)
    BY <1>3, <2>2 DEF Blank, WantIs
  <2>5. TransferInv(e, p, b)
    BY <1>1, <1>2, <2>1, <2>4 DEF TransferInv, CallStays, Early, Late
  <2>6. BringUpInv(e, p, b)
    BY <1>1, <1>2, <2>1, <2>2 DEF BringUpInv, Undisturbed, CallStays, NoCall, Early, Late
  <2>. QED
    BY <1>1, <2>1, <2>2, <2>3, <2>5, <2>6 DEF I2cState, I2cRecords
<1>5. CASE p = q /\ I2c!TimesOut("done")
  <2>1. DriverRecord(e) /\ e.pc = "done" /\ e.rc = "error" /\ e.faults = d.faults - 1 /\ e.job = d.job
    BY <1>1, <1>5, Expires
  <2>. QED
    BY <1>1, <1>5, <2>1, FailedCall DEF I2cRecords
<1>. QED
  BY <1>3, <1>4, <1>5 DEF I2c!MasterGen

LEMMA PushKeeps ==
  ASSUME NEW d, NEW q, NEW b, NEW e, NEW p, slot1 = d, slot2 = q, e = slot1', p = slot2', I2cState(d, q, b),
         I2c!Push
  PROVE  I2cState(e, p, b)
<1>1. DriverRecord(d) /\ QupRecord(q) /\ BridgeRecord(b) /\ DriverInv(d) /\ TransferInv(d, q, b) /\
        BringUpInv(d, q, b)
  BY RecordsStay
<1>2. d.pc = "push" /\ I2c!Jump("start")
  BY DEF I2c!Push, I2c!At
<1>3. PICK S : S = I2c!Stream(d.msgs)
  OBVIOUS
<1>4. p = [q EXCEPT !.out = S]
  BY <1>3 DEF I2c!Push
<1>5. DriverRecord(e) /\ e.pc = "start" /\ e.rc = d.rc /\ CallStays(d, e)
  BY <1>1, <1>2, Jumps
<1>6. QupRecord(p) /\ p.out = S /\ p.in = q.in /\ p.due = q.due /\ p.error = q.error /\ p.want = q.want
  BY <1>1, <1>4 DEF QupRecord
<1>7. d.rc = "ok" /\ GoodMsgs(d.msgs) /\ Blank(q, b) /\ WantIs(d.msgs, q)
  BY <1>1, <1>2 DEF DriverInv, TransferInv, NoCall, Early, Late
<1>8. Moved(d.msgs, p, b)
  BY <1>3, <1>6, <1>7, MoveStarts
<1>9. DriverInv(e)
  BY <1>1, <1>2, <1>5 DEF DriverInv, CallStays, NoCall, Early, Late
<1>10. TransferInv(e, p, b)
  BY <1>5, <1>6, <1>7, <1>8 DEF TransferInv, WantIs, CallStays, Early, Late
<1>11. BringUpInv(e, p, b)
  <2>1. Len(b.taken) = 0 /\ Len(b.sent) = 0
    BY <1>7, EmptyIs DEF Blank
  <2>2. SentNow(e.job, b)
    BY <2>1 DEF SentNow
  <2>3. b.regs = RegsAfter(e.job - 1) => RegsNow(e.job, b)
    BY <2>1 DEF RegsNow
  <2>. QED
    BY <1>1, <1>2, <1>5, <1>6, <2>2, <2>3 DEF BringUpInv, Undisturbed, CallStays, NoCall, Early, Late
<1>. QED
  BY <1>1, <1>5, <1>6, <1>9, <1>10, <1>11 DEF I2cState, I2cRecords

\* Polling: the flags are read, then judged.
LEMMA OperationalKeeps ==
  ASSUME NEW d, NEW q, NEW b, NEW e, slot1 = d, slot2 = q, e = slot1', I2cState(d, q, b), I2c!ReadOperational
  PROVE  I2cState(e, q, b)
<1>1. DriverRecord(d) /\ QupRecord(q) /\ BridgeRecord(b) /\ DriverInv(d) /\ TransferInv(d, q, b) /\
        BringUpInv(d, q, b)
  BY RecordsStay
<1>2. PICK op : op = [out |-> q.out = <<>>, in |-> Len(q.in) >= q.want]
  OBVIOUS
<1>3. d.pc = "poll" /\ e = [d EXCEPT !.pc = "polled", !.op = op]
  BY <1>2 DEF I2c!ReadOperational, I2c!At
<1>4. DriverRecord(e) /\ e.pc = "polled" /\ e.rc = d.rc /\ e.op = op /\ CallStays(d, e)
  BY <1>1, <1>3 DEF DriverRecord, CallStays
<1>5. FlagsTrue(e, q)
  <2>1. op.out = (q.out = <<>>) /\ op.in = (Len(q.in) >= q.want)
    BY <1>2
  <2>2. (op.out => q.out = <<>>) /\ (op.in => Len(q.in) >= q.want)
    BY <2>1, Zenon
  <2>. QED
    BY <1>4, <2>2, Zenon DEF FlagsTrue
<1>6. DriverInv(e)
  BY <1>1, <1>3, <1>4 DEF DriverInv, CallStays, NoCall, Early, Late
<1>7. TransferInv(e, q, b)
  BY <1>1, <1>3, <1>4, <1>5 DEF TransferInv, CallStays, Early, Late
<1>8. BringUpInv(e, q, b)
  BY <1>1, <1>3, <1>4 DEF BringUpInv, Undisturbed, CallStays, NoCall, Early, Late
<1>. QED
  BY <1>1, <1>4, <1>6, <1>7, <1>8 DEF I2cState, I2cRecords

LEMMA CheckKeeps ==
  ASSUME NEW d, NEW q, NEW b, NEW e, slot1 = d, slot2 = q, e = slot1', I2cState(d, q, b), I2c!CheckOperational
  PROVE  I2cState(e, q, b)
<1>1. DriverRecord(d) /\ QupRecord(q) /\ BridgeRecord(b) /\ DriverInv(d) /\ TransferInv(d, q, b) /\
        BringUpInv(d, q, b)
  BY RecordsStay
<1>2. d.pc = "polled"
  BY DEF I2c!CheckOperational, I2c!At
<1>3. d.rc = "ok" /\ GoodMsgs(d.msgs) /\ WantIs(d.msgs, q) /\ FlagsTrue(d, q)
  BY <1>1, <1>2 DEF DriverInv, TransferInv, NoCall
<1>4. CASE I2c!TransferDone /\ I2c!Jump("drain")
  <2>1. DriverRecord(e) /\ e.pc = "drain" /\ e.rc = d.rc /\ CallStays(d, e)
    BY <1>1, <1>4, Jumps
  <2>2. AllThere(d.msgs, q)
    BY <1>3, <1>4 DEF I2c!TransferDone, FlagsTrue, WantIs, AllThere
  <2>3. DriverInv(e)
    BY <1>1, <1>2, <2>1 DEF DriverInv, CallStays, NoCall, Early, Late
  <2>4. TransferInv(e, q, b)
    BY <1>1, <1>2, <2>1, <2>2 DEF TransferInv, CallStays, Early, Late
  <2>5. BringUpInv(e, q, b)
    BY <1>1, <1>2, <2>1 DEF BringUpInv, Undisturbed, CallStays, NoCall, Early, Late
  <2>. QED
    BY <1>1, <2>1, <2>3, <2>4, <2>5 DEF I2cState, I2cRecords
<1>5. CASE q.error /\ e = [d EXCEPT !.pc = "teardown", !.rc = "error"]
  <2>1. DriverRecord(e) /\ e.pc = "teardown" /\ e.rc = "error" /\ CallStays(d, e)
    BY <1>1, <1>5 DEF DriverRecord, CallStays
  <2>2. DriverInv(e)
    BY <1>1, <1>2, <2>1 DEF DriverInv, CallStays, NoCall, Early, Late
  <2>3. TransferInv(e, q, b)
    BY <2>1 DEF TransferInv
  <2>4. BringUpInv(e, q, b)
    BY <1>1, <1>5, <2>1 DEF BringUpInv, Undisturbed, CallStays
  <2>. QED
    BY <1>1, <2>1, <2>2, <2>3, <2>4 DEF I2cState, I2cRecords
<1>6. CASE I2c!Jump("poll")
  <2>1. DriverRecord(e) /\ e.pc = "poll" /\ e.rc = d.rc /\ CallStays(d, e)
    BY <1>1, <1>6, Jumps
  <2>2. DriverInv(e)
    BY <1>1, <1>2, <2>1 DEF DriverInv, CallStays, NoCall, Early, Late
  <2>3. TransferInv(e, q, b)
    BY <1>1, <1>2, <2>1 DEF TransferInv, CallStays, Early, Late
  <2>4. BringUpInv(e, q, b)
    BY <1>1, <1>2, <2>1 DEF BringUpInv, Undisturbed, CallStays, NoCall, Early, Late
  <2>. QED
    BY <1>1, <2>1, <2>2, <2>3, <2>4 DEF I2cState, I2cRecords
<1>7. CASE I2c!TimesOut("teardown")
  <2>1. DriverRecord(e) /\ e.pc = "teardown" /\ e.rc = "error" /\ e.faults = d.faults - 1 /\ e.job = d.job
    BY <1>1, <1>7, Expires
  <2>. QED
    BY <1>1, <2>1, FailedCall DEF I2cRecords
<1>. QED
  BY <1>4, <1>5, <1>6, <1>7 DEF I2c!CheckOperational

LEMMA DrainKeeps ==
  ASSUME NEW d, NEW q, NEW b, NEW e, slot1 = d, slot2 = q, e = slot1', I2cState(d, q, b), I2c!Drain
  PROVE  I2cState(e, q, b)
<1>1. DriverRecord(d) /\ QupRecord(q) /\ BridgeRecord(b) /\ DriverInv(d) /\ TransferInv(d, q, b) /\
        BringUpInv(d, q, b)
  BY RecordsStay
<1>2. PICK bf : bf = [i \in 1..I2c!RdLen(d.msgs) |-> IF 2 + i <= Len(q.in) THEN q.in[2 + i] ELSE "junk"]
  OBVIOUS
<1>3. d.pc = "drain" /\ e = [d EXCEPT !.pc = "teardown", !.buf = bf]
  BY <1>2 DEF I2c!Drain, I2c!At, I2c!FromFifo, I2c!HeaderLen
<1>4. DriverRecord(e) /\ e.pc = "teardown" /\ e.rc = d.rc /\ e.buf = bf /\ CallStays(d, e)
  BY <1>1, <1>3 DEF DriverRecord, CallStays
<1>5. d.rc = "ok" /\ Sized(d.msgs) /\ Moved(d.msgs, q, b) /\ AllThere(d.msgs, q)
  BY <1>1, <1>3, GoodSized DEF DriverInv, TransferInv, NoCall, Late
<1>6. bf = b.sent
  BY <1>2, <1>5, MoveEnds, DrainedIs
<1>7. DriverInv(e)
  BY <1>1, <1>3, <1>4 DEF DriverInv, CallStays, NoCall, Early, Late
<1>8. TransferInv(e, q, b)
  BY <1>1, <1>3, <1>4, <1>5, <1>6 DEF TransferInv, CallStays, Early, Late
<1>9. BringUpInv(e, q, b)
  BY <1>1, <1>3, <1>4 DEF BringUpInv, Undisturbed, CallStays, NoCall, Early, Late
<1>. QED
  BY <1>1, <1>4, <1>7, <1>8, <1>9 DEF I2cState, I2cRecords

LEMMA TeardownKeeps ==
  ASSUME NEW d, NEW q, NEW b, NEW e, NEW p, slot1 = d, slot2 = q, e = slot1', p = slot2', I2cState(d, q, b),
         I2c!Teardown
  PROVE  I2cState(e, p, b)
<1>1. DriverRecord(d) /\ QupRecord(q) /\ BridgeRecord(b) /\ DriverInv(d) /\ TransferInv(d, q, b) /\
        BringUpInv(d, q, b)
  BY RecordsStay
<1>2. d.pc = "teardown" /\ I2c!Jump("done") /\ (p = q \/ p = [q EXCEPT !.state = "reset"])
  BY DEF I2c!Teardown, I2c!At
<1>3. DriverRecord(e) /\ e.pc = "done" /\ e.rc = d.rc /\ e.buf = d.buf /\ CallStays(d, e)
  BY <1>1, <1>2, Jumps
<1>4. QupRecord(p) /\ p.out = q.out /\ p.in = q.in /\ p.due = q.due /\ p.error = q.error
  BY <1>1, <1>2 DEF QupRecord
<1>5. DriverInv(e)
  BY <1>1, <1>2, <1>3 DEF DriverInv, CallStays, NoCall, Early, Late
<1>6. (Moved(d.msgs, q, b) => Moved(d.msgs, p, b)) /\ (AllThere(d.msgs, q) => AllThere(d.msgs, p))
  BY <1>4 DEF AllThere, Moved, RefusedAt, Accepted
<1>7. TransferInv(e, p, b)
  BY <1>1, <1>2, <1>3, <1>6 DEF TransferInv, CallStays, Early, Late
<1>8. BringUpInv(e, p, b)
  BY <1>1, <1>2, <1>3, <1>4 DEF BringUpInv, Undisturbed, CallStays, NoCall, Early, Late
<1>. QED
  BY <1>1, <1>3, <1>4, <1>5, <1>7, <1>8 DEF I2cState, I2cRecords

\* After a call of the bring-up the driver holds what it read, and the bridge what was written.
LEMMA ReturnKeeps ==
  ASSUME NEW d, NEW q, NEW b, NEW e, slot1 = d, slot2 = q, e = slot1', I2cState(d, q, b), I2c!Return
  PROVE  I2cState(e, q, b)
<1>1. DriverRecord(d) /\ QupRecord(q) /\ BridgeRecord(b) /\ DriverInv(d) /\ TransferInv(d, q, b) /\
        BringUpInv(d, q, b)
  BY RecordsStay
<1>2. PICK ok, v : ok = (d.allOk /\ d.rc = "ok") /\ v = IF d.rc = "ok" /\
        I2c!RdLen(d.msgs) = 1 THEN d.buf[1] ELSE d.val
  OBVIOUS
<1>3. d.pc = "done" /\ e = [d EXCEPT !.pc = "idle", !.progress = 0, !.allOk = ok, !.val = v]
  BY <1>2 DEF I2c!Return, I2c!At
<1>4. DriverRecord(e) /\ e.pc = "idle" /\ e.progress = 0 /\ e.val = v /\ e.job = d.job /\ e.faults = d.faults
  BY <1>1, <1>3 DEF DriverRecord
<1>5. DriverInv(e)
  BY <1>1, <1>4 DEF DriverInv, NoCall, Early, Late
<1>6. TransferInv(e, q, b)
  BY <1>4 DEF TransferInv, Early, Late
<1>7. BringUpInv(e, q, b)
  <2>1. SUFFICES ASSUME Undisturbed(d) PROVE q.error = FALSE /\ BusQuiet(q) /\ b.regs = RegsAfter(d.job) /\
          v = ValAfter(d.job)
    BY <1>4 DEF BringUpInv, Undisturbed, NoCall, Early, Late
  <2>2. q.error = FALSE /\ d.job \in 1..5 /\ d.rc = "ok" /\ Upkeep(d.job, d.msgs) /\ d.val = ValAfter(d.job - 1)
        /\ RegsNow(d.job, b) /\ SentNow(d.job, b)
    BY <1>1, <1>3, <2>1 DEF BringUpInv, NoCall, Late
  <2>3. Sized(d.msgs)
    BY <2>2 DEF Upkeep, Reading, Writing, ReadsReg, WritesReg
  <2>4. Moved(d.msgs, q, b) /\ AllThere(d.msgs, q) /\ d.buf = b.sent
    BY <1>1, <1>3, <2>2 DEF TransferInv, Late
  <2>5. EndsWell(d.msgs, q, b)
    BY <2>3, <2>4, MoveEnds
  <2>6. BusQuiet(q) /\ Len(b.taken) = Len(BytesWritten(d.msgs)) /\ Len(b.sent) = I2c!RdLen(d.msgs)
    BY <2>2, <2>4, <2>5 DEF EndsWell, AllThere, BusQuiet, TakenIs
  <2>7. CASE d.job \in {1, 3, 5}
    <3>1. Reading(d.job, d.msgs)
      BY <2>2, <2>7 DEF Upkeep
    <3>2. I2c!RdLen(d.msgs) = 1 /\ RegsAfter(d.job) = RegsAfter(d.job - 1)
      BY <3>1 DEF Reading, ReadsReg
    <3>3. b.sent[1] = ValAfter(d.job)
      BY <2>2, <2>6, <2>7, <3>2 DEF SentNow
    <3>4. b.regs = RegsAfter(d.job)
      BY <2>2, <2>7, <3>2 DEF RegsNow
    <3>. QED
      BY <1>2, <2>2, <2>4, <2>6, <3>2, <3>3, <3>4
  <2>8. CASE d.job \in {2, 4}
    <3>6. Writing(d.job, d.msgs)
      BY <2>2, <2>8 DEF Upkeep
    <3>1. PICK r, x : WritesReg(d.msgs, r, x) /\ ValAfter(d.job) = ValAfter(d.job - 1)
      BY <3>6 DEF Writing
    <3>2. PICK bs : bs = BytesWritten(d.msgs)
      OBVIOUS
    <3>3. bs = <<r, x>> /\ I2c!RdLen(d.msgs) = 0
      BY <3>1, <3>2 DEF WritesReg
    <3>4. Len(b.taken) = 2
      BY <2>6, <3>2, <3>3
    <3>5. b.regs = RegsAfter(d.job)
      BY <2>2, <2>8, <3>4 DEF RegsNow
    <3>. QED
      BY <1>2, <2>2, <2>6, <3>1, <3>3, <3>5
  <2>9. d.job \in {1, 3, 5} \/ d.job \in {2, 4}
    BY <2>2
  <2>. QED
    BY <2>7, <2>8, <2>9
<1>. QED
  BY <1>1, <1>4, <1>5, <1>6, <1>7 DEF I2cState, I2cRecords

LEMMA InitBusKeeps ==
  ASSUME NEW d, NEW q, NEW b, NEW e, slot1 = d, e = slot1', I2cState(d, q, b), I2c!InitBus
  PROVE  I2cState(e, q, b)
<1>1. DriverRecord(d) /\ QupRecord(q) /\ BridgeRecord(b) /\ DriverInv(d) /\ TransferInv(d, q, b) /\
        BringUpInv(d, q, b)
  BY RecordsStay
<1>2. d.pc = "init" /\ I2c!Jump("idle")
  BY DEF I2c!InitBus, I2c!At
<1>3. DriverRecord(e) /\ e.pc = "idle" /\ e.rc = d.rc /\ e.progress = d.progress /\ CallStays(d, e)
  BY <1>1, <1>2, Jumps
<1>4. DriverInv(e)
  BY <1>1, <1>2, <1>3 DEF DriverInv, CallStays, NoCall, Early, Late
<1>5. TransferInv(e, q, b)
  BY <1>3 DEF TransferInv, Early, Late
<1>6. BringUpInv(e, q, b)
  BY <1>1, <1>2, <1>3 DEF BringUpInv, Undisturbed, CallStays, NoCall, Early, Late
<1>. QED
  BY <1>1, <1>3, <1>4, <1>5, <1>6 DEF I2cState, I2cRecords

\* Every step of the model is one of those.
LEMMA I2cKeeps == ASSUME I2cInv, [I2c!I2cNext]_(I2c!i2cVars) PROVE I2cInv'
<1>1. PICK d, q, b : slot1 = d /\ slot2 = q /\ slot3 = b /\ I2cState(d, q, b)
  BY DEF I2cInv
<1>2. PICK e, p, c : e = slot1' /\ p = slot2' /\ c = slot3'
  OBVIOUS
<1>3. DriverRecord(d) /\ QupRecord(q) /\ BridgeRecord(b)
  BY <1>1, RecordsStay
<1>4. SUFFICES I2cState(e, p, c)
  BY <1>2 DEF I2cInv
<1>5. CASE I2c!InitBus
  <2>1. p = q /\ c = b
    BY <1>1, <1>2, <1>5 DEF I2c!InitBus
  <2>. QED
    BY <1>1, <1>2, <1>5, <2>1, InitBusKeeps
<1>6. CASE I2c!Xfer
  <2>1. p = q /\ c = b
    BY <1>1, <1>2, <1>6 DEF I2c!Xfer
  <2>. QED
    BY <1>1, <1>2, <1>6, <2>1, XferKeeps
<1>7. CASE I2c!SwReset
  BY <1>1, <1>2, <1>7, ResetKeeps
<1>8. CASE I2c!MasterGen
  <2>1. c = b
    BY <1>1, <1>2, <1>8 DEF I2c!MasterGen
  <2>. QED
    BY <1>1, <1>2, <1>8, <2>1, GenKeeps
<1>9. CASE I2c!FirstRun
  <2>1. c = b /\ d.pc = "run" /\ I2c!UpdateState("run", "pause", "done")
    BY <1>1, <1>2, <1>9 DEF I2c!FirstRun, I2c!At
  <2>. QED
    BY <1>1, <1>2, <2>1, StateWritten
<1>10. CASE I2c!Pause
  <2>1. c = b /\ d.pc = "pause" /\ I2c!UpdateState("pause", "push", "done")
    BY <1>1, <1>2, <1>10 DEF I2c!Pause, I2c!At
  <2>. QED
    BY <1>1, <1>2, <2>1, StateWritten
<1>11. CASE I2c!Push
  <2>1. c = b
    BY <1>1, <1>2, <1>11 DEF I2c!Push
  <2>. QED
    BY <1>1, <1>2, <1>11, <2>1, PushKeeps
<1>12. CASE I2c!SecondRun
  <2>1. c = b /\ d.pc = "start" /\ I2c!UpdateState("run", "poll", "done")
    BY <1>1, <1>2, <1>12 DEF I2c!SecondRun, I2c!At
  <2>. QED
    BY <1>1, <1>2, <2>1, StateWritten
<1>13. CASE I2c!ReadOperational
  <2>1. p = q /\ c = b
    BY <1>1, <1>2, <1>13 DEF I2c!ReadOperational
  <2>. QED
    BY <1>1, <1>2, <1>13, <2>1, OperationalKeeps
<1>14. CASE I2c!CheckOperational
  <2>1. p = q /\ c = b
    BY <1>1, <1>2, <1>14 DEF I2c!CheckOperational
  <2>. QED
    BY <1>1, <1>2, <1>14, <2>1, CheckKeeps
<1>15. CASE I2c!Drain
  <2>1. p = q /\ c = b
    BY <1>1, <1>2, <1>15 DEF I2c!Drain
  <2>. QED
    BY <1>1, <1>2, <1>15, <2>1, DrainKeeps
<1>16. CASE I2c!Teardown
  <2>1. c = b
    BY <1>1, <1>2, <1>16 DEF I2c!Teardown
  <2>. QED
    BY <1>1, <1>2, <1>16, <2>1, TeardownKeeps
<1>17. CASE I2c!Return
  <2>1. p = q /\ c = b
    BY <1>1, <1>2, <1>17 DEF I2c!Return
  <2>. QED
    BY <1>1, <1>2, <1>17, <2>1, ReturnKeeps
<1>18. CASE I2c!Refused
  <2>1. c = b
    BY <1>1, <1>2, <1>18 DEF I2c!Refused
  <2>. QED
    BY <1>1, <1>2, <1>18, <2>1, RefusalKeeps
<1>19. CASE OnBus
  <2>1. e = d
    BY <1>1, <1>2, <1>19 DEF OnBus, I2c!StartOnBus, I2c!ByteOnBus, I2c!ReadOrder, I2c!ReadOnBus
  <2>2. BusFlat(q, b, p, c) /\ QupRecord(p) /\ BridgeRecord(c)
    <3>1. CASE I2c!StartOnBus
      BY <1>1, <1>2, <1>3, <3>1, StartIs DEF BusFlat
    <3>2. CASE I2c!ByteOnBus
      BY <1>1, <1>2, <1>3, <3>2, ByteIs DEF BusFlat
    <3>3. CASE I2c!ReadOrder
      <4>1. OrderFlat(q, b, p, c) /\ QupRecord(p)
        BY <1>1, <1>2, <1>3, <3>3, OrderIs
      <4>2. c = b
        BY <4>1 DEF OrderFlat
      <4>. QED
        BY <1>3, <4>1, <4>2 DEF BusFlat
    <3>4. CASE I2c!ReadOnBus
      BY <1>1, <1>2, <1>3, <3>4, ReadIs DEF BusFlat
    <3>. QED
      BY <1>19, <3>1, <3>2, <3>3, <3>4 DEF OnBus
  <2>. QED
    BY <1>1, <1>3, <2>1, <2>2, BusKeeps DEF I2cRecords
<1>20. CASE UNCHANGED I2c!i2cVars
  BY <1>1, <1>2, <1>20 DEF I2c!i2cVars
<1>. QED
  BY <1>5, <1>6, <1>7, <1>8, <1>9, <1>10, <1>11, <1>12, <1>13, <1>14, <1>15, <1>16, <1>17, <1>18, <1>19, <1>20
  DEF I2c!I2cNext, I2c!DriverStep, OnBus

\* The invariant gives the property.
LEMMA I2cPromise == ASSUME I2cInv PROVE I2c!TransferReal
<1>1. PICK d, q, b : slot1 = d /\ slot2 = q /\ slot3 = b /\ I2cState(d, q, b)
  BY DEF I2cInv
<1>2. DriverInv(d) /\ TransferInv(d, q, b) /\ BringUpInv(d, q, b)
  BY <1>1, RecordsStay
<1>3. ASSUME d.pc = "done", d.rc = "ok"
      PROVE  /\ \/ b.taken = I2c!BytesOf(d.msgs)
                \/ q.error /\ Len(d.msgs) = 1 /\
                     Append(b.taken, d.msgs[1].bytes[Len(d.msgs[1].bytes)]) = d.msgs[1].bytes
             /\ d.buf = b.sent
  <2>1. GoodMsgs(d.msgs) /\ Sized(d.msgs)
    BY <1>2, <1>3, GoodSized DEF DriverInv, NoCall
  <2>2. Moved(d.msgs, q, b) /\ AllThere(d.msgs, q) /\ d.buf = b.sent
    BY <1>2, <1>3 DEF TransferInv, Late
  <2>3. EndsWell(d.msgs, q, b)
    BY <2>1, <2>2, MoveEnds
  <2>4. CASE ~q.error
    BY <2>1, <2>2, <2>3, <2>4, TakenAll DEF EndsWell
  <2>5. CASE q.error
    <3>1. I2c!RdLen(d.msgs) = 0 /\ Len(BytesWritten(d.msgs)) >= 1 /\
            TakenIs(b, d.msgs, Len(BytesWritten(d.msgs)) - 1)
      BY <2>3, <2>5 DEF EndsWell
    <3>2. Len(d.msgs) = 1 /\ Append(b.taken, d.msgs[1].bytes[Len(d.msgs[1].bytes)]) = d.msgs[1].bytes
      BY <2>1, <3>1, TakenButLast
    <3>. QED
      BY <2>2, <2>5, <3>2
  <2>. QED
    BY <2>4, <2>5
<1>4. d.pc = "idle" => d.progress = 0
  BY <1>2 DEF DriverInv, NoCall
<1>5. ASSUME d.pc = "idle", d.job = 5, d.faults = I2cFaults
      PROVE  b.regs["power"] = "on" /\ b.regs["hpd"] = "c0" /\ d.val = "on"
  <2>1. b.regs = RegsAfter(5) /\ d.val = ValAfter(5)
    BY <1>2, <1>5 DEF BringUpInv, Undisturbed, NoCall
  <2>2. RegsAfter(5)["power"] = "on" /\ RegsAfter(5)["hpd"] = "c0" /\ ValAfter(5) = "on"
    BY DEF RegsAfter, ValAfter
  <2>. QED
    BY <2>1, <2>2
<1>. QED
  BY <1>1, <1>3, <1>4, <1>5, Zenon DEF I2c!TransferReal, I2c!Returned, I2c!At

I2cPart == part = "i2c" => I2cInv

\* In MCDrivers a transfer over I2C that returns success took place, and an undisturbed bring-up
\* leaves the bridge powered up (qup_i2c_xfer, I2cQupDxeInitialize).
THEOREM TransfersTakePlace == Spec => []TransferReal
<1>1. Init => I2cPart
  BY I2cStarts DEF Init, I2cPart
<1>2. ASSUME I2cPart, [Next]_vars PROVE I2cPart'
  <2>1. SUFFICES ASSUME part = "i2c" PROVE I2cInv'
    BY <1>2, PartStays DEF I2cPart
  <2>2. [I2c!I2cNext]_(I2c!i2cVars)
    BY <1>2, <2>1 DEF Next, vars, I2c!i2cVars
  <2>. QED
    BY <1>2, <2>1, <2>2, I2cKeeps DEF I2cPart
<1>3. I2cPart => TransferReal
  BY I2cPromise DEF I2cPart, TransferReal
<1>. QED
  BY <1>1, <1>2, <1>3, PTL DEF Spec
=============================================================================
