------------------------ MODULE SectionFeedInv_proof ------------------------
(***************************************************************************)
(* The invariant of SectionFeed: what the sender sends is what the lemmas  *)
(* about the packet handler in SectionFeed_proof expect, and every step    *)
(* keeps IInv.                                                             *)
(***************************************************************************)
EXTENDS SectionFeed_proof

\* What is known of a packet that may come next.
PacketSpec(x) ==
  /\ x.sent \in Seq(Sections) /\ Len(x.sent) <= MaxSections /\ Len(x.sent) > 0
  /\ Prefix(sent, x.sent) /\ x.done \in 1..Last(x.sent).len
  /\ x.bytes \in Seq(Bytes) /\ \A i \in 1..Len(x.bytes) : x.bytes[i].id <= Len(x.sent)
  /\ x.count \in Nat /\ x.pointer \in Nat /\ x.pusi \in BOOLEAN
  /\ ~x.pusi => x.sent = sent /\ Continues(x.bytes, sent, done, x.done)
  /\ x.pusi =>
       /\ Len(x.bytes) = x.count - 1 /\ x.count > 1 /\ x.pointer < x.count
       /\ x.pointer = Remaining
       /\ Begins(SubSeq(x.bytes, x.pointer + 1, Len(x.bytes)), Len(sent), x.sent, x.done)
       /\ x.pointer > 0 =>
            Continues(SubSeq(x.bytes, 1, x.pointer), sent, done, Last(sent).len)

\* What is left of the section that is being sent.
LEMMA RemainingIs ==
  ASSUME StreamOK
  PROVE  /\ Remaining \in Nat
         /\ Remaining > 0 => /\ Len(sent) > 0 /\ done \in 1..(Last(sent).len - 1)
                             /\ Remaining = Last(sent).len - done
         /\ sent # <<>> => /\ Len(sent) > 0 /\ Remaining = Last(sent).len - done
                           /\ (Remaining = 0 <=> done = Last(sent).len)
         /\ Rest \in Seq(Bytes) /\ Len(Rest) = Remaining
         /\ \A j \in 1..Remaining : Rest[j] = Byte(Len(sent), done + j - 1, Last(sent))
<1>0. sent \in Seq(Sections) /\ done \in Nat
  BY DEF StreamOK
<1>1. CASE sent = <<>>
  <2>1. Remaining = 0 /\ Rest = <<>>
    BY <1>1 DEF Remaining, Rest
  <2>2. Rest \in Seq(Bytes) /\ Len(Rest) = 0
    BY <2>1, EmptySeq
  <2> QED
    BY <2>1, <2>2, <1>1
<1>2. CASE sent # <<>>
  <2>1. Len(sent) > 0 /\ Len(sent) \in Nat
    BY <1>0, <1>2, EmptySeq
  <2> DEFINE L == Last(sent).len
  <2>2. L \in Nat /\ Last(sent) \in Sections
    BY <2>1, <1>0, LastSection
  <2>3. done \in 1..L /\ Remaining = L - done /\ Rest = BytesFrom(Len(sent), Last(sent), done)
    BY <1>2 DEF StreamOK, Remaining, Rest
  <2>4. done \in 0..L
    BY <2>2, <2>3
  <2>5. /\ Rest \in Seq(Bytes) /\ Len(Rest) = L - done
        /\ \A j \in 1..(L - done) : Rest[j] = Byte(Len(sent), done + j - 1, Last(sent))
    BY <2>1, <2>2, <2>3, <2>4, BytesFromIs
  <2> HIDE DEF L
  <2>6. Remaining \in Nat /\ (Remaining > 0 => done \in 1..(L - 1)) /\ (Remaining = 0 <=> done = L)
    BY <2>2, <2>3
  <2> QED
    BY <2>1, <2>3, <2>5, <2>6 DEF L
<1> QED
  BY <1>1, <1>2

\* FirstBytes takes n bytes, with padding behind b.
LEMMA FirstBytesIs ==
  ASSUME NEW b \in Seq(Bytes), NEW n \in Nat
  PROVE  /\ FirstBytes(b, n) \in Seq(Bytes) /\ Len(FirstBytes(b, n)) = n
         /\ \A j \in 1..n : FirstBytes(b, n)[j] = IF j <= Len(b) THEN b[j] ELSE Padding
<1> DEFINE e(j) == IF j <= Len(b) THEN b[j] ELSE Padding
           u == [j \in 1..n |-> e(j)]
<1>1. \A j \in 1..n : e(j) \in Bytes
  <2> TAKE j \in 1..n
  <2>1. CASE j <= Len(b)
    <3>1. j \in 1..Len(b)
      BY <2>1
    <3>2. b[j] \in Bytes
      BY <3>1
    <3> QED
      BY <2>1, <3>2
  <2>2. CASE ~(j <= Len(b))
    BY <2>2, OtherBytes
  <2> QED
    BY <2>1, <2>2
<1>2. FirstBytes(b, n) = u
  BY DEF FirstBytes
<1> HIDE DEF e
<1>3. u \in Seq(Bytes) /\ Len(u) = n
  <2>1. u \in [1..n -> Bytes]
    BY <1>1
  <2> QED
    BY <2>1, SeqDef
<1>4. \A j \in 1..n : u[j] = e(j)
  OBVIOUS
<1> QED
  BY <1>2, <1>3, <1>4 DEF e

\* A packet in which no section begins goes on where the stream stands.
LEMMA ContinuationIs ==
  ASSUME StreamOK, Remaining > 0, NEW c \in Counts
  PROVE  PacketSpec(Continuation(c))
<1> DEFINE x == Continuation(c)
           L == Last(sent).len
           b == FirstBytes(Rest, c)
<1>0. sent \in Seq(Sections) /\ Len(sent) <= MaxSections
  BY DEF StreamOK
<1>1. c \in Nat /\ c > 0
  BY SectionAssumption
<1>2. /\ Remaining \in Nat /\ Len(sent) > 0 /\ done \in 1..(L - 1) /\ Remaining = L - done
      /\ L \in Nat /\ Len(sent) \in Nat /\ done \in Nat
  BY <1>0, RemainingIs, LastSection
<1>3. x = [count |-> c, pusi |-> FALSE, pointer |-> 0, bytes |-> b, sent |-> sent,
           done |-> done + Least(c, Remaining)]
  BY DEF Continuation
<1>4. /\ b \in Seq(Bytes) /\ Len(b) = c
      /\ \A j \in 1..c :
           b[j] = IF j <= L - done THEN Byte(Len(sent), done + j - 1, Last(sent)) ELSE Padding
  <2>1. /\ b \in Seq(Bytes) /\ Len(b) = c
        /\ \A j \in 1..c : b[j] = IF j <= Len(Rest) THEN Rest[j] ELSE Padding
    BY <1>1, RemainingIs, FirstBytesIs
  <2>2. /\ Len(Rest) = L - done
        /\ \A j \in 1..(L - done) : Rest[j] = Byte(Len(sent), done + j - 1, Last(sent))
    BY <1>2, RemainingIs
  <2> HIDE DEF b, L
  <2>3. ASSUME NEW j \in 1..c
        PROVE  b[j] = IF j <= L - done THEN Byte(Len(sent), done + j - 1, Last(sent)) ELSE Padding
    <3>1. CASE j <= L - done
      <4>1. j \in 1..(L - done)
        BY <3>1, <1>1, <1>2
      <4> QED
        BY <4>1, <3>1, <2>1, <2>2
    <3>2. CASE ~(j <= L - done)
      BY <3>2, <2>1, <2>2
    <3> QED
      BY <3>1, <3>2
  <2> QED
    BY <2>1, <2>3
<1> HIDE DEF x, b
<1>5. /\ x.count = c /\ x.pusi = FALSE /\ x.pointer = 0 /\ x.bytes = b /\ x.sent = sent
      /\ x.done = done + Least(c, Remaining)
  BY <1>3
<1>6. x.done = IF c < L - done THEN done + c ELSE L
  <2> HIDE DEF L
  <2> QED
    BY <1>1, <1>2, <1>5 DEF Least
<1>7. Continues(x.bytes, sent, done, x.done)
  BY <1>1, <1>2, <1>4, <1>5, <1>6 DEF Continues
<1>8. x.done \in 1..L
  <2> HIDE DEF L
  <2> QED
    BY <1>1, <1>2, <1>6
<1>9. Prefix(sent, sent)
  BY <1>2 DEF Prefix
<1>10. \A i \in 1..Len(x.bytes) : x.bytes[i].id <= Len(sent)
  <2>1. x.bytes \in Seq(Bytes) /\ Genuine(x.bytes, sent)
    BY <1>0, <1>4, <1>5, <1>7, ContinuesIs
  <2> QED
    BY <2>1, <1>0, GenuineIds
<1>11. PacketSpec(x)
  <2>1. ~x.pusi /\ x.pusi \in BOOLEAN
    BY <1>5
  <2>2. x.sent \in Seq(Sections) /\ Len(x.sent) <= MaxSections /\ Len(x.sent) > 0
    BY <1>0, <1>2, <1>5
  <2>3. Prefix(sent, x.sent) /\ x.done \in 1..Last(x.sent).len
    BY <1>5, <1>8, <1>9
  <2>4. x.bytes \in Seq(Bytes) /\ \A i \in 1..Len(x.bytes) : x.bytes[i].id <= Len(x.sent)
    BY <1>4, <1>5, <1>10
  <2>5. x.count \in Nat /\ x.pointer \in Nat
    BY <1>1, <1>5
  <2>6. x.sent = sent
    BY <1>5
  <2> QED
    BY <2>1, <2>2, <2>3, <2>4, <2>5, <2>6, <1>7 DEF PacketSpec
<1> QED
  BY <1>11 DEF x

\* A sequence cut in two at offset n.
LEMMA CutInTwo ==
  ASSUME NEW u \in Seq(Bytes), NEW n \in Nat, n <= Len(u)
  PROVE  /\ SubSeq(u, 1, n) \in Seq(Bytes) /\ Len(SubSeq(u, 1, n)) = n
         /\ \A j \in 1..n : SubSeq(u, 1, n)[j] = u[j]
         /\ SubSeq(u, n + 1, Len(u)) \in Seq(Bytes)
         /\ Len(SubSeq(u, n + 1, Len(u))) = Len(u) - n
         /\ \A j \in 1..(Len(u) - n) : SubSeq(u, n + 1, Len(u))[j] = u[n + j]
<1>1. Len(u) \in Nat
  OBVIOUS
<1>2. \A i \in 1..n : u[i] \in Bytes
  BY <1>1
<1>3. \A i \in (n + 1)..Len(u) : u[i] \in Bytes
  BY <1>1
<1>4. /\ SubSeq(u, 1, n) \in Seq(Bytes) /\ Len(SubSeq(u, 1, n)) = n
      /\ \A j \in 1..n : SubSeq(u, 1, n)[j] = u[j]
  BY <1>1, <1>2
<1>5. /\ SubSeq(u, n + 1, Len(u)) \in Seq(Bytes)
      /\ Len(SubSeq(u, n + 1, Len(u))) = Len(u) - n
      /\ \A j \in 1..(Len(u) - n) : SubSeq(u, n + 1, Len(u))[j] = u[n + j]
  BY <1>1, <1>3
<1> QED
  BY <1>4, <1>5

\* The numbers in a packet in which sections begin: n bytes before them, N bytes of
\* sections, the last of them L long, in a packet of c bytes.
LEMMA BeginningNumbers ==
  ASSUME NEW n \in Nat, NEW N \in Nat, NEW L \in Nat, L > 0, L <= N, NEW c \in Nat,
         N - L + n + 2 <= c
  PROVE  /\ c - 1 \in Nat /\ c > 1 /\ n < c /\ n <= c - 1
         /\ (c - 1) - n \in Nat /\ N - L + 1 <= (c - 1) - n
         /\ (IF n + N > c - 1 THEN (n + N) - (c - 1) ELSE 0)
            = IF N > (c - 1) - n THEN N - ((c - 1) - n) ELSE 0
         /\ \A j \in 1..((c - 1) - n) : /\ n + j \in 1..(c - 1) /\ ~(n + j <= n)
                                        /\ (n + j) - n = j
                                        /\ n + j <= n + N <=> j <= N
         /\ \A j \in 1..n : j \in 1..(c - 1) /\ j <= n + N
OBVIOUS

\* A packet in which sections begin: the rest of the section before them up to the
\* pointer, then the new ones as far as they fit.
LEMMA BeginningIs ==
  ASSUME StreamOK, NEW c \in Counts, NEW new \in Seq(Sections), Len(new) > 0,
         Len(new) <= MaxSections - Len(sent),
         Len(NewBytes(new)) - Last(new).len + Remaining + 2 <= c
  PROVE  PacketSpec(Beginning(c, new))
<1> DEFINE x == Beginning(c, new)
           n == Remaining
           nb == NewBytes(new)
           N == Len(nb)
           b == Rest \o nb
           u == FirstBytes(b, c - 1)
           L == Last(new).len
           s == sent \o new
           z == L - (IF Len(b) > c - 1 THEN Len(b) - (c - 1) ELSE 0)
           bf == SubSeq(u, 1, n)
           fr == SubSeq(u, n + 1, Len(u))
<1>0. sent \in Seq(Sections) /\ Len(sent) \in Nat /\ Len(sent) <= MaxSections /\ Len(new) \in Nat
      /\ MaxSections \in Nat
  BY SectionAssumption DEF StreamOK
<1>1. c \in Nat /\ c <= FullPayload /\ FullPayload \in Nat
  BY SectionAssumption, Sizes
<1>2. x = [count |-> c, pusi |-> TRUE, pointer |-> n, bytes |-> u, sent |-> s, done |-> z]
  BY DEF Beginning
<1>3. /\ s \in Seq(Sections) /\ Len(s) = Len(sent) + Len(new)
      /\ \A i \in 1..Len(sent) : s[i] = sent[i]
      /\ \A l \in 1..Len(new) : s[Len(sent) + l] = new[l]
  BY <1>0
<1>4. Prefix(sent, s)
  BY <1>0, <1>3 DEF Prefix
<1>5. L \in Nat /\ L > 0 /\ L <= MaxSection
  BY LastSection
<1>6. Chained(nb, Len(sent), new, Len(new))
  BY <1>0, NewBytesIs
<1>7. nb \in Seq(Bytes) /\ N \in Nat /\ L <= N
  <2>1. nb \in Seq(Bytes) /\ N >= new[Len(new)].len
    BY <1>6 DEF Chained
  <2>2. Last(new) = new[Len(new)]
    BY LastSection
  <2>3. N \in Nat
    BY <2>1
  <2> QED
    BY <2>1, <2>2, <2>3, <1>5
<1>8. /\ n \in Nat /\ Rest \in Seq(Bytes) /\ Len(Rest) = n
      /\ n > 0 => Len(sent) > 0 /\ done \in 1..(Last(sent).len - 1) /\ n = Last(sent).len - done
      /\ \A j \in 1..n : Rest[j] = Byte(Len(sent), done + j - 1, Last(sent))
  BY RemainingIs
<1>9. N - L + n + 2 <= c
  OBVIOUS
<1> HIDE DEF x, n, nb, N, L, s, bf, fr
<1>10. /\ b \in Seq(Bytes) /\ Len(b) = n + N
       /\ \A j \in 1..(n + N) : b[j] = IF j <= n THEN Rest[j] ELSE nb[j - n]
  <2>1. N = Len(nb)
    BY DEF N
  <2>2. /\ Rest \o nb \in Seq(Bytes) /\ Len(Rest \o nb) = Len(Rest) + Len(nb)
        /\ \A i \in 1..(Len(Rest) + Len(nb)) :
             (Rest \o nb)[i] = IF i <= Len(Rest) THEN Rest[i] ELSE nb[i - Len(Rest)]
    BY <1>7, <1>8, ConcatProperties
  <2> QED
    BY <2>1, <2>2, <1>8
<1> HIDE DEF b
<1>11. /\ c - 1 \in Nat /\ c > 1 /\ n < c /\ n <= c - 1
       /\ (c - 1) - n \in Nat /\ N - L + 1 <= (c - 1) - n
       /\ (IF n + N > c - 1 THEN (n + N) - (c - 1) ELSE 0)
          = IF N > (c - 1) - n THEN N - ((c - 1) - n) ELSE 0
       /\ \A j \in 1..((c - 1) - n) : /\ n + j \in 1..(c - 1) /\ ~(n + j <= n)
                                      /\ (n + j) - n = j
                                      /\ n + j <= n + N <=> j <= N
       /\ \A j \in 1..n : j \in 1..(c - 1) /\ j <= n + N
  BY <1>1, <1>5, <1>7, <1>8, <1>9, BeginningNumbers
<1>12. /\ u \in Seq(Bytes) /\ Len(u) = c - 1
       /\ \A j \in 1..(c - 1) : u[j] = IF j <= n + N THEN b[j] ELSE Padding
  <2>1. /\ FirstBytes(b, c - 1) \in Seq(Bytes) /\ Len(FirstBytes(b, c - 1)) = c - 1
        /\ \A j \in 1..(c - 1) : FirstBytes(b, c - 1)[j] = IF j <= Len(b) THEN b[j] ELSE Padding
    BY <1>10, <1>11, FirstBytesIs
  <2> QED
    BY <2>1, <1>10
<1> HIDE DEF u
<1>13. /\ bf \in Seq(Bytes) /\ Len(bf) = n
       /\ \A j \in 1..n : bf[j] = u[j]
       /\ fr \in Seq(Bytes) /\ Len(fr) = (c - 1) - n
       /\ \A j \in 1..((c - 1) - n) : fr[j] = u[n + j]
  <2>1. n <= Len(u) /\ Len(u) = c - 1
    BY <1>11, <1>12
  <2>2. /\ bf \in Seq(Bytes) /\ Len(bf) = n
        /\ \A j \in 1..n : bf[j] = u[j]
        /\ fr \in Seq(Bytes) /\ Len(fr) = Len(u) - n
        /\ \A j \in 1..(Len(u) - n) : fr[j] = u[n + j]
    BY <1>8, <1>12, <2>1, CutInTwo DEF bf, fr
  <2> QED
    BY <2>1, <2>2
<1>14. \A j \in 1..n : u[j] = Rest[j]
  BY <1>7, <1>8, <1>10, <1>11, <1>12
<1>15. \A j \in 1..((c - 1) - n) : fr[j] = IF j <= N THEN nb[j] ELSE Padding
  <2> TAKE j \in 1..((c - 1) - n)
  <2>1. n + j \in 1..(c - 1) /\ ~(n + j <= n) /\ (n + j) - n = j /\ (n + j <= n + N <=> j <= N)
    BY <1>11
  <2>2. fr[j] = IF n + j <= n + N THEN b[n + j] ELSE Padding
    BY <2>1, <1>12, <1>13
  <2>3. CASE j <= N
    <3>1. n + j \in 1..(n + N) /\ n + j <= n + N
      BY <2>3, <1>7, <1>8
    <3>2. b[n + j] = nb[(n + j) - n]
      BY <3>1, <2>1, <1>10
    <3> QED
      BY <3>1, <3>2, <2>1, <2>2, <2>3
  <2>4. CASE ~(j <= N)
    BY <2>4, <2>1, <2>2
  <2> QED
    BY <2>3, <2>4
<1>16. z = L - (IF N > Len(fr) THEN N - Len(fr) ELSE 0)
  <2>1. z = L - (IF n + N > c - 1 THEN (n + N) - (c - 1) ELSE 0)
    BY <1>10
  <2> HIDE DEF z
  <2> QED
    BY <2>1, <1>11, <1>13
<1>17. Begins(fr, Len(sent), s, z) /\ Last(s) = Last(new)
  <2>1. Len(fr) < FullPayload
    BY <1>1, <1>8, <1>11, <1>13
  <2>2. Len(nb) - Last(new).len + 1 <= Len(fr)
    BY <1>11, <1>13 DEF N, L
  <2>3. \A j \in 1..Len(fr) : fr[j] = IF j <= Len(nb) THEN nb[j] ELSE Padding
    BY <1>13, <1>15 DEF N
  <2>4. z = Last(new).len - (IF Len(nb) > Len(fr) THEN Len(nb) - Len(fr) ELSE 0)
    BY <1>16 DEF N, L
  <2> HIDE DEF z
  <2>5. fr \in Seq(Bytes) /\ sent \in Seq(Sections) /\ s \in Seq(Sections)
    BY <1>0, <1>3, <1>13
  <2>6. /\ Len(s) = Len(sent) + Len(new) /\ Prefix(sent, s)
        /\ \A l \in 1..Len(new) : s[Len(sent) + l] = new[l]
    BY <1>3, <1>4
  <2> QED
    BY <2>1, <2>2, <2>3, <2>4, <2>5, <2>6, <1>6, BeginsFrom
<1> HIDE DEF z
<1>18. n > 0 => Continues(bf, sent, done, Last(sent).len)
  <2> SUFFICES ASSUME n > 0 PROVE Continues(bf, sent, done, Last(sent).len)
    OBVIOUS
  <2> DEFINE M == Last(sent).len
  <2>1. Len(sent) > 0 /\ done \in 1..(M - 1) /\ n = M - done
    BY <1>8
  <2>2. \A j \in 1..n : bf[j] = Byte(Len(sent), done + j - 1, Last(sent))
    BY <1>8, <1>13, <1>14
  <2>3. M \in Nat
    BY <2>1, <1>0, LastSection
  <2> HIDE DEF M
  <2>4. \A j \in 1..Len(bf) :
          bf[j] = IF j <= M - done THEN Byte(Len(sent), done + j - 1, Last(sent)) ELSE Padding
    BY <2>1, <2>2, <1>13, <1>8
  <2>5. M = IF Len(bf) < M - done THEN done + Len(bf) ELSE M
    BY <2>1, <2>3, <1>13, <1>8
  <2> QED
    BY <2>1, <2>4, <2>5, <1>13 DEF Continues, M
<1>19. \A j \in 1..Len(u) : u[j].id <= Len(s)
  <2> TAKE j \in 1..Len(u)
  <2>1. j \in 1..(c - 1)
    BY <1>12
  <2>2. Len(s) = Len(sent) + Len(new) /\ Len(sent) \in Nat /\ Len(new) \in Nat
    BY <1>0, <1>3
  <2>3. CASE j <= n
    <3>1. j \in 1..n
      BY <2>1, <2>3, <1>8, <1>11
    <3>2. u[j].id = Len(sent)
      BY <3>1, <1>8, <1>14 DEF Byte
    <3> QED
      BY <3>2, <2>2
  <2>4. CASE ~(j <= n) /\ j <= n + N
    <3>1. j \in 1..(n + N) /\ j - n \in 1..N
      BY <2>1, <2>4, <1>7, <1>8, <1>11
    <3>2. u[j] = nb[j - n]
      BY <3>1, <2>1, <2>4, <1>10, <1>12
    <3>3. nb[j - n].id \in (Len(sent) + 1)..(Len(sent) + Len(new))
      <4>1. j - n \in 1..Len(nb)
        BY <3>1 DEF N
      <4> QED
        BY <4>1, <1>6 DEF Chained
    <3> QED
      BY <3>2, <3>3, <2>2
  <2>5. CASE ~(j <= n + N)
    <3>1. u[j].id = 0
      BY <2>1, <2>5, <1>12, OtherBytes
    <3> QED
      BY <3>1, <2>2
  <2> QED
    BY <2>3, <2>4, <2>5
<1>20. /\ x.count = c /\ x.pusi /\ x.pusi \in BOOLEAN /\ x.pointer = n /\ x.bytes = u
       /\ x.sent = s /\ x.done = z
  BY <1>2
<1>21. PacketSpec(x)
  <2>1. x.sent \in Seq(Sections) /\ Len(x.sent) <= MaxSections /\ Len(x.sent) > 0
    BY <1>0, <1>3, <1>20
  <2>2. Prefix(sent, x.sent) /\ x.done \in 1..Last(x.sent).len
    BY <1>4, <1>17, <1>20 DEF Begins
  <2>3. x.bytes \in Seq(Bytes) /\ \A i \in 1..Len(x.bytes) : x.bytes[i].id <= Len(x.sent)
    BY <1>12, <1>19, <1>20
  <2>4. x.count \in Nat /\ x.pointer \in Nat
    BY <1>1, <1>8, <1>20
  <2>5. Len(x.bytes) = x.count - 1 /\ x.count > 1 /\ x.pointer < x.count /\ x.pointer = Remaining
    BY <1>11, <1>12, <1>20 DEF n
  <2>6. Begins(SubSeq(x.bytes, x.pointer + 1, Len(x.bytes)), Len(sent), x.sent, x.done)
    BY <1>17, <1>20 DEF fr
  <2>7. x.pointer > 0 => Continues(SubSeq(x.bytes, 1, x.pointer), sent, done, Last(sent).len)
    BY <1>18, <1>20 DEF bf
  <2> QED
    BY <2>1, <2>2, <2>3, <2>4, <2>5, <2>6, <2>7, <1>20 DEF PacketSpec
<1> QED
  BY <1>21 DEF x

-----------------------------------------------------------------------------
(***************************************************************************)
(* The packets that may come next.                                         *)
(***************************************************************************)
\* The elements of BoundedSeq.
LEMMA BoundedSeqIs ==
  ASSUME NEW S, NEW n \in Int, NEW w \in BoundedSeq(S, n) \ {<<>>}
  PROVE  w \in Seq(S) /\ Len(w) > 0 /\ Len(w) <= n
<1>1. PICK m \in 0..n : w \in [1..m -> S]
  BY DEF BoundedSeq, SeqOf
<1>2. w \in Seq(S) /\ Len(w) = m
  BY <1>1, SeqDef
<1>3. Len(w) # 0
  BY <1>2, EmptySeq
<1> QED
  BY <1>1, <1>2, <1>3

\* Every packet that may come next is as described.
LEMMA NextPacketsOK ==
  ASSUME StreamOK, NEW x \in NextPackets
  PROVE  PacketSpec(x)
<1>1. CASE x \in (IF Remaining > 0 THEN {Continuation(c) : c \in Counts} ELSE {})
  <2>1. PICK c \in Counts : Remaining > 0 /\ x = Continuation(c)
    BY <1>1
  <2> QED
    BY <2>1, ContinuationIs
<1>2. CASE \E y \in {z \in Counts \X (BoundedSeq(Sections, MaxSections - Len(sent)) \ {<<>>}) :
                      Len(NewBytes(z[2])) - Last(z[2]).len + Remaining + 2 <= z[1]} :
             x = Beginning(y[1], y[2])
  <2>1. PICK c \in Counts, new \in BoundedSeq(Sections, MaxSections - Len(sent)) \ {<<>>} :
               /\ Len(NewBytes(new)) - Last(new).len + Remaining + 2 <= c
               /\ x = Beginning(c, new)
    BY <1>2
  <2>2. MaxSections - Len(sent) \in Int
    BY SectionAssumption DEF StreamOK
  <2>3. new \in Seq(Sections) /\ Len(new) > 0 /\ Len(new) <= MaxSections - Len(sent)
    BY <2>2, BoundedSeqIs
  <2> QED
    BY <2>1, <2>3, BeginningIs
<1> QED
  BY <1>1, <1>2 DEF NextPackets

\* What the handler is given when packet x arrives.
LEMMA PktIs ==
  ASSUME StreamOK, NEW x, PacketSpec(x), NEW dc \in BOOLEAN
  PROVE  LET p == Pkt(x, dc)
         IN /\ PacketOK(p, Len(x.sent)) /\ ~p.damaged
            /\ p.pusi = x.pusi /\ p.bytes = x.bytes /\ p.count = x.count
            /\ p.pointer = x.pointer /\ p.cc = next_cc /\ p.dc = dc
            /\ Before(p) = SubSeq(x.bytes, 1, x.pointer)
            /\ From(p) = SubSeq(x.bytes, x.pointer + 1, Len(x.bytes))
<1> DEFINE p == Pkt(x, dc)
<1>1. /\ p.pusi = x.pusi /\ p.bytes = x.bytes /\ p.count = x.count
      /\ p.pointer = x.pointer /\ p.cc = next_cc /\ p.dc = dc /\ p.damaged = FALSE
  BY DEF Pkt
<1> HIDE DEF p
<1>2. Before(p) = SubSeq(x.bytes, 1, x.pointer)
      /\ From(p) = SubSeq(x.bytes, x.pointer + 1, Len(x.bytes))
  BY <1>1 DEF Before, From
<1>3. /\ p.bytes \in Seq(Bytes) /\ \A i \in 1..Len(p.bytes) : p.bytes[i].id <= Len(x.sent)
      /\ p.count \in Nat /\ p.pointer \in Nat /\ p.pusi \in BOOLEAN
      /\ p.pusi => Len(p.bytes) = p.count - 1
  BY <1>1 DEF PacketSpec
<1>4. p.cc \in 0..(CCs - 1) /\ p.damaged \in BOOLEAN /\ p.dc \in BOOLEAN
  BY <1>1 DEF StreamOK
<1>5. PacketOK(p, Len(x.sent))
  BY <1>3, <1>4 DEF PacketOK
<1> QED
  BY <1>1, <1>2, <1>5 DEF p

-----------------------------------------------------------------------------
(***************************************************************************)
(* The continuity counter.                                                 *)
(***************************************************************************)
\* The counter without the remainder operator.
LEMMA NextCounter ==
  ASSUME NEW n \in 0..(CCs - 1)
  PROVE  (n + 1) % CCs = IF n + 1 = CCs THEN 0 ELSE n + 1
BY SectionAssumption

\* The handler accepts a packet only when none was missed before it.
LEMMA AcceptsWhen ==
  ASSUME StreamOK, CounterInStep, NEW f, f.cc = cc, cc \in 0..(CCs - 1),
         NEW p, p.cc = next_cc, p.dc \in BOOLEAN
  PROVE  /\ Accepts(f, p) => missed = 0
         /\ missed = 0 /\ ~p.dc => Accepts(f, p)
<1>1. next_cc \in 0..(CCs - 1) /\ missed \in 0..(CCs - 1) /\ CCs \in Nat /\ CCs > 1
  BY SectionAssumption DEF StreamOK
<1>2. (cc + 1) % CCs = IF cc + 1 = CCs THEN 0 ELSE cc + 1
  BY NextCounter
<1> DEFINE r == (cc + 1) % CCs
<1>3. Accepts(f, p) <=> (r = next_cc /\ ~p.dc)
  BY DEF Accepts
<1> HIDE DEF r
<1>4. r = next_cc <=> missed = 0
  BY <1>1, <1>2 DEF CounterInStep, r
<1> QED
  BY <1>3, <1>4

\* A packet that comes twice is not accepted again.
LEMMA NotTwice ==
  ASSUME NEW f, NEW p, f.cc = p.cc, p.cc \in 0..(CCs - 1)
  PROVE  ~Accepts(f, p)
<1>1. (p.cc + 1) % CCs # p.cc
  BY NextCounter, SectionAssumption
<1> QED
  BY <1>1 DEF Accepts
-----------------------------------------------------------------------------
(***************************************************************************)
(* What holds of the sections sent so far holds when more have been sent.  *)
(***************************************************************************)
\* The types of the feed.
LEMMA TypedMore ==
  ASSUME NEW n \in Nat, NEW m \in Nat, n <= m, NEW f, Typed(f, n)
  PROVE  Typed(f, m)
<1>1. /\ f \in FeedRec
      /\ \A i \in 1..Len(f.secbuf_base) : f.secbuf_base[i].id <= n
      /\ \A i \in 1..Len(f.out) : f.out[i].id <= n
  BY DEF Typed
<1>2. f.secbuf_base \in Seq(Bytes) /\ f.out \in Seq(Given)
  BY <1>1 DEF FeedRec
<1>3. \A i \in 1..Len(f.secbuf_base) : f.secbuf_base[i].id <= m
  <2> TAKE i \in 1..Len(f.secbuf_base)
  <2>1. f.secbuf_base[i] \in Bytes
    BY <1>2
  <2>2. f.secbuf_base[i].id \in Nat
    BY <2>1 DEF Bytes
  <2>3. f.secbuf_base[i].id <= n
    BY <1>1
  <2> QED
    BY <2>2, <2>3
<1>4. \A i \in 1..Len(f.out) : f.out[i].id <= m
  <2> TAKE i \in 1..Len(f.out)
  <2>1. f.out[i] \in Given
    BY <1>2
  <2>2. f.out[i].id \in Nat
    BY <2>1 DEF Given
  <2>3. f.out[i].id <= n
    BY <1>1
  <2> QED
    BY <2>2, <2>3
<1> QED
  BY <1>1, <1>3, <1>4 DEF Typed

\* An aligned buffer stays aligned.
LEMMA AlignedMore ==
  ASSUME NEW k \in Seq(Sections), NEW s \in Seq(Sections), Prefix(k, s),
         NEW d, NEW p, Aligned(d, p, k)
  PROVE  Aligned(d, p, s)
<1>1. Genuine(d, s)
  <2> SUFFICES ASSUME NEW i \in 1..Len(d)
               PROVE  \/ d[i] = Padding
                      \/ /\ d[i].id \in 1..Len(s) /\ d[i].sec = s[d[i].id]
                         /\ d[i].k < d[i].sec.len
    BY DEF Genuine
  <2>1. CASE d[i] = Padding
    BY <2>1
  <2>2. CASE d[i] # Padding
    <3>1. d[i].id \in 1..Len(k) /\ d[i].sec = k[d[i].id] /\ d[i].k < d[i].sec.len
      BY <2>2 DEF Aligned, Genuine
    <3>2. Len(k) <= Len(s) /\ \A j \in 1..Len(k) : s[j] = k[j]
      BY DEF Prefix
    <3>3. Len(k) \in Nat /\ Len(s) \in Nat
      OBVIOUS
    <3> QED
      BY <3>1, <3>2, <3>3
  <2> QED
    BY <2>1, <2>2
<1> QED
  BY <1>1 DEF Aligned

\* A step of the sender keeps StreamOK.
LEMMA SentKeeps ==
  ASSUME StreamOK, NEW x, PacketSpec(x), Sent(x),
         missed' \in 0..(CCs - 1), faults' \in 0..MaxFaults
  PROVE  /\ StreamOK' /\ sent' = x.sent /\ done' = x.done /\ sent' # <<>>
         /\ Prefix(sent, sent') /\ Len(sent) \in Nat /\ Len(sent') \in Nat
         /\ Len(sent) <= Len(sent') /\ Remaining' = Last(sent').len - done'
         /\ Last(sent').len \in Nat /\ done' \in Nat
         /\ next_cc' = IF next_cc + 1 = CCs THEN 0 ELSE next_cc + 1
<1>1. sent' = x.sent /\ done' = x.done /\ next_cc' = (next_cc + 1) % CCs
  BY DEF Sent
<1>2. /\ sent' \in Seq(Sections) /\ Len(sent') <= MaxSections /\ Len(sent') > 0
      /\ Prefix(sent, sent') /\ done' \in 1..Last(sent').len
  BY <1>1 DEF PacketSpec
<1>3. sent' # <<>> /\ Len(sent') \in Nat
  BY <1>2, EmptySeq
<1>4. Last(sent').len \in Nat
  BY <1>2, LastSection
<1>5. done' \in Nat
  BY <1>2, <1>4
<1>6. next_cc \in 0..(CCs - 1)
  BY DEF StreamOK
<1>7. next_cc' = IF next_cc + 1 = CCs THEN 0 ELSE next_cc + 1
  BY <1>1, <1>6, NextCounter
<1>8. next_cc' \in 0..(CCs - 1)
  BY <1>6, <1>7, SectionAssumption
<1>9. StreamOK'
  BY <1>2, <1>3, <1>5, <1>8 DEF StreamOK
<1>10. Len(sent) \in Nat /\ Len(sent) <= Len(sent')
  BY <1>2 DEF StreamOK, Prefix
<1>11. Remaining' = Last(sent').len - done'
  BY <1>3 DEF Remaining
<1> QED
  BY <1>1, <1>2, <1>3, <1>4, <1>5, <1>7, <1>9, <1>10, <1>11

-----------------------------------------------------------------------------
(***************************************************************************)
(* A packet is received.                                                   *)
(***************************************************************************)
\* What packet x does to the feed f.
LEMMA Handled ==
  ASSUME StreamOK, ParamsOK, NEW x, PacketSpec(x), NEW dc \in BOOLEAN,
         NEW f, Typed(f, Len(x.sent)), OnlyWhole(f.out),
         Accepts(f, Pkt(x, dc)) => Typed(f, Len(sent)) /\ Synced(f, sent, done)
  PROVE  LET g == section_packet(f, Pkt(x, dc))
         IN /\ Typed(g, Len(x.sent)) /\ g.cc = next_cc /\ Extends(g.out, f.out)
            /\ OnlyWhole(g.out) /\ Synced(g, x.sent, x.done)
            /\ InOrder(f) /\ Typed(f, Len(sent)) => InOrder(g)
            /\ x.pusi =>
                 /\ g.pusi_seen /\ ~g.tainted
                 /\ x.done # Last(x.sent).len => InProgress(g, x.sent, x.done)
                 /\ \A i \in (Len(sent) + 1)..Len(x.sent) :
                      (i = Len(x.sent) => x.done = Last(x.sent).len)
                      => GivenOut(g.out, i, x.sent[i].table)
            /\ (/\ Accepts(f, Pkt(x, dc)) /\ f.pusi_seen /\ ~f.tainted
                /\ Remaining > 0 /\ InProgress(f, sent, done)) =>
                 IF x.pusi \/ x.done = Last(sent).len
                 THEN GivenOut(g.out, Len(sent), Last(sent).table)
                 ELSE InProgress(g, sent, x.done)
            /\ Accepts(f, Pkt(x, dc)) /\ f.pusi_seen /\ ~f.tainted => g.pusi_seen /\ ~g.tainted
<1> DEFINE p == Pkt(x, dc)
           g == section_packet(f, p)
<1>0. sent \in Seq(Sections) /\ x.sent \in Seq(Sections) /\ x.pusi \in BOOLEAN
  BY DEF StreamOK, PacketSpec
<1>1. /\ PacketOK(p, Len(x.sent)) /\ ~p.damaged
      /\ p.pusi = x.pusi /\ p.bytes = x.bytes /\ p.count = x.count
      /\ p.pointer = x.pointer /\ p.cc = next_cc /\ p.dc = dc
      /\ Before(p) = SubSeq(x.bytes, 1, x.pointer)
      /\ From(p) = SubSeq(x.bytes, x.pointer + 1, Len(x.bytes))
  BY PktIs
<1>2. Len(x.sent) \in Nat
  BY <1>0
<1>3. Accepts(f, p) => Typed(f, Len(sent)) /\ Synced(f, sent, done)
  OBVIOUS
<1> HIDE DEF p
<1>4. Typed(g, Len(x.sent)) /\ g.cc = next_cc /\ Extends(g.out, f.out)
  BY <1>1, <1>2, HandleTyped
<1>5. CASE ~x.pusi
  <2>1. x.sent = sent /\ Continues(p.bytes, sent, done, x.done) /\ ~p.pusi
    BY <1>1, <1>5 DEF PacketSpec
  <2>2. Typed(f, Len(sent)) /\ PacketOK(p, Len(sent))
    BY <1>1, <2>1
  <2>3. /\ OnlyWhole(g.out) /\ Synced(g, sent, x.done)
        /\ InOrder(f) => InOrder(g)
        /\ Accepts(f, p) /\ f.pusi_seen /\ ~f.tainted =>
             /\ g.pusi_seen /\ ~g.tainted
             /\ InProgress(f, sent, done) =>
                  IF x.done = Last(sent).len THEN GivenOut(g.out, Len(sent), Last(sent).table)
                  ELSE InProgress(g, sent, x.done)
    BY <2>1, <2>2, <1>0, <1>1, <1>3, HandleContinues
  <2> HIDE DEF g
  <2>4. Synced(g, x.sent, x.done)
    BY <2>1, <2>3
  <2>5. (/\ Accepts(f, p) /\ f.pusi_seen /\ ~f.tainted
         /\ Remaining > 0 /\ InProgress(f, sent, done)) =>
          IF x.pusi \/ x.done = Last(sent).len
          THEN GivenOut(g.out, Len(sent), Last(sent).table)
          ELSE InProgress(g, sent, x.done)
    BY <2>3, <1>5
  <2> QED
    BY <1>4, <1>5, <2>3, <2>4, <2>5 DEF g, p
<1>6. CASE x.pusi
  <2>1. /\ p.count > 1 /\ p.pointer < p.count /\ p.pointer = Remaining /\ p.pusi
        /\ Begins(From(p), Len(sent), x.sent, x.done)
        /\ p.pointer > 0 => Continues(Before(p), sent, done, Last(sent).len)
    BY <1>1, <1>6 DEF PacketSpec
  <2>2. /\ OnlyWhole(g.out) /\ Synced(g, x.sent, x.done) /\ g.pusi_seen /\ ~g.tainted
        /\ InOrder(f) /\ Typed(f, Len(sent)) => InOrder(g)
        /\ x.done # Last(x.sent).len => InProgress(g, x.sent, x.done)
        /\ \A i \in (Len(sent) + 1)..Len(x.sent) :
             (i = Len(x.sent) => x.done = Last(x.sent).len)
             => GivenOut(g.out, i, x.sent[i].table)
        /\ (/\ Accepts(f, p) /\ f.pusi_seen /\ ~f.tainted
            /\ p.pointer > 0 /\ InProgress(f, sent, done))
           => GivenOut(g.out, Len(sent), Last(sent).table)
    BY <2>1, <1>0, <1>1, <1>3, HandleBegins
  <2> HIDE DEF g
  <2>3. (/\ Accepts(f, p) /\ f.pusi_seen /\ ~f.tainted
         /\ Remaining > 0 /\ InProgress(f, sent, done)) =>
          IF x.pusi \/ x.done = Last(sent).len
          THEN GivenOut(g.out, Len(sent), Last(sent).table)
          ELSE InProgress(g, sent, x.done)
    BY <2>1, <2>2, <1>6
  <2> QED
    BY <1>4, <1>6, <2>2, <2>3 DEF g, p
<1> QED
  BY <1>0, <1>5, <1>6

\* The handler works on the feed in its state: what it is allowed to rely on.
LEMMA FeedHandled ==
  ASSUME IInv, state = "go", NEW x, PacketSpec(x), NEW dc \in BOOLEAN
  PROVE  /\ StreamOK /\ ParamsOK /\ Typed(Feed, Len(sent)) /\ Typed(Feed, Len(x.sent))
         /\ Feed.out = out /\ OnlyWhole(Feed.out)
         /\ Accepts(Feed, Pkt(x, dc)) => Typed(Feed, Len(sent)) /\ Synced(Feed, sent, done)
         /\ run /\ ~dc => Accepts(Feed, Pkt(x, dc)) /\ Feed.pusi_seen /\ ~Feed.tainted
         /\ ~repeats => InOrder(Feed)
<1>1. /\ StreamOK /\ ParamsOK /\ Typed(Feed, Len(sent)) /\ OnlyWhole(out) /\ GoOK
      /\ run \in BOOLEAN
  BY DEF IInv, FeedOK, ParamsOK
<1>2. /\ Feed.out = out /\ Feed.cc = cc /\ Feed.pusi_seen = pusi_seen /\ Feed.tainted = tainted
      /\ Feed.secbuf_base = secbuf_base /\ Feed.secbufp = secbufp
  BY DEF Feed
<1>3. cc \in 0..(CCs - 1) /\ pusi_seen \in BOOLEAN /\ tainted \in BOOLEAN
  <2>1. Feed \in FeedRec
    BY <1>1 DEF Typed
  <2>2. Feed.cc \in 0..(CCs - 1) /\ Feed.pusi_seen \in BOOLEAN /\ Feed.tainted \in BOOLEAN
    BY <2>1 DEF FeedRec
  <2> QED
    BY <2>2, <1>2
<1>4. Typed(Feed, Len(x.sent))
  <2>1. Len(sent) \in Nat /\ Len(x.sent) \in Nat /\ Len(sent) <= Len(x.sent)
    BY <1>1 DEF StreamOK, PacketSpec, Prefix
  <2> QED
    BY <2>1, <1>1, TypedMore
<1>5. PacketOK(Pkt(x, dc), Len(x.sent)) /\ Pkt(x, dc).cc = next_cc /\ Pkt(x, dc).dc = dc
  BY <1>1, PktIs
<1>6. CounterInStep => /\ Accepts(Feed, Pkt(x, dc)) => missed = 0
                       /\ missed = 0 /\ ~dc => Accepts(Feed, Pkt(x, dc))
  BY <1>1, <1>2, <1>3, <1>5, AcceptsWhen
<1>7. ASSUME Accepts(Feed, Pkt(x, dc)) PROVE Synced(Feed, sent, done)
  <2>1. CASE pusi_seen /\ ~tainted
    <3>1. CounterInStep
      BY <2>1, <1>1 DEF GoOK
    <3>2. missed = 0
      BY <3>1, <1>6, <1>7
    <3> QED
      BY <3>2, <1>1 DEF GoOK
  <2>2. CASE ~(pusi_seen /\ ~tainted)
    BY <2>2, <1>2 DEF Synced
  <2> QED
    BY <2>1, <2>2
<1>8. ASSUME run, ~dc
      PROVE  Accepts(Feed, Pkt(x, dc)) /\ Feed.pusi_seen /\ ~Feed.tainted
  <2>1. pusi_seen /\ ~tainted /\ missed = 0
    BY <1>1, <1>8 DEF GoOK
  <2>2. CounterInStep
    BY <2>1, <1>1 DEF GoOK
  <2> QED
    BY <2>1, <2>2, <1>2, <1>6, <1>8
<1>9. ~repeats => InOrder(Feed)
  BY <1>1 DEF GoOK
<1>10. OnlyWhole(Feed.out)
  BY <1>1, <1>2
<1> QED
  BY <1>1, <1>2, <1>4, <1>7, <1>8, <1>9, <1>10

\* Sections in whole have been given out, and stay given out.
LEMMA WholeStays ==
  ASSUME IInv, state = "go", NEW s, Prefix(sent, s), NEW l, Extends(l, out), NEW id \in whole
  PROVE  GivenOut(l, id, s[id].table)
<1>1. id \in 1..Len(sent) /\ WholeSectionsDelivered
  BY DEF IInv, FeedOK
<1>2. s[id] = sent[id]
  BY <1>1 DEF Prefix
<1>3. GivenOut(out, id, sent[id].table)
  BY <1>1 DEF WholeSectionsDelivered, GivenOut
<1> QED
  BY <1>2, <1>3, GivenStays

\* The sections that a packet completes are given out when it arrives.
LEMMA CompletedGiven ==
  ASSUME IInv, state = "go", NEW x, PacketSpec(x), NEW dc \in BOOLEAN,
         NEW id \in Completed(x, run /\ ~dc)
  PROVE  /\ id \in 1..Len(x.sent)
         /\ GivenOut(section_packet(Feed, Pkt(x, dc)).out, id, x.sent[id].table)
<1> DEFINE g == section_packet(Feed, Pkt(x, dc))
<1>1. /\ StreamOK /\ ParamsOK /\ Typed(Feed, Len(x.sent))
      /\ Feed.out = out /\ OnlyWhole(Feed.out)
      /\ Accepts(Feed, Pkt(x, dc)) => Typed(Feed, Len(sent)) /\ Synced(Feed, sent, done)
      /\ run /\ ~dc => Accepts(Feed, Pkt(x, dc)) /\ Feed.pusi_seen /\ ~Feed.tainted
  BY FeedHandled
<1>2. /\ Extends(g.out, out)
      /\ x.pusi => \A i \in (Len(sent) + 1)..Len(x.sent) :
                     (i = Len(x.sent) => x.done = Last(x.sent).len)
                     => GivenOut(g.out, i, x.sent[i].table)
      /\ (/\ Accepts(Feed, Pkt(x, dc)) /\ Feed.pusi_seen /\ ~Feed.tainted
          /\ Remaining > 0 /\ InProgress(Feed, sent, done)) =>
           IF x.pusi \/ x.done = Last(sent).len
           THEN GivenOut(g.out, Len(sent), Last(sent).table)
           ELSE InProgress(g, sent, x.done)
  BY <1>1, Handled
<1> HIDE DEF g
<1>3. /\ id \in 1..Len(x.sent)
      /\ id > Len(sent) \/ (id = Len(sent) /\ run /\ ~dc)
      /\ id = Len(x.sent) => x.done = Last(x.sent).len
  BY DEF Completed
<1>4. /\ sent \in Seq(Sections) /\ Len(sent) \in Nat /\ Prefix(sent, x.sent)
      /\ Len(sent) <= Len(x.sent) /\ Len(x.sent) \in Nat /\ x.pusi \in BOOLEAN
  BY <1>1 DEF StreamOK, PacketSpec, Prefix
<1>5. CASE id > Len(sent)
  <2>1. Len(x.sent) > Len(sent) /\ id \in (Len(sent) + 1)..Len(x.sent)
    BY <1>3, <1>4, <1>5
  <2>2. x.pusi
    <3>1. ~x.pusi => x.sent = sent
      BY DEF PacketSpec
    <3>2. x.sent # sent
      BY <2>1, <1>4
    <3> QED
      BY <3>1, <3>2
  <2> QED
    BY <2>1, <2>2, <1>2, <1>3 DEF g
<1>6. CASE id = Len(sent) /\ run /\ ~dc
  <2>a. id = Len(sent) /\ id \in 1..Len(x.sent)
    BY <1>3, <1>6
  <2>0. id \in 1..Len(x.sent) /\ Len(sent) > 0 /\ id \in 1..Len(sent)
    BY <2>a, <1>4
  <2>1. /\ pusi_seen /\ ~tainted /\ sent # <<>>
        /\ IF Remaining = 0 THEN Len(sent) \in whole ELSE InProgress(Feed, sent, done)
    BY <1>6 DEF IInv, GoOK
  <2>2. Remaining \in Nat
    BY <1>1, RemainingIs
  <2>3. x.sent[id] = Last(sent)
    <3>1. x.sent[id] = sent[id]
      BY <2>0, <1>4 DEF Prefix
    <3>2. Last(sent) = sent[Len(sent)]
      BY <2>0, <1>4, LastSection
    <3> QED
      BY <3>1, <3>2, <1>6
  <2>4. CASE Remaining = 0
    <3>1. id \in whole
      BY <2>1, <2>4, <1>6
    <3>2. GivenOut(g.out, id, x.sent[id].table)
      BY <3>1, <1>2, <1>4, WholeStays
    <3> QED
      BY <3>2, <2>0 DEF g
  <2>5. CASE Remaining # 0
    <3>1. Remaining > 0 /\ InProgress(Feed, sent, done)
      BY <2>1, <2>2, <2>5
    <3>2. x.pusi \/ x.done = Last(sent).len
      <4>1. ~x.pusi => x.sent = sent
        BY DEF PacketSpec
      <4> QED
        BY <4>1, <1>3, <1>4, <1>6
    <3>3. GivenOut(g.out, Len(sent), Last(sent).table)
      BY <3>1, <3>2, <1>1, <1>2, <1>6
    <3> QED
      BY <3>3, <2>0, <2>3, <1>6 DEF g
  <2> QED
    BY <2>4, <2>5
<1> QED
  BY <1>3, <1>5, <1>6

\* A packet has come and the handler has left g: what keeps the invariant.
LEMMA Received ==
  ASSUME IInv, state = "go", NEW x, PacketSpec(x),
         Sent(x), missed' = 0, faults' \in 0..MaxFaults, UNCHANGED feed,
         NEW g, Typed(g, Len(x.sent)), g.tainted \/ g.cc = next_cc, OnlyWhole(g.out),
         Synced(g, x.sent, x.done), Take(g),
         whole' \subseteq 1..Len(x.sent), run' \in BOOLEAN, repeats' \in BOOLEAN,
         ~repeats' => InOrder(g),
         run' => /\ g.pusi_seen /\ ~g.tainted
                 /\ IF x.done = Last(x.sent).len THEN Len(x.sent) \in whole'
                    ELSE InProgress(g, x.sent, x.done),
         \A id \in whole' : GivenOut(g.out, id, x.sent[id].table)
  PROVE  IInv'
<1>0. /\ StreamOK /\ FeedOK
      /\ state' = "go" /\ check_crc' = check_crc /\ section_filter' = section_filter
  BY DEF IInv, feed
<1>1. missed' \in 0..(CCs - 1)
  BY SectionAssumption
<1>2. /\ StreamOK' /\ sent' = x.sent /\ done' = x.done /\ sent' # <<>>
      /\ Len(sent') \in Nat /\ Remaining' = Last(sent').len - done'
      /\ Last(sent').len \in Nat /\ done' \in Nat
      /\ next_cc' = IF next_cc + 1 = CCs THEN 0 ELSE next_cc + 1
  BY <1>0, <1>1, SentKeeps
<1>3. Feed' = g /\ out' = g.out /\ pusi_seen' = g.pusi_seen /\ tainted' = g.tainted
      /\ cc' = g.cc /\ secbuf_base' = g.secbuf_base /\ secbufp' = g.secbufp
  <2>1. g \in FeedRec
    BY DEF Typed
  <2>2. g = [pusi_seen |-> g.pusi_seen, cc |-> g.cc, secbuf_base |-> g.secbuf_base,
             secbufp |-> g.secbufp, tainted |-> g.tainted, out |-> g.out]
    BY <2>1 DEF FeedRec
  <2> QED
    BY <2>2 DEF Take, Feed
<1>4. FeedOK'
  <2>1. /\ state' \in {"free", "ready", "go"} /\ check_crc' \in BOOLEAN
        /\ section_filter' \subseteq Filters
    BY <1>0 DEF FeedOK
  <2>2. whole' \subseteq 1..Len(sent') /\ run' \in BOOLEAN /\ repeats' \in BOOLEAN
    BY <1>2
  <2> QED
    BY <2>1, <2>2, <1>0 DEF FeedOK
<1>5. Typed(Feed, Len(sent))'
  <2>1. Typed(Feed', Len(sent'))
    BY <1>2, <1>3
  <2> QED
    BY <2>1 DEF Typed, FeedRec, DMX_MAX_SECFEED_SIZE
<1>6. OnlyWhole(out)'
  <2>1. OnlyWhole(out')
    BY <1>3
  <2> QED
    BY <2>1 DEF OnlyWhole
<1>7. WholeSectionsDelivered'
  <2> SUFFICES ASSUME NEW id \in whole', NEW y \in section_filter', sent'[id].table \in y
               PROVE  \E i \in 1..Len(out') : out'[i].id = id /\ y \in out'[i].to
    BY DEF WholeSectionsDelivered
  <2>1. GivenOut(g.out, id, x.sent[id].table)
    OBVIOUS
  <2> QED
    BY <2>1, <1>0, <1>2, <1>3 DEF GivenOut
<1>8. GoOK'
  <2>1. (missed = 0 => Synced(Feed, sent, done))'
    <3>1. Synced(Feed', sent', done')
      BY <1>2, <1>3
    <3> QED
      BY <3>1
  <2>2. (pusi_seen /\ ~tainted => Aligned(secbuf_base, secbufp, sent) /\ CounterInStep)'
    <3>1. pusi_seen' /\ ~tainted' => Aligned(secbuf_base', secbufp', sent')
      BY <1>2, <1>3 DEF Synced
    <3>2. ASSUME ~tainted' PROVE CounterInStep'
      <4>1. cc' = next_cc /\ next_cc \in 0..(CCs - 1) /\ CCs \in Nat
        BY <3>2, <1>0, <1>3, SectionAssumption DEF StreamOK
      <4> QED
        BY <4>1, <1>2 DEF CounterInStep
    <3> QED
      BY <3>1, <3>2
  <2>3. (~repeats => InOrder(Feed))'
    <3>1. ~repeats' => InOrder(Feed')
      BY <1>3
    <3> QED
      BY <3>1
  <2>4. ASSUME run'
        PROVE  (/\ pusi_seen /\ ~tainted /\ missed = 0 /\ sent # <<>>
                /\ IF Remaining = 0 THEN Len(sent) \in whole ELSE InProgress(Feed, sent, done))'
    <3>1. pusi_seen' /\ ~tainted' /\ missed' = 0 /\ sent' # <<>>
      BY <2>4, <1>2, <1>3
    <3>2. Remaining' = 0 <=> done' = Last(sent').len
      BY <1>2
    <3>3. IF done' = Last(sent').len THEN Len(sent') \in whole'
          ELSE InProgress(Feed', sent', done')
      BY <2>4, <1>2, <1>3
    <3> QED
      BY <3>1, <3>2, <3>3
  <2> QED
    BY <2>1, <2>2, <2>3, <2>4 DEF GoOK
<1> QED
  BY <1>2, <1>4, <1>5, <1>6, <1>7, <1>8 DEF IInv

\* What a damaged packet may look like.
LEMMA DamagedIs ==
  ASSUME NEW n \in Nat, NEW p \in DamagedPackets, next_cc \in 0..(CCs - 1), cc \in 0..(CCs - 1)
  PROVE  PacketOK(p, n) /\ p.damaged /\ \A i \in 1..Len(p.bytes) : p.bytes[i].id = 0
<1> DEFINE Y == {TRUE} \X (0..FullPayload) \X {FullPayload - 1}
<1>1. PICK x \in DamagedShapes, m \in {next_cc, cc}, l \in Damaged : p = DamagedPacket(x, m, l)
  BY DEF DamagedPackets
<1>2. FullPayload \in Nat /\ FullPayload > 0 /\ FullPayload - 1 \in Nat
  BY Sizes
<1>3. x[1] \in BOOLEAN /\ x[2] \in Nat /\ x[3] \in Nat /\ (x[1] => x[3] = FullPayload - 1)
  <2>1. CASE x = <<FALSE, 0, FullPayload>>
    BY <2>1, <1>2
  <2>2. CASE x \in Y
    <3>1. x[1] = TRUE /\ x[2] \in 0..FullPayload /\ x[3] = FullPayload - 1
      BY <2>2
    <3>2. x[1] \in BOOLEAN
      BY <3>1
    <3>3. x[2] \in Nat /\ x[3] \in Nat /\ x[3] = FullPayload - 1
      BY <3>1, <1>2
    <3> QED
      BY <3>2, <3>3
  <2> QED
    BY <1>1, <2>1, <2>2 DEF DamagedShapes
<1> DEFINE b == [j \in 1..x[3] |-> DamagedByte(l)]
<1>4. DamagedByte(l) \in Bytes /\ DamagedByte(l).id = 0
  BY OtherBytes
<1>5. b \in Seq(Bytes) /\ Len(b) = x[3] /\ \A i \in 1..Len(b) : b[i].id = 0
  <2>1. b \in [1..x[3] -> Bytes]
    BY <1>4
  <2>2. b \in Seq(Bytes) /\ Len(b) = x[3]
    BY <2>1, <1>3, SeqDef
  <2>3. \A i \in 1..x[3] : b[i].id = 0
    BY <1>4
  <2> QED
    BY <2>2, <2>3
<1>6. /\ p.count = FullPayload /\ p.pusi = x[1] /\ p.pointer = x[2] /\ p.cc = m
      /\ p.dc = FALSE /\ p.damaged = TRUE /\ p.bytes = b
  BY <1>1 DEF DamagedPacket
<1> HIDE DEF b
<1>7. p.cc \in 0..(CCs - 1)
  BY <1>1, <1>6
<1>8. /\ p.bytes \in Seq(Bytes) /\ \A i \in 1..Len(p.bytes) : p.bytes[i].id = 0
  BY <1>5, <1>6
<1>9. \A i \in 1..Len(p.bytes) : p.bytes[i].id <= n
  BY <1>8
<1>10. /\ p.count \in Nat /\ p.pointer \in Nat /\ p.pusi \in BOOLEAN
       /\ p.damaged \in BOOLEAN /\ p.dc \in BOOLEAN
       /\ p.pusi => Len(p.bytes) = p.count - 1
  BY <1>2, <1>3, <1>5, <1>6
<1> QED
  BY <1>6, <1>7, <1>8, <1>9, <1>10 DEF PacketOK

-----------------------------------------------------------------------------
(***************************************************************************)
(* Every step keeps the invariant.                                         *)
(***************************************************************************)
\* Faults stay within their bound.
LEMMA FaultIs ==
  ASSUME StreamOK, Fault \/ UNCHANGED faults
  PROVE  faults' \in 0..MaxFaults
BY SectionAssumption DEF StreamOK, Fault

\* neumo_dvb_dmx_swfilter_packet on a packet as it was sent.
LEMMA ArriveKeeps ==
  ASSUME IInv, NEW x \in NextPackets, NEW dc \in BOOLEAN, Arrive(x, dc)
  PROVE  IInv'
<1> DEFINE p == Pkt(x, dc)
           g == section_packet(Feed, p)
<1>0. StreamOK /\ run \in BOOLEAN /\ repeats \in BOOLEAN /\ whole \subseteq 1..Len(sent)
  BY DEF IInv, FeedOK
<1>1. PacketSpec(x)
  BY <1>0, NextPacketsOK
<1>2. /\ state = "go" /\ Sent(x) /\ missed' = 0 /\ Take(g)
      /\ whole' = whole \cup Completed(x, run /\ ~dc)
      /\ run' = (x.pusi \/ (run /\ ~dc))
      /\ UNCHANGED feed /\ repeats' = repeats
  BY DEF Arrive
<1>3. faults' \in 0..MaxFaults
  <2>1. Fault \/ UNCHANGED faults
    BY DEF Arrive
  <2> QED
    BY <2>1, <1>0, FaultIs
<1>4. /\ ParamsOK /\ Typed(Feed, Len(sent)) /\ Typed(Feed, Len(x.sent))
      /\ Feed.out = out /\ OnlyWhole(Feed.out)
      /\ Accepts(Feed, p) => Typed(Feed, Len(sent)) /\ Synced(Feed, sent, done)
      /\ run /\ ~dc => Accepts(Feed, p) /\ Feed.pusi_seen /\ ~Feed.tainted
      /\ ~repeats => InOrder(Feed)
  BY <1>1, <1>2, FeedHandled
<1>5. /\ Typed(g, Len(x.sent)) /\ g.cc = next_cc /\ Extends(g.out, Feed.out)
      /\ OnlyWhole(g.out) /\ Synced(g, x.sent, x.done)
      /\ InOrder(Feed) /\ Typed(Feed, Len(sent)) => InOrder(g)
      /\ x.pusi =>
           /\ g.pusi_seen /\ ~g.tainted
           /\ x.done # Last(x.sent).len => InProgress(g, x.sent, x.done)
      /\ (/\ Accepts(Feed, p) /\ Feed.pusi_seen /\ ~Feed.tainted
          /\ Remaining > 0 /\ InProgress(Feed, sent, done)) =>
           IF x.pusi \/ x.done = Last(sent).len
           THEN GivenOut(g.out, Len(sent), Last(sent).table)
           ELSE InProgress(g, sent, x.done)
      /\ Accepts(Feed, p) /\ Feed.pusi_seen /\ ~Feed.tainted => g.pusi_seen /\ ~g.tainted
  BY <1>0, <1>1, <1>4, Handled
<1>6. \A id \in Completed(x, run /\ ~dc) :
        id \in 1..Len(x.sent) /\ GivenOut(g.out, id, x.sent[id].table)
  BY <1>1, <1>2, CompletedGiven
<1> HIDE DEF g, p
<1>7. /\ Prefix(sent, x.sent) /\ Len(sent) \in Nat /\ Len(x.sent) \in Nat
      /\ Len(sent) <= Len(x.sent) /\ Len(x.sent) > 0 /\ x.pusi \in BOOLEAN
  BY <1>0, <1>1 DEF StreamOK, PacketSpec, Prefix
<1>8. \A id \in whole' : id \in 1..Len(x.sent) /\ GivenOut(g.out, id, x.sent[id].table)
  <2> TAKE id \in whole'
  <2>1. CASE id \in whole
    <3>1. GivenOut(g.out, id, x.sent[id].table)
      BY <2>1, <1>2, <1>4, <1>5, <1>7, WholeStays
    <3>2. id \in 1..Len(sent)
      BY <2>1, <1>0
    <3> QED
      BY <3>1, <3>2, <1>7
  <2>2. CASE id \in Completed(x, run /\ ~dc)
    BY <2>2, <1>6
  <2> QED
    BY <2>1, <2>2, <1>2
<1>9. ~repeats' => InOrder(g)
  BY <1>2, <1>4, <1>5
<1>10. ASSUME run'
       PROVE  /\ g.pusi_seen /\ ~g.tainted
              /\ IF x.done = Last(x.sent).len THEN Len(x.sent) \in whole'
                 ELSE InProgress(g, x.sent, x.done)
  <2>1. CASE x.pusi
    <3>1. g.pusi_seen /\ ~g.tainted
      BY <2>1, <1>5
    <3>2. CASE x.done = Last(x.sent).len
      <4>1. Len(sent) < Len(x.sent)
        BY <2>1, <1>1 DEF PacketSpec, Begins
      <4>2. Len(x.sent) \in Completed(x, run /\ ~dc)
        BY <4>1, <3>2, <1>7 DEF Completed
      <4> QED
        BY <4>2, <3>1, <3>2, <1>2
    <3>3. CASE x.done # Last(x.sent).len
      BY <2>1, <3>1, <3>3, <1>5
    <3> QED
      BY <3>2, <3>3
  <2>2. CASE ~x.pusi
    <3>1. run /\ ~dc
      BY <2>2, <1>2, <1>10
    <3>2. x.sent = sent /\ Continues(x.bytes, sent, done, x.done)
      BY <2>2, <1>1 DEF PacketSpec
    <3>3. Accepts(Feed, p) /\ Feed.pusi_seen /\ ~Feed.tainted
      BY <3>1, <1>4
    <3>4. Remaining > 0 /\ InProgress(Feed, sent, done)
      <4>1. done \in 1..(Last(sent).len - 1) /\ Len(sent) > 0
        BY <3>2 DEF Continues
      <4>2. Last(sent).len \in Nat /\ sent # <<>>
        BY <4>1, <1>0, LastSection DEF StreamOK
      <4>3. Remaining = Last(sent).len - done
        BY <4>2, <1>0, RemainingIs
      <4>4. Remaining > 0
        BY <4>1, <4>2, <4>3
      <4>5. IF Remaining = 0 THEN Len(sent) \in whole ELSE InProgress(Feed, sent, done)
        BY <3>1, <1>2 DEF IInv, GoOK
      <4> QED
        BY <4>4, <4>5
    <3>5. CASE x.done = Last(x.sent).len
      <4>1. Len(x.sent) \in Completed(x, run /\ ~dc)
        BY <3>1, <3>2, <3>5, <1>7 DEF Completed
      <4> QED
        BY <4>1, <3>3, <3>5, <1>2, <1>5
    <3>6. CASE x.done # Last(x.sent).len
      BY <2>2, <3>2, <3>3, <3>4, <3>6, <1>5
    <3> QED
      BY <3>5, <3>6
  <2> QED
    BY <2>1, <2>2, <1>7
<1>11. run' \in BOOLEAN /\ repeats' \in BOOLEAN
  BY <1>0, <1>2, <1>7
<1>12. whole' \subseteq 1..Len(x.sent)
  BY <1>8
<1> QED
  BY <1>1, <1>2, <1>3, <1>5, <1>8, <1>9, <1>10, <1>11, <1>12, Received

\* The second copy of a packet is not accepted: the handler starts afresh.
LEMMA ArriveTwiceKeeps ==
  ASSUME IInv, NEW x \in NextPackets, ArriveTwice(x)
  PROVE  IInv'
<1> DEFINE p == Pkt(x, FALSE)
           g == section_packet(Feed, p)
           h == section_packet(g, p)
<1>0. StreamOK /\ run \in BOOLEAN /\ whole \subseteq 1..Len(sent)
  BY DEF IInv, FeedOK
<1>1. PacketSpec(x)
  BY <1>0, NextPacketsOK
<1>2. /\ state = "go" /\ Sent(x) /\ missed' = 0 /\ Fault /\ Take(h)
      /\ whole' = whole \cup Completed(x, run) /\ run' = x.pusi
      /\ UNCHANGED feed /\ repeats' = TRUE
  BY DEF ArriveTwice
<1>3. faults' \in 0..MaxFaults
  BY <1>0, <1>2, FaultIs
<1>4. /\ ParamsOK /\ Typed(Feed, Len(x.sent)) /\ Feed.out = out /\ OnlyWhole(Feed.out)
      /\ Accepts(Feed, p) => Typed(Feed, Len(sent)) /\ Synced(Feed, sent, done)
  BY <1>1, <1>2, FeedHandled
<1>5. /\ Typed(g, Len(x.sent)) /\ g.cc = next_cc /\ Extends(g.out, Feed.out)
      /\ OnlyWhole(g.out)
  BY <1>0, <1>1, <1>4, Handled
<1>6. ~Accepts(g, p)
  <2>1. p.cc = next_cc /\ next_cc \in 0..(CCs - 1)
    BY <1>0 DEF Pkt, StreamOK
  <2> HIDE DEF g, p
  <2> QED
    BY <2>1, <1>5, NotTwice
<1>7. /\ Typed(h, Len(x.sent)) /\ h.cc = next_cc /\ Extends(h.out, g.out)
      /\ OnlyWhole(h.out) /\ Synced(h, x.sent, x.done)
      /\ x.pusi =>
           /\ h.pusi_seen /\ ~h.tainted
           /\ x.done # Last(x.sent).len => InProgress(h, x.sent, x.done)
  <2> HIDE DEF g
  <2> QED
    BY <1>0, <1>1, <1>4, <1>5, <1>6, Handled
<1>8. \A id \in Completed(x, run) :
        id \in 1..Len(x.sent) /\ GivenOut(g.out, id, x.sent[id].table)
  <2>1. Completed(x, run) = Completed(x, run /\ ~FALSE)
    BY DEF Completed
  <2> QED
    BY <2>1, <1>1, <1>2, CompletedGiven
<1> HIDE DEF g, h, p
<1>9. /\ Prefix(sent, x.sent) /\ Len(sent) \in Nat /\ Len(x.sent) \in Nat
      /\ Len(sent) <= Len(x.sent) /\ Len(x.sent) > 0 /\ x.pusi \in BOOLEAN
  BY <1>0, <1>1 DEF StreamOK, PacketSpec, Prefix
<1>10. \A id \in whole' : id \in 1..Len(x.sent) /\ GivenOut(h.out, id, x.sent[id].table)
  <2> TAKE id \in whole'
  <2>1. CASE id \in whole
    <3>1. GivenOut(g.out, id, x.sent[id].table)
      BY <2>1, <1>2, <1>4, <1>5, <1>9, WholeStays
    <3>2. id \in 1..Len(sent)
      BY <2>1, <1>0
    <3> QED
      BY <3>1, <3>2, <1>7, <1>9, GivenStays
  <2>2. CASE id \in Completed(x, run)
    BY <2>2, <1>7, <1>8, GivenStays
  <2> QED
    BY <2>1, <2>2, <1>2
<1>11. ASSUME run'
       PROVE  /\ h.pusi_seen /\ ~h.tainted
              /\ IF x.done = Last(x.sent).len THEN Len(x.sent) \in whole'
                 ELSE InProgress(h, x.sent, x.done)
  <2>1. x.pusi
    BY <1>2, <1>11
  <2>2. CASE x.done = Last(x.sent).len
    <3>1. Len(sent) < Len(x.sent)
      BY <2>1, <1>1 DEF PacketSpec, Begins
    <3>2. Len(x.sent) \in Completed(x, run)
      BY <3>1, <2>2, <1>9 DEF Completed
    <3> QED
      BY <3>2, <2>1, <2>2, <1>2, <1>7
  <2>3. CASE x.done # Last(x.sent).len
    BY <2>1, <2>3, <1>7
  <2> QED
    BY <2>2, <2>3
<1>12. /\ run' \in BOOLEAN /\ repeats' \in BOOLEAN /\ (~repeats' => InOrder(h))
  BY <1>2, <1>9
<1>13. whole' \subseteq 1..Len(x.sent)
  BY <1>10
<1> QED
  BY <1>1, <1>2, <1>3, <1>7, <1>10, <1>11, <1>12, <1>13, Received

\* A damaged packet leaves the feed tainted.
LEMMA ArriveDamagedKeeps ==
  ASSUME IInv, NEW x \in NextPackets, NEW p \in DamagedPackets, ArriveDamaged(x, p)
  PROVE  IInv'
<1> DEFINE g == section_packet(Feed, p)
<1>0. StreamOK /\ repeats \in BOOLEAN /\ whole \subseteq 1..Len(sent)
  BY DEF IInv, FeedOK
<1>1. PacketSpec(x)
  BY <1>0, NextPacketsOK
<1>2. /\ state = "go" /\ Sent(x) /\ missed' = 0 /\ Fault /\ Take(g)
      /\ whole' = whole /\ run' = FALSE /\ UNCHANGED feed /\ repeats' = repeats
  BY DEF ArriveDamaged
<1>3. faults' \in 0..MaxFaults
  BY <1>0, <1>2, FaultIs
<1>4. /\ ParamsOK /\ Typed(Feed, Len(x.sent)) /\ Feed.out = out /\ OnlyWhole(Feed.out)
      /\ ~repeats => InOrder(Feed)
  BY <1>1, <1>2, FeedHandled
<1>5. /\ Prefix(sent, x.sent) /\ Len(sent) \in Nat /\ Len(x.sent) \in Nat
      /\ Len(sent) <= Len(x.sent)
  BY <1>0, <1>1 DEF StreamOK, PacketSpec, Prefix
<1>6. next_cc \in 0..(CCs - 1) /\ cc \in 0..(CCs - 1)
  <2>1. Feed \in FeedRec /\ Feed.cc = cc
    BY <1>4 DEF Typed, Feed
  <2> QED
    BY <2>1, <1>0 DEF FeedRec, StreamOK
<1>7. PacketOK(p, Len(x.sent)) /\ p.damaged /\ \A i \in 1..Len(p.bytes) : p.bytes[i].id = 0
  BY <1>5, <1>6, DamagedIs
<1>8. Typed(g, Len(x.sent)) /\ Extends(g.out, Feed.out)
  BY <1>4, <1>5, <1>7, HandleTyped
<1>9. g.tainted /\ OnlyWhole(g.out) /\ (InOrder(Feed) => InOrder(g))
  BY <1>4, <1>5, <1>7, HandleDamaged
<1> HIDE DEF g
<1>10. \A id \in whole' : id \in 1..Len(x.sent) /\ GivenOut(g.out, id, x.sent[id].table)
  <2> TAKE id \in whole'
  <2>1. GivenOut(g.out, id, x.sent[id].table)
    BY <1>2, <1>4, <1>5, <1>8, WholeStays
  <2>2. id \in 1..Len(sent)
    BY <1>0, <1>2
  <2> QED
    BY <2>1, <2>2, <1>5
<1>11. Synced(g, x.sent, x.done)
  BY <1>9 DEF Synced
<1>12. /\ run' \in BOOLEAN /\ ~run' /\ repeats' \in BOOLEAN /\ (~repeats' => InOrder(g))
  BY <1>0, <1>2, <1>4, <1>9
<1>13. whole' \subseteq 1..Len(x.sent)
  BY <1>10
<1> QED
  BY <1>1, <1>2, <1>3, <1>8, <1>9, <1>10, <1>11, <1>12, <1>13, Received

\* A lost packet leaves the buffer aligned; the counter shows the gap.
LEMMA LoseKeeps ==
  ASSUME IInv, NEW x \in NextPackets, Lose(x)
  PROVE  IInv'
<1>0. StreamOK /\ FeedOK /\ Typed(Feed, Len(sent)) /\ OnlyWhole(out) /\ GoOK
      /\ WholeSectionsDelivered
  BY DEF IInv
<1>1. PacketSpec(x)
  BY <1>0, NextPacketsOK
<1>2. /\ missed < CCs - 1 /\ Sent(x) /\ missed' = missed + 1 /\ Fault /\ run' = FALSE
      /\ state' = state /\ check_crc' = check_crc /\ section_filter' = section_filter
      /\ pusi_seen' = pusi_seen /\ cc' = cc /\ secbuf_base' = secbuf_base /\ secbufp' = secbufp
      /\ out' = out /\ whole' = whole /\ tainted' = tainted /\ repeats' = repeats
  BY DEF Lose, feed, asm
<1>3. missed' \in 0..(CCs - 1) /\ missed' # 0 /\ missed \in 0..(CCs - 1) /\ CCs \in Nat
      /\ next_cc \in 0..(CCs - 1)
  BY <1>0, <1>2, SectionAssumption DEF StreamOK
<1>4. faults' \in 0..MaxFaults
  BY <1>0, <1>2, FaultIs
<1>5. /\ StreamOK' /\ sent' = x.sent /\ Prefix(sent, sent')
      /\ Len(sent) \in Nat /\ Len(sent') \in Nat /\ Len(sent) <= Len(sent')
      /\ next_cc' = IF next_cc + 1 = CCs THEN 0 ELSE next_cc + 1
  BY <1>0, <1>1, <1>2, <1>3, <1>4, SentKeeps
<1>6. Feed' = Feed
  BY <1>2 DEF Feed
<1>7. FeedOK'
  <2>1. whole' \subseteq 1..Len(sent')
    BY <1>0, <1>2, <1>5 DEF FeedOK
  <2> QED
    BY <2>1, <1>0, <1>2 DEF FeedOK
<1>8. Typed(Feed', Len(sent'))
  BY <1>0, <1>5, <1>6, TypedMore
<1>9. WholeSectionsDelivered'
  <2> SUFFICES ASSUME state = "go", NEW id \in whole, NEW y \in section_filter,
                      sent'[id].table \in y
               PROVE  \E i \in 1..Len(out) : out[i].id = id /\ y \in out[i].to
    BY <1>2 DEF WholeSectionsDelivered
  <2>1. sent'[id] = sent[id]
    BY <1>0, <1>5 DEF FeedOK, Prefix
  <2> QED
    BY <2>1, <1>0 DEF WholeSectionsDelivered
<1>10. GoOK'
  <2> SUFFICES ASSUME state = "go" PROVE GoOK'
    BY <1>2 DEF GoOK
  <2>1. (missed = 0 => Synced(Feed, sent, done))'
    BY <1>3
  <2>2. (pusi_seen /\ ~tainted => Aligned(secbuf_base, secbufp, sent) /\ CounterInStep)'
    <3> SUFFICES ASSUME pusi_seen, ~tainted
                 PROVE  Aligned(secbuf_base', secbufp', sent') /\ CounterInStep'
      BY <1>2
    <3>1. Aligned(secbuf_base, secbufp, sent) /\ CounterInStep
      BY <1>0 DEF GoOK
    <3>2. sent \in Seq(Sections) /\ sent' \in Seq(Sections)
      BY <1>0, <1>5 DEF StreamOK
    <3>3. Aligned(secbuf_base', secbufp', sent')
      BY <3>1, <3>2, <1>2, <1>5, AlignedMore
    <3>4. cc \in 0..(CCs - 1)
      <4>1. Feed \in FeedRec /\ Feed.cc = cc
        BY <1>0 DEF Typed, Feed
      <4> QED
        BY <4>1 DEF FeedRec
    <3>5. CounterInStep'
      BY <3>1, <3>4, <1>2, <1>3, <1>5 DEF CounterInStep
    <3> QED
      BY <3>3, <3>5
  <2>3. (~repeats => InOrder(Feed))'
    BY <1>0, <1>2, <1>6 DEF GoOK
  <2>4. ~run'
    BY <1>2
  <2> QED
    BY <2>1, <2>2, <2>3, <2>4 DEF GoOK
<1>11. OnlyWhole(out')
  BY <1>0, <1>2
<1> QED
  BY <1>5, <1>7, <1>8, <1>9, <1>10, <1>11 DEF IInv

\* The feed after a step that leaves its buffer alone, goes back to its start or
\* empties it.
LEMMA FeedTyped ==
  ASSUME NEW n \in Nat, Typed(Feed, n), pusi_seen' \in BOOLEAN, tainted' \in BOOLEAN,
         cc' = cc,
         \/ secbuf_base' = <<>> /\ secbufp' = 0
         \/ secbuf_base' = secbuf_base /\ (secbufp' = secbufp \/ secbufp' = 0),
         out' = out \/ out' = <<>>
  PROVE  Typed(Feed', n)
<1>1. /\ Feed.out = out /\ Feed.cc = cc /\ Feed.secbuf_base = secbuf_base
      /\ Feed.secbufp = secbufp
  BY DEF Feed
<1>2. Feed \in FeedRec
  BY DEF Typed
<1>3. cc \in 0..(CCs - 1) /\ secbuf_base \in Seq(Bytes) /\ secbufp \in Nat /\ out \in Seq(Given)
  <2>1. Feed.cc \in 0..(CCs - 1) /\ Feed.secbuf_base \in Seq(Bytes) /\ Feed.secbufp \in Nat
        /\ Feed.out \in Seq(Given)
    BY <1>2 DEF FeedRec
  <2> QED
    BY <1>1, <2>1
<1>4. /\ Len(secbuf_base) <= DMX_MAX_SECFEED_SIZE /\ secbufp <= Len(secbuf_base)
      /\ \A i \in 1..Len(secbuf_base) : secbuf_base[i].id <= n
      /\ \A i \in 1..Len(out) : out[i].id <= n
  BY <1>1 DEF Typed
<1>5. Len(secbuf_base) \in Nat /\ DMX_MAX_SECFEED_SIZE \in Nat
  BY <1>3, Sizes
<1>6. secbuf_base' \in Seq(Bytes) /\ secbufp' \in Nat /\ out' \in Seq(Given)
  <2>1. secbuf_base' = <<>> => secbuf_base' \in Seq(Bytes)
    BY EmptySeq
  <2>2. out' = <<>> => out' \in Seq(Given)
    BY EmptySeq
  <2>3. secbufp' \in Nat
    BY <1>3
  <2> QED
    BY <2>1, <2>2, <2>3, <1>3
<1>7. /\ Len(secbuf_base') <= DMX_MAX_SECFEED_SIZE /\ secbufp' <= Len(secbuf_base')
      /\ \A i \in 1..Len(secbuf_base') : secbuf_base'[i].id <= n
  <2>1. CASE secbuf_base' = <<>> /\ secbufp' = 0
    BY <2>1, <1>5, EmptySeq
  <2>2. CASE secbuf_base' = secbuf_base /\ (secbufp' = secbufp \/ secbufp' = 0)
    BY <2>2, <1>4, <1>5
  <2> QED
    BY <2>1, <2>2
<1>8. \A i \in 1..Len(out') : out'[i].id <= n
  BY <1>4, EmptySeq
<1>9. /\ Feed'.out = out' /\ Feed'.cc = cc' /\ Feed'.secbuf_base = secbuf_base'
      /\ Feed'.secbufp = secbufp'
  BY DEF Feed
<1>10. Feed' \in FeedRec
  BY <1>3, <1>6 DEF Feed, FeedRec
<1> QED
  BY <1>7, <1>8, <1>9, <1>10 DEF Typed

\* A packet without payload goes back to the start of the buffer, which is aligned.
LEMMA ArriveEmptyKeeps ==
  ASSUME IInv, ArriveEmpty
  PROVE  IInv'
<1>0. StreamOK /\ FeedOK /\ Typed(Feed, Len(sent)) /\ OnlyWhole(out) /\ GoOK
      /\ WholeSectionsDelivered
  BY DEF IInv
<1>1. /\ state = "go" /\ Fault /\ secbufp' = 0 /\ repeats' = TRUE
      /\ state' = state /\ check_crc' = check_crc /\ section_filter' = section_filter
      /\ pusi_seen' = pusi_seen /\ cc' = cc /\ secbuf_base' = secbuf_base
      /\ sent' = sent /\ done' = done /\ next_cc' = next_cc /\ missed' = missed
      /\ out' = out /\ whole' = whole /\ run' = run /\ tainted' = tainted
  BY DEF ArriveEmpty, feed
<1>2. /\ Feed.secbuf_base = secbuf_base /\ Feed.secbufp = secbufp
      /\ Feed.pusi_seen = pusi_seen /\ Feed.tainted = tainted
      /\ Feed'.secbuf_base = secbuf_base /\ Feed'.secbufp = 0
      /\ Feed'.pusi_seen = pusi_seen /\ Feed'.tainted = tainted
  BY <1>1 DEF Feed
<1>3. pusi_seen \in BOOLEAN /\ tainted \in BOOLEAN /\ secbufp \in Nat /\ secbuf_base \in Seq(Bytes)
  <2>1. Feed \in FeedRec
    BY <1>0 DEF Typed
  <2>2. Feed.pusi_seen \in BOOLEAN /\ Feed.tainted \in BOOLEAN /\ Feed.secbufp \in Nat
        /\ Feed.secbuf_base \in Seq(Bytes)
    BY <2>1 DEF FeedRec
  <2> QED
    BY <2>2, <1>2
<1>4. StreamOK'
  <2>1. faults' \in 0..MaxFaults
    BY <1>0, <1>1, FaultIs
  <2> QED
    BY <2>1, <1>0, <1>1 DEF StreamOK
<1>5. FeedOK'
  BY <1>0, <1>1 DEF FeedOK
<1>6. Typed(Feed', Len(sent'))
  <2>1. Len(sent) \in Nat
    BY <1>0 DEF StreamOK
  <2>2. Typed(Feed', Len(sent))
    BY <2>1, <1>0, <1>1, <1>3, FeedTyped
  <2> QED
    BY <2>2, <1>1
<1>7. WholeSectionsDelivered'
  BY <1>0, <1>1 DEF WholeSectionsDelivered
<1>8. GoOK'
  <2>1. (missed = 0 => Synced(Feed, sent, done))'
    <3> SUFFICES ASSUME missed = 0 PROVE Synced(Feed', sent, done)
      BY <1>1
    <3>1. Synced(Feed, sent, done)
      BY <1>0, <1>1 DEF GoOK
    <3> QED
      BY <3>1, <1>2 DEF Synced, Aligned
  <2>2. (pusi_seen /\ ~tainted => Aligned(secbuf_base, secbufp, sent) /\ CounterInStep)'
    <3> SUFFICES ASSUME pusi_seen, ~tainted
                 PROVE  Aligned(secbuf_base', secbufp', sent') /\ CounterInStep'
      BY <1>1
    <3>1. Aligned(secbuf_base, secbufp, sent) /\ CounterInStep
      BY <1>0, <1>1 DEF GoOK
    <3>2. Aligned(secbuf_base', secbufp', sent')
      BY <3>1, <1>1 DEF Aligned
    <3>3. CounterInStep'
      BY <3>1, <1>1 DEF CounterInStep
    <3> QED
      BY <3>2, <3>3
  <2>3. ASSUME run
        PROVE  (/\ pusi_seen /\ ~tainted /\ missed = 0 /\ sent # <<>>
                /\ IF Remaining = 0 THEN Len(sent) \in whole ELSE InProgress(Feed, sent, done))'
    <3>1. /\ pusi_seen /\ ~tainted /\ missed = 0 /\ sent # <<>>
          /\ IF Remaining = 0 THEN Len(sent) \in whole ELSE InProgress(Feed, sent, done)
      BY <2>3, <1>0, <1>1 DEF GoOK
    <3>2. Remaining' = Remaining
      BY <1>1 DEF Remaining
    <3>3. ASSUME InProgress(Feed, sent, done) PROVE InProgress(Feed', sent, done)
      <4>1. done <= Len(secbuf_base)
        BY <3>3, <1>2 DEF InProgress
      <4>2. done \in Nat /\ Len(secbuf_base) \in Nat
        BY <1>0, <1>3 DEF StreamOK
      <4>3. 0 <= Len(secbuf_base) - done
        BY <4>1, <4>2
      <4> QED
        BY <3>3, <4>3, <1>2 DEF InProgress
    <3>4. IF Remaining' = 0 THEN Len(sent) \in whole ELSE InProgress(Feed', sent, done)
      BY <3>1, <3>2, <3>3
    <3> QED
      BY <3>1, <3>4, <1>1
  <2> QED
    BY <2>1, <2>2, <2>3, <1>1 DEF GoOK
<1>9. OnlyWhole(out')
  BY <1>0, <1>1
<1> QED
  BY <1>4, <1>5, <1>6, <1>7, <1>8, <1>9 DEF IInv

\* A feed that does not filter records nothing.
LEMMA NotFiltering ==
  ASSUME StreamOK', state' \in {"free", "ready"}, check_crc' \in BOOLEAN,
         section_filter' \subseteq Filters, out' = <<>>, whole' = {}, run' = FALSE,
         tainted' = FALSE, repeats' = FALSE, Typed(Feed', Len(sent'))
  PROVE  IInv'
<1>1. state' # "go"
  OBVIOUS
<1>2. FeedOK'
  BY DEF FeedOK
<1>3. OnlyWhole(out')
  <2>1. Len(out') = 0
    BY EmptySeq
  <2> QED
    BY <2>1 DEF OnlyWhole
<1>4. GoOK' /\ WholeSectionsDelivered'
  BY <1>1 DEF GoOK, WholeSectionsDelivered
<1> QED
  BY <1>2, <1>3, <1>4 DEF IInv

\* The stream goes on while the feed does not filter.
LEMMA IgnoreKeeps ==
  ASSUME IInv, NEW x \in NextPackets, Ignore(x)
  PROVE  IInv'
<1>0. StreamOK /\ FeedOK /\ Typed(Feed, Len(sent))
  BY DEF IInv
<1>1. PacketSpec(x)
  BY <1>0, NextPacketsOK
<1>2. /\ state # "go" /\ Sent(x) /\ missed' = 0 /\ faults' = faults
      /\ state' = state /\ check_crc' = check_crc /\ section_filter' = section_filter
      /\ pusi_seen' = pusi_seen /\ cc' = cc /\ secbuf_base' = secbuf_base /\ secbufp' = secbufp
      /\ out' = out /\ whole' = whole /\ run' = run /\ tainted' = tainted /\ repeats' = repeats
  BY DEF Ignore, feed, asm, seen
<1>3. missed' \in 0..(CCs - 1) /\ faults' \in 0..MaxFaults
  BY <1>0, <1>2, SectionAssumption DEF StreamOK
<1>4. StreamOK' /\ Len(sent) \in Nat /\ Len(sent') \in Nat /\ Len(sent) <= Len(sent')
  BY <1>0, <1>1, <1>2, <1>3, SentKeeps
<1>5. Feed' = Feed
  BY <1>2 DEF Feed
<1>6. Typed(Feed', Len(sent'))
  BY <1>0, <1>4, <1>5, TypedMore
<1>7. out = <<>> /\ whole = {} /\ ~run /\ ~repeats /\ ~tainted
      /\ run \in BOOLEAN /\ repeats \in BOOLEAN
      /\ state \in {"free", "ready"} /\ check_crc \in BOOLEAN /\ section_filter \subseteq Filters
  BY <1>0, <1>2 DEF FeedOK
<1>8. Feed.tainted = tainted /\ Feed \in FeedRec
  BY <1>0 DEF Feed, Typed
<1>9. tainted \in BOOLEAN
  BY <1>8 DEF FeedRec
<1>10. run' = FALSE /\ repeats' = FALSE /\ tainted' = FALSE
  BY <1>2, <1>7, <1>9
<1> QED
  BY <1>2, <1>4, <1>6, <1>7, <1>10, NotFiltering

\* The types of the handler's Boolean variables.
LEMMA FeedBooleans ==
  ASSUME IInv
  PROVE  /\ pusi_seen \in BOOLEAN /\ tainted \in BOOLEAN /\ Len(sent) \in Nat
         /\ Typed(Feed, Len(sent)) /\ StreamOK /\ check_crc \in BOOLEAN
         /\ section_filter \subseteq Filters
         /\ state # "go" => /\ out = <<>> /\ whole = {} /\ run = FALSE /\ repeats = FALSE
                            /\ tainted = FALSE
<1>1. StreamOK /\ FeedOK /\ Typed(Feed, Len(sent))
  BY DEF IInv
<1>2. Feed.pusi_seen = pusi_seen /\ Feed.tainted = tainted /\ Feed \in FeedRec
  BY <1>1 DEF Feed, Typed
<1>3. pusi_seen \in BOOLEAN /\ tainted \in BOOLEAN
  BY <1>2 DEF FeedRec
<1>4. Len(sent) \in Nat
  BY <1>1 DEF StreamOK
<1>5. ASSUME state # "go"
      PROVE  out = <<>> /\ whole = {} /\ run = FALSE /\ repeats = FALSE /\ tainted = FALSE
  BY <1>1, <1>3, <1>5 DEF FeedOK
<1> QED
  BY <1>1, <1>3, <1>4, <1>5 DEF FeedOK

\* dvbdmx_allocate_section_feed.
LEMMA AllocateKeeps ==
  ASSUME IInv, NEW crc \in BOOLEAN, allocate_section_feed(crc)
  PROVE  IInv'
<1>1. /\ state = "free" /\ state' = "ready" /\ check_crc' = crc /\ section_filter' = {}
      /\ secbuf_base' = <<>> /\ secbufp' = 0 /\ pusi_seen' = pusi_seen /\ cc' = cc
      /\ sent' = sent /\ done' = done /\ next_cc' = next_cc /\ missed' = missed
      /\ faults' = faults
      /\ out' = out /\ whole' = whole /\ run' = run /\ tainted' = tainted /\ repeats' = repeats
  BY DEF allocate_section_feed, stream, seen
<1>2. /\ pusi_seen \in BOOLEAN /\ tainted \in BOOLEAN /\ Len(sent) \in Nat
      /\ Typed(Feed, Len(sent)) /\ StreamOK
      /\ out = <<>> /\ whole = {} /\ run = FALSE /\ repeats = FALSE /\ tainted = FALSE
  BY <1>1, FeedBooleans
<1>3. StreamOK'
  BY <1>1, <1>2 DEF StreamOK
<1>4. Typed(Feed', Len(sent))
  BY <1>1, <1>2, FeedTyped
<1> QED
  BY <1>1, <1>2, <1>3, <1>4, NotFiltering

\* dmx_section_feed_allocate_filter.
LEMMA AllocateFilterKeeps ==
  ASSUME IInv, NEW x \in Filters, allocate_filter(x)
  PROVE  IInv'
<1>1. /\ state = "ready" /\ state' = state /\ section_filter' = section_filter \cup {x}
      /\ check_crc' = check_crc
      /\ secbuf_base' = secbuf_base /\ secbufp' = secbufp /\ pusi_seen' = pusi_seen /\ cc' = cc
      /\ sent' = sent /\ done' = done /\ next_cc' = next_cc /\ missed' = missed
      /\ faults' = faults
      /\ out' = out /\ whole' = whole /\ run' = run /\ tainted' = tainted /\ repeats' = repeats
  BY DEF allocate_filter, asm, stream, seen
<1>2. /\ pusi_seen \in BOOLEAN /\ tainted \in BOOLEAN /\ Len(sent) \in Nat
      /\ Typed(Feed, Len(sent)) /\ StreamOK /\ check_crc \in BOOLEAN
      /\ section_filter \subseteq Filters
      /\ out = <<>> /\ whole = {} /\ run = FALSE /\ repeats = FALSE /\ tainted = FALSE
  BY <1>1, FeedBooleans
<1>3. StreamOK'
  BY <1>1, <1>2 DEF StreamOK
<1>4. Typed(Feed', Len(sent))
  BY <1>1, <1>2, FeedTyped
<1>5. section_filter' \subseteq Filters
  BY <1>1, <1>2
<1> QED
  BY <1>1, <1>2, <1>3, <1>4, <1>5, NotFiltering

\* dmx_section_feed_start_filtering: the buffer is empty and no start was seen.
LEMMA StartKeeps ==
  ASSUME IInv, NEW ret \in {0, -1}, start_filtering(ret)
  PROVE  IInv'
<1>1. /\ state = "ready" /\ state' \in {"ready", "go"} /\ section_filter' = section_filter
      /\ check_crc' = check_crc
      /\ secbuf_base' = <<>> /\ secbufp' = 0 /\ pusi_seen' = FALSE /\ cc' = cc
      /\ sent' = sent /\ done' = done /\ next_cc' = next_cc /\ missed' = missed
      /\ faults' = faults
      /\ out' = out /\ whole' = whole /\ run' = run /\ tainted' = tainted /\ repeats' = repeats
  BY DEF start_filtering, stream, seen
<1>2. /\ pusi_seen \in BOOLEAN /\ tainted \in BOOLEAN /\ Len(sent) \in Nat
      /\ Typed(Feed, Len(sent)) /\ StreamOK /\ check_crc \in BOOLEAN
      /\ section_filter \subseteq Filters
      /\ out = <<>> /\ whole = {} /\ run = FALSE /\ repeats = FALSE /\ tainted = FALSE
  BY <1>1, FeedBooleans
<1>3. StreamOK'
  BY <1>1, <1>2 DEF StreamOK
<1>4. Typed(Feed', Len(sent'))
  <2>1. pusi_seen' \in BOOLEAN /\ tainted' \in BOOLEAN
    BY <1>1, <1>2
  <2>2. Typed(Feed', Len(sent))
    BY <2>1, <1>1, <1>2, FeedTyped
  <2> QED
    BY <2>2, <1>1
<1>5. Len(out') = 0 /\ Len(secbuf_base') = 0
  BY <1>1, <1>2, EmptySeq
<1>6. FeedOK'
  BY <1>1, <1>2 DEF FeedOK
<1>7. OnlyWhole(out')
  BY <1>5 DEF OnlyWhole
<1>8. WholeSectionsDelivered'
  BY <1>1, <1>2 DEF WholeSectionsDelivered
<1>9. GoOK'
  <2>1. Feed'.pusi_seen = FALSE /\ Feed'.out = out' /\ Feed'.secbuf_base = secbuf_base'
    BY <1>1 DEF Feed
  <2>2. Synced(Feed', sent', done')
    BY <2>1 DEF Synced
  <2>3. InOrder(Feed')
    BY <2>1, <1>5 DEF InOrder, Increasing, StartsInOrder, Later
  <2>4. ~pusi_seen' /\ ~run'
    BY <1>1, <1>2
  <2> QED
    BY <2>2, <2>3, <2>4 DEF GoOK
<1> QED
  BY <1>3, <1>4, <1>6, <1>7, <1>8, <1>9 DEF IInv

\* stop_filtering, release_filter and release_section_feed.
LEMMA StopKeeps ==
  ASSUME IInv, Forget, state' \in {"free", "ready"}, check_crc' = check_crc,
         section_filter' \subseteq section_filter, UNCHANGED <<asm, stream>>
  PROVE  IInv'
<1>1. /\ secbuf_base' = secbuf_base /\ secbufp' = secbufp /\ pusi_seen' = pusi_seen /\ cc' = cc
      /\ sent' = sent /\ done' = done /\ next_cc' = next_cc /\ missed' = missed
      /\ faults' = faults
      /\ out' = <<>> /\ whole' = {} /\ run' = FALSE /\ tainted' = FALSE /\ repeats' = FALSE
  BY DEF Forget, asm, stream
<1>2. /\ pusi_seen \in BOOLEAN /\ Len(sent) \in Nat
      /\ Typed(Feed, Len(sent)) /\ StreamOK /\ check_crc \in BOOLEAN
      /\ section_filter \subseteq Filters
  BY FeedBooleans
<1>3. StreamOK'
  BY <1>1, <1>2 DEF StreamOK
<1>4. Typed(Feed', Len(sent'))
  <2>1. pusi_seen' \in BOOLEAN /\ tainted' \in BOOLEAN
    BY <1>1, <1>2
  <2>2. Typed(Feed', Len(sent))
    BY <2>1, <1>1, <1>2, FeedTyped
  <2> QED
    BY <2>2, <1>1
<1>5. section_filter' \subseteq Filters
  BY <1>2
<1> QED
  BY <1>1, <1>2, <1>3, <1>4, <1>5, NotFiltering

\* Steps that change nothing.
LEMMA StutterKeeps ==
  ASSUME IInv, UNCHANGED vars
  PROVE  IInv'
<1>1. /\ state' = state /\ check_crc' = check_crc /\ section_filter' = section_filter
      /\ secbuf_base' = secbuf_base /\ secbufp' = secbufp /\ pusi_seen' = pusi_seen /\ cc' = cc
      /\ sent' = sent /\ done' = done /\ next_cc' = next_cc /\ missed' = missed
      /\ faults' = faults
      /\ out' = out /\ whole' = whole /\ run' = run /\ tainted' = tainted /\ repeats' = repeats
  BY DEF vars, feed, asm, stream, seen
<1>2. Feed' = Feed /\ Remaining' = Remaining
  BY <1>1 DEF Feed, Remaining
<1>3. StreamOK' /\ FeedOK' /\ CounterInStep' = CounterInStep /\ WholeSectionsDelivered'
  BY <1>1 DEF IInv, StreamOK, FeedOK, CounterInStep, WholeSectionsDelivered
<1>4. GoOK'
  BY <1>1, <1>2, <1>3 DEF IInv, GoOK
<1> QED
  BY <1>1, <1>2, <1>3, <1>4 DEF IInv

\* The invariant holds when the demux comes up.
LEMMA InitOK ==
  ASSUME Init
  PROVE  IInv
<1>1. /\ state = "free" /\ check_crc = FALSE /\ section_filter = {}
      /\ pusi_seen = FALSE /\ cc = 0 /\ secbuf_base = <<>> /\ secbufp = 0
      /\ sent = <<>> /\ done = 0 /\ next_cc = 0 /\ missed = 0 /\ faults = 0
      /\ out = <<>> /\ whole = {} /\ run = FALSE /\ tainted = FALSE /\ repeats = FALSE
  BY DEF Init
<1>2. Len(sent) = 0 /\ Len(secbuf_base) = 0 /\ Len(out) = 0
  BY <1>1, EmptySeq
<1>3. sent \in Seq(Sections) /\ secbuf_base \in Seq(Bytes) /\ out \in Seq(Given)
  BY <1>1, EmptySeq
<1>4. /\ 0 \in 0..(CCs - 1) /\ 0 \in 0..MaxFaults /\ MaxSections \in Nat
      /\ DMX_MAX_SECFEED_SIZE \in Nat
  BY SectionAssumption, Sizes
<1>5. StreamOK
  BY <1>1, <1>2, <1>3, <1>4 DEF StreamOK
<1>6. FeedOK
  BY <1>1, <1>2 DEF FeedOK
<1>7. Typed(Feed, Len(sent))
  <2>1. /\ Feed.secbuf_base = secbuf_base /\ Feed.secbufp = 0 /\ Feed.out = out
    BY <1>1 DEF Feed
  <2>2. Feed \in FeedRec
    BY <1>1, <1>3, <1>4 DEF Feed, FeedRec
  <2> QED
    BY <2>1, <2>2, <1>2, <1>4 DEF Typed
<1>8. OnlyWhole(out)
  BY <1>2 DEF OnlyWhole
<1>9. GoOK /\ WholeSectionsDelivered
  BY <1>1 DEF GoOK, WholeSectionsDelivered
<1> QED
  BY <1>5, <1>6, <1>7, <1>8, <1>9 DEF IInv

\* Every step keeps the invariant.
LEMMA NextKeeps ==
  ASSUME IInv, [Next]_vars
  PROVE  IInv'
<1>1. ASSUME NEW x \in NextPackets, NEW dc \in BOOLEAN, Arrive(x, dc) PROVE IInv'
  BY <1>1, ArriveKeeps
<1>2. ASSUME NEW x \in NextPackets, ArriveTwice(x) PROVE IInv'
  BY <1>2, ArriveTwiceKeeps
<1>3. ASSUME NEW x \in NextPackets, Lose(x) PROVE IInv'
  BY <1>3, LoseKeeps
<1>4. ASSUME NEW x \in NextPackets, NEW p \in DamagedPackets, ArriveDamaged(x, p) PROVE IInv'
  BY <1>4, ArriveDamagedKeeps
<1>5. CASE ArriveEmpty
  BY <1>5, ArriveEmptyKeeps
<1>6. ASSUME NEW x \in NextPackets, Ignore(x) PROVE IInv'
  BY <1>6, IgnoreKeeps
<1>7. ASSUME NEW crc \in BOOLEAN, allocate_section_feed(crc) PROVE IInv'
  BY <1>7, AllocateKeeps
<1>8. ASSUME NEW x \in Filters, allocate_filter(x) PROVE IInv'
  BY <1>8, AllocateFilterKeeps
<1>9. ASSUME NEW ret \in {0, -1}, start_filtering(ret) PROVE IInv'
  BY <1>9, StartKeeps
<1>10. CASE stop_filtering
  <2>1. /\ Forget /\ state' = "ready" /\ check_crc' = check_crc
        /\ section_filter' \subseteq section_filter /\ UNCHANGED <<asm, stream>>
    BY <1>10 DEF stop_filtering
  <2> QED
    BY <2>1, StopKeeps
<1>11. ASSUME NEW x \in Filters, release_filter(x) PROVE IInv'
  <2>1. /\ Forget /\ state' = "ready" /\ check_crc' = check_crc
        /\ section_filter' \subseteq section_filter /\ UNCHANGED <<asm, stream>>
    BY <1>11 DEF release_filter
  <2> QED
    BY <2>1, StopKeeps
<1>12. CASE release_section_feed
  <2>1. /\ Forget /\ state' = "free" /\ check_crc' = check_crc
        /\ section_filter' \subseteq section_filter /\ UNCHANGED <<asm, stream>>
    BY <1>12 DEF release_section_feed
  <2> QED
    BY <2>1, StopKeeps
<1>13. CASE UNCHANGED vars
  BY <1>13, StutterKeeps
<1> QED
  BY <1>1, <1>2, <1>3, <1>4, <1>5, <1>6, <1>7, <1>8, <1>9, <1>10, <1>11, <1>12, <1>13
  DEF Next

-----------------------------------------------------------------------------
(***************************************************************************)
(* What the invariant says.                                                *)
(***************************************************************************)
\* The types follow from the invariant.
LEMMA IInvTypeOK ==
  ASSUME IInv
  PROVE  TypeOK
<1>0. StreamOK /\ FeedOK /\ Typed(Feed, Len(sent))
  BY DEF IInv
<1>1. /\ Feed.pusi_seen = pusi_seen /\ Feed.cc = cc /\ Feed.secbuf_base = secbuf_base
      /\ Feed.secbufp = secbufp /\ Feed.tainted = tainted /\ Feed.out = out
  BY DEF Feed
<1>2. /\ pusi_seen \in BOOLEAN /\ cc \in 0..(CCs - 1) /\ tainted \in BOOLEAN
      /\ secbuf_base \in Seq(Bytes) /\ secbufp \in Nat /\ out \in Seq(Given)
  <2>1. Feed \in FeedRec
    BY <1>0 DEF Typed
  <2>2. /\ Feed.pusi_seen \in BOOLEAN /\ Feed.cc \in 0..(CCs - 1) /\ Feed.tainted \in BOOLEAN
        /\ Feed.secbuf_base \in Seq(Bytes) /\ Feed.secbufp \in Nat /\ Feed.out \in Seq(Given)
    BY <2>1 DEF FeedRec
  <2> QED
    BY <2>2, <1>1
<1>3. /\ Len(secbuf_base) <= DMX_MAX_SECFEED_SIZE /\ secbufp <= Len(secbuf_base)
      /\ \A i \in 1..Len(secbuf_base) : secbuf_base[i].id <= Len(sent)
      /\ \A i \in 1..Len(out) : out[i].id <= Len(sent)
  BY <1>0, <1>1 DEF Typed
<1>4. /\ sent \in Seq(Sections) /\ Len(sent) \in Nat /\ Len(sent) <= MaxSections
      /\ next_cc \in 0..(CCs - 1) /\ missed \in 0..(CCs - 1) /\ faults \in 0..MaxFaults
      /\ Len(secbuf_base) \in Nat
  BY <1>0, <1>2 DEF StreamOK
<1>5. ToSet(sent) \subseteq Sections
  BY <1>4 DEF ToSet
<1>6. done \in 0..MaxSection
  <2>1. CASE sent = <<>>
    BY <2>1, <1>0, SectionAssumption DEF StreamOK
  <2>2. CASE sent # <<>>
    <3>1. done \in 1..Last(sent).len /\ Len(sent) > 0
      BY <2>2, <1>0, <1>4, EmptySeq DEF StreamOK
    <3>2. Last(sent).len \in Nat /\ Last(sent).len <= MaxSection /\ MaxSection \in Nat
      BY <3>1, <1>4, LastSection, Sizes
    <3> QED
      BY <3>1, <3>2
  <2> QED
    BY <2>1, <2>2
<1>7. \A i \in 1..Len(secbuf_base) : secbuf_base[i].id \in 0..Len(sent)
  <2> TAKE i \in 1..Len(secbuf_base)
  <2>1. secbuf_base[i] \in Bytes
    BY <1>2
  <2>2. secbuf_base[i].id \in Nat
    BY <2>1 DEF Bytes
  <2>3. secbuf_base[i].id <= Len(sent)
    BY <1>3
  <2> QED
    BY <2>2, <2>3, <1>4
<1>8. \A i \in 1..Len(out) : /\ out[i].id \in 0..Len(sent) /\ out[i].to \subseteq Filters
                             /\ out[i].tainted \in BOOLEAN /\ out[i].checked \in BOOLEAN
  <2> TAKE i \in 1..Len(out)
  <2>1. out[i] \in Given
    BY <1>2
  <2>2. /\ out[i].id \in Nat /\ out[i].to \subseteq Filters
        /\ out[i].tainted \in BOOLEAN /\ out[i].checked \in BOOLEAN
    BY <2>1 DEF Given
  <2>3. out[i].id <= Len(sent)
    BY <1>3
  <2>4. out[i].id \in 0..Len(sent)
    BY <2>2, <2>3, <1>4
  <2> QED
    BY <2>2, <2>4
<1>9. /\ state \in {"free", "ready", "go"} /\ check_crc \in BOOLEAN
      /\ section_filter \subseteq Filters /\ whole \subseteq 1..Len(sent)
      /\ run \in BOOLEAN /\ repeats \in BOOLEAN
  BY <1>0 DEF FeedOK
<1>10. tsfeedp <= DMX_MAX_SECFEED_SIZE /\ secbufp \in 0..tsfeedp
  BY <1>2, <1>3, <1>4 DEF tsfeedp
<1> QED
  BY <1>2, <1>4, <1>5, <1>6, <1>7, <1>8, <1>9, <1>10 DEF TypeOK, tsfeedp

\* The order in which sections are given out follows from the invariant.
LEMMA IInvOnceInOrder ==
  ASSUME IInv
  PROVE  OnceInOrder
<1>0. GoOK /\ FeedOK
  BY DEF IInv
<1>1. CASE state = "go"
  <2>1. Feed.out = out
    BY DEF Feed
  <2>2. ~repeats => Increasing(out)
    BY <1>0, <1>1, <2>1 DEF GoOK, InOrder
  <2> QED
    BY <2>2 DEF Increasing, OnceInOrder
<1>2. CASE state # "go"
  <2>1. out = <<>>
    BY <1>0, <1>2 DEF FeedOK
  <2>2. Len(out) = 0
    BY <2>1, EmptySeq
  <2> QED
    BY <2>2 DEF OnceInOrder
<1> QED
  BY <1>1, <1>2

\* That only whole sections are given out is a part of the invariant.
LEMMA IInvOnlyWhole ==
  ASSUME IInv
  PROVE  OnlyWholeSections
BY DEF IInv, OnlyWhole, OnlyWholeSections

-----------------------------------------------------------------------------
(***************************************************************************)
(* The theorems.                                                           *)
(***************************************************************************)

\* The inductive invariant: whatever packets are lost, repeated, damaged or empty and
\* whenever the feed is started, the buffer of section_copy_dump is, after an
\* undamaged section start, a stretch of the stream that the next packet continues.
THEOREM Invariant == Spec => []IInv
<1>1. Init => IInv
  BY InitOK
<1>2. IInv /\ [Next]_vars => IInv'
  BY NextKeeps
<1> QED
  BY <1>1, <1>2, PTL DEF Spec

\* The variables have their types; in particular the bytes that section_copy_dump
\* copies never go past the end of secbuf_base, and secbufp stays inside it.
THEOREM TypeCorrect == Spec => []TypeOK
<1>1. IInv => TypeOK
  BY IInvTypeOK
<1> QED
  BY <1>1, Invariant, PTL

\* A filter is given only whole sections, each as it was sent: anything else that
\* section_copy_dump hands over came from a damaged packet that was let through,
\* before the next section start, and had no CRC that was checked.
THEOREM WholeOnly == Spec => []OnlyWholeSections
<1>1. IInv => OnlyWholeSections
  BY IInvOnlyWhole
<1> QED
  BY <1>1, Invariant, PTL

\* A section whose packets were all received while the feed filtered, with no packet
\* that came twice and no announced discontinuity among them, has been given to each
\* filter that accepts it: the size of secbuf_base is enough, and resync and
\* section_new discard no part of it.
THEOREM Delivered == Spec => []WholeSectionsDelivered
<1>1. IInv => WholeSectionsDelivered
  BY DEF IInv
<1> QED
  BY <1>1, Invariant, PTL

\* Sections are given out once and in the order sent, unless a packet came twice or
\* came without payload, which makes packet_type go back to the start of the buffer.
THEOREM DeliveredInOrder == Spec => []OnceInOrder
<1>1. IInv => OnceInOrder
  BY IInvOnceInOrder
<1> QED
  BY <1>1, Invariant, PTL
=============================================================================
