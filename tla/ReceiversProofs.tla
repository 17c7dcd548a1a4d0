-------------------------- MODULE ReceiversProofs --------------------------
(***************************************************************************)
(* Proofs about Receivers, for any limit on descriptors and any number of  *)
(* lines.                                                                  *)
(***************************************************************************)
EXTENDS Receivers, FiniteSetTheorems, SequenceTheorems, TLAPS

-----------------------------------------------------------------------------
(* The inductive invariant                                                  *)

(* A receiver has no socket until it is launched, and none after only if    *)
(* the set-up failed.                                                       *)
Launched == \A r \in Receiver : sock[r] = "none" <=> At(r, "launch")

(* The numbers of the lines of s rise, those of s are below those of t, and *)
(* below or equal to n.                                                     *)
LineNo(piece) == piece[1]
Rising(s)    == \A i, j \in 1 .. Len(s) : i < j => LineNo(s[i]) < LineNo(s[j])
Before(s, t) == \A i \in 1 .. Len(s), j \in 1 .. Len(t) : LineNo(s[i]) < LineNo(t[j])
Upto(s, n)   == \A i \in 1 .. Len(s) : LineNo(s[i]) <= n

(* ArrivalOrder, piece by piece, and no line that was not sent.             *)
InOrder(h, b, a, n) ==
  /\ Rising(h) /\ Rising(b) /\ Before(h, b) /\ Upto(h, n) /\ Upto(b, n)
  /\ \A k \in 1 .. Len(a) :
       Rising(a[k]) /\ Before(h, a[k]) /\ Before(b, a[k]) /\ Upto(a[k], n)
  /\ \A k, l \in 1 .. Len(a) : k < l => Before(a[k], a[l])
Ordered == \A r \in Receiver : InOrder(handed[r], recv[r].buf, arrived[r], sent)

(* The descriptors in use are those that are not given back, the file the   *)
(* writer has open and the file a reload has open.                          *)
One(b) == IF b THEN 1 ELSE 0
DescriptorsAccounted == fds = Held + One(wpc = "opened") + One(reload.open)

IInv == TypeOK /\ Launched /\ DescriptorsAccounted /\ Ordered

-----------------------------------------------------------------------------
(* Sequences of lines                                                       *)

(* A function on 1 .. k is a sequence.                                      *)
LEMMA FunctionIsSeq ==
  ASSUME NEW S, NEW k \in Nat, NEW m \in [1 .. k -> S]
  PROVE  m \in Seq(S) /\ Len(m) = k
OBVIOUS

(* The number of a line, whole or cut.                                      *)
LEMMA LineNumbers ==
  /\ \A x \in Piece : LineNo(x) \in Line /\ LineNo(x) \in Int
  /\ \A l \in Line, whole \in BOOLEAN : <<l, whole>> \in Piece /\ LineNo(<<l, whole>>) = l
<1>1. Line \subseteq Int
  BY ReceiversAssumption DEF Line
<1>2. \A x \in Piece : LineNo(x) \in Line
  BY DEF Piece, LineNo
<1>3. \A l \in Line, whole \in BOOLEAN : <<l, whole>> \in Piece
  BY Zenon DEF Piece
<1>4. \A l \in Line, whole \in BOOLEAN : LineNo(<<l, whole>>) = l
  BY SMT DEF LineNo
<1> QED
  BY <1>1, <1>2, <1>3, <1>4

(* The first line of b has gone to the end of h, and g and c are the        *)
(* result.                                                                  *)
Moved(h, b, g, c) ==
  /\ Len(h) \in Nat /\ Len(b) \in Nat /\ Len(b) >= 1
  /\ Len(g) = Len(h) + 1 /\ g[Len(h) + 1] = b[1] /\ \A i \in 1 .. Len(h) : g[i] = h[i]
  /\ Len(c) = Len(b) - 1 /\ \A i \in 1 .. Len(c) : c[i] = b[i + 1]

(* Then g and c are in order as well.                                       *)
LEMMA OneMoved ==
  ASSUME NEW h, NEW b, NEW g, NEW c, NEW n, Moved(h, b, g, c),
         Rising(h), Rising(b), Before(h, b), Upto(h, n), Upto(b, n)
  PROVE  /\ Rising(g) /\ Rising(c) /\ Before(g, c) /\ Upto(g, n) /\ Upto(c, n)
         /\ \A t : Before(h, t) /\ Before(b, t) => Before(g, t) /\ Before(c, t)
<1> USE DEF Moved
<1>1. \A i \in 1 .. Len(c) : i + 1 \in 1 .. Len(b) /\ 1 < i + 1
  OBVIOUS
<1>2. \A i \in 1 .. Len(g) : i \in 1 .. Len(h) \/ i = Len(h) + 1
  OBVIOUS
<1>3. 1 \in 1 .. Len(b) /\ Len(h) + 1 \notin 1 .. Len(h)
  OBVIOUS
<1>4. Upto(g, n) /\ Upto(c, n)
  BY <1>1, <1>2, <1>3 DEF Upto
<1>5. Rising(c)
  BY <1>1 DEF Rising
<1>6. Rising(g)
  BY <1>2, <1>3 DEF Rising, Before
<1>7. Before(g, c)
  BY <1>1, <1>2, <1>3 DEF Rising, Before
<1>8. ASSUME NEW t, Before(h, t), Before(b, t) PROVE Before(g, t) /\ Before(c, t)
  BY <1>1, <1>2, <1>3, <1>8 DEF Before
<1> QED
  BY <1>4, <1>5, <1>6, <1>7, <1>8

(* What holds of the lines of s holds of the lines of a part d that starts  *)
(* where s starts.                                                          *)
LEMMA PartOf ==
  ASSUME NEW s, NEW d, NEW n, Len(s) \in Nat, Len(d) \in Nat, Len(d) <= Len(s),
         \A i \in 1 .. Len(d) : LineNo(d[i]) = LineNo(s[i])
  PROVE  /\ Rising(s) => Rising(d)
         /\ Upto(s, n) => Upto(d, n)
         /\ \A t : (Before(s, t) => Before(d, t)) /\ (Before(t, s) => Before(t, d))
<1>1. \A i \in 1 .. Len(d) : i \in 1 .. Len(s)
  OBVIOUS
<1>2. Rising(s) => Rising(d)
  BY <1>1 DEF Rising
<1>3. Upto(s, n) => Upto(d, n)
  BY <1>1 DEF Upto
<1>4. \A t : (Before(s, t) => Before(d, t)) /\ (Before(t, s) => Before(t, d))
  BY <1>1 DEF Before
<1> QED
  BY <1>2, <1>3, <1>4

(* Lines numbered from n + 1 on come after those up to n.                   *)
LEMMA Numbered ==
  ASSUME NEW n \in Nat, NEW k \in Nat, NEW m, Len(m) = k, \A i \in 1 .. k : LineNo(m[i]) = n + i
  PROVE  /\ Rising(m) /\ Upto(m, n + k)
         /\ \A s : Upto(s, n) /\ (\A i \in 1 .. Len(s) : LineNo(s[i]) \in Int) =>
                     Before(s, m) /\ Upto(s, n + k)
<1>1. Rising(m) /\ Upto(m, n + k)
  BY DEF Rising, Upto
<1>2. ASSUME NEW s, Upto(s, n), \A i \in 1 .. Len(s) : LineNo(s[i]) \in Int
      PROVE  Before(s, m) /\ Upto(s, n + k)
  BY <1>2 DEF Before, Upto
<1> QED
  BY <1>1, <1>2

(* The first line of the buffer goes to the end of what was handed over.    *)
LEMMA LineMoves ==
  ASSUME NEW h \in Seq(Piece), NEW b \in Seq(Piece), NEW a, NEW n,
         InOrder(h, b, a, n), b # <<>>
  PROVE  /\ Append(h, Head(b)) \in Seq(Piece) /\ Tail(b) \in Seq(Piece)
         /\ InOrder(Append(h, Head(b)), Tail(b), a, n)
<1> DEFINE g == Append(h, Head(b))
           c == Tail(b)
<1>1. /\ g \in Seq(Piece) /\ Len(h) \in Nat /\ Len(g) = Len(h) + 1 /\ g[Len(h) + 1] = b[1]
      /\ \A i \in 1 .. Len(h) : g[i] = h[i]
  OBVIOUS
<1>2. /\ c \in Seq(Piece) /\ Len(b) \in Nat /\ Len(b) >= 1 /\ Len(c) = Len(b) - 1
      /\ \A i \in 1 .. Len(c) : c[i] = b[i + 1]
  OBVIOUS
<1>3. /\ Rising(h) /\ Rising(b) /\ Before(h, b) /\ Upto(h, n) /\ Upto(b, n)
      /\ \A k \in 1 .. Len(a) : Before(h, a[k]) /\ Before(b, a[k])
  BY DEF InOrder
<1> HIDE DEF g, c
<1>4. /\ Rising(g) /\ Rising(c) /\ Before(g, c) /\ Upto(g, n) /\ Upto(c, n)
      /\ \A t : Before(h, t) /\ Before(b, t) => Before(g, t) /\ Before(c, t)
  <2>1. Moved(h, b, g, c)
    BY <1>1, <1>2 DEF Moved
  <2> QED
    BY <1>3, <2>1, OneMoved
<1>5. InOrder(g, c, a, n)
  BY <1>3, <1>4 DEF InOrder
<1> QED
  BY <1>1, <1>2, <1>5 DEF g, c

(* The first message, or a part of it that starts where it starts, becomes  *)
(* the buffer.                                                              *)
LEMMA MessageMoves ==
  ASSUME NEW h, NEW b, NEW a \in Seq(Seq(Piece)), NEW n,
         InOrder(h, b, a, n), a # <<>>, NEW d \in Seq(Piece), Len(d) <= Len(a[1]),
         \A i \in 1 .. Len(d) : LineNo(d[i]) = LineNo(a[1][i])
  PROVE  Tail(a) \in Seq(Seq(Piece)) /\ InOrder(h, d, Tail(a), n)
<1> DEFINE c == Tail(a)
<1>1. /\ c \in Seq(Seq(Piece)) /\ Len(a) \in Nat /\ Len(a) >= 1 /\ Len(c) = Len(a) - 1
      /\ \A k \in 1 .. Len(c) : c[k] = a[k + 1]
  OBVIOUS
<1>2. /\ Len(d) \in Nat /\ Len(a[1]) \in Nat /\ 1 \in 1 .. Len(a)
      /\ \A k \in 1 .. Len(c) : k + 1 \in 1 .. Len(a) /\ 1 < k + 1
  BY <1>1
<1>3. /\ Rising(h) /\ Upto(h, n)
      /\ \A k \in 1 .. Len(a) : Rising(a[k]) /\ Before(h, a[k]) /\ Upto(a[k], n)
      /\ \A k, l \in 1 .. Len(a) : k < l => Before(a[k], a[l])
  BY DEF InOrder
<1> HIDE DEF c
<1>4. /\ Rising(d) /\ Upto(d, n) /\ Before(h, d)
      /\ \A t : Before(a[1], t) => Before(d, t)
  BY <1>2, <1>3, PartOf
<1>5. ASSUME NEW k \in 1 .. Len(c)
      PROVE  Rising(c[k]) /\ Before(h, c[k]) /\ Upto(c[k], n) /\ Before(d, c[k])
  <2>1. c[k] = a[k + 1] /\ k + 1 \in 1 .. Len(a) /\ 1 < k + 1
    BY <1>1, <1>2
  <2>2. Before(a[1], a[k + 1])
    BY <1>2, <1>3, <2>1
  <2> QED
    BY <1>3, <1>4, <2>1, <2>2
<1>6. ASSUME NEW k \in 1 .. Len(c), NEW l \in 1 .. Len(c), k < l PROVE Before(c[k], c[l])
  <2>1. c[k] = a[k + 1] /\ c[l] = a[l + 1] /\ k + 1 < l + 1
    BY <1>1, <1>6
  <2> QED
    BY <1>2, <1>3, <2>1
<1>7. InOrder(h, d, c, n)
  BY <1>3, <1>4, <1>5, <1>6 DEF InOrder
<1> QED
  BY <1>1, <1>7 DEF c

(* What one recvfrom() finds is a part of the message that starts with it.  *)
LEMMA ReadStart ==
  ASSUME NEW s \in Seq(Piece), NEW d \in ReadOnce(s)
  PROVE  /\ d \in Seq(Piece) /\ Len(d) <= Len(s)
         /\ \A i \in 1 .. Len(d) : LineNo(d[i]) = LineNo(s[i])
<1>1. Len(s) \in Nat
  OBVIOUS
<1>2. ASSUME NEW n \in 0 .. Len(s), d = SubSeq(s, 1, n)
      PROVE  /\ d \in Seq(Piece) /\ Len(d) <= Len(s)
             /\ \A i \in 1 .. Len(d) : LineNo(d[i]) = LineNo(s[i])
  <2>1. d \in Seq(Piece) /\ Len(d) = n /\ \A i \in 1 .. n : d[i] = s[i]
    BY <1>1, <1>2, SubSeqProperties
  <2> QED
    BY <1>1, <2>1
<1>3. ASSUME NEW n \in 1 .. Len(s), d = SubSeq(s, 1, n - 1) \o <<<<s[n][1], FALSE>>>>
      PROVE  /\ d \in Seq(Piece) /\ Len(d) <= Len(s)
             /\ \A i \in 1 .. Len(d) : LineNo(d[i]) = LineNo(s[i])
  <2> DEFINE e == SubSeq(s, 1, n - 1)
             x == <<s[n][1], FALSE>>
  <2>1. e \in Seq(Piece) /\ Len(e) = n - 1 /\ \A i \in 1 .. n - 1 : e[i] = s[i]
    BY <1>1, SubSeqProperties
  <2>2. x \in Piece /\ LineNo(x) = LineNo(s[n])
    <3>1. s[n] \in Piece
      BY <1>1
    <3>2. x = <<LineNo(s[n]), FALSE>> /\ LineNo(s[n]) \in Line
      BY <3>1, LineNumbers DEF LineNo
    <3> QED
      BY <3>2, LineNumbers
  <2>3. d = e \o <<x>>
    BY <1>3
  <2> HIDE DEF e, x
  <2>4. <<x>> \in Seq(Piece) /\ Len(<<x>>) = 1 /\ <<x>>[1] = x
    BY <2>2
  <2>5. d \in Seq(Piece) /\ Len(d) = n /\ d[n] = x /\ \A i \in 1 .. n - 1 : d[i] = e[i]
    BY <1>1, <2>1, <2>3, <2>4, ConcatProperties
  <2>6. ASSUME NEW i \in 1 .. n PROVE LineNo(d[i]) = LineNo(s[i])
    <3>1. CASE i = n
      BY <2>2, <2>5, <3>1
    <3>2. CASE i \in 1 .. n - 1
      BY <2>1, <2>5, <3>2
    <3> QED
      BY <1>1, <3>1, <3>2
  <2> QED
    BY <1>1, <2>5, <2>6
<1> QED
  BY <1>2, <1>3 DEF ReadOnce

(* The message of k lines a client sends after n lines.                     *)
IsMessage(m, n, k) == m = [i \in 1 .. k |-> <<n + i, TRUE>>]

(* Its lines are numbered from n + 1 on.                                    *)
LEMMA MessageSent ==
  ASSUME NEW n \in Nat, NEW k \in Nat, n + k <= MaxLines,
         NEW m, IsMessage(m, n, k)
  PROVE  m \in Seq(Piece) /\ Len(m) = k /\ \A i \in 1 .. k : LineNo(m[i]) = n + i
<1>1. \A i \in 1 .. k : n + i \in Line
  BY ReceiversAssumption DEF Line
<1>2. \A i \in 1 .. k : <<n + i, TRUE>> \in Piece /\ LineNo(<<n + i, TRUE>>) = n + i
  BY <1>1, LineNumbers
<1>3. m \in [1 .. k -> Piece]
  BY <1>2 DEF IsMessage
<1>4. m \in Seq(Piece) /\ Len(m) = k
  BY <1>3, FunctionIsSeq
<1> QED
  BY <1>2, <1>4 DEF IsMessage

(* A new message comes after all the others.                                *)
LEMMA MessageArrives ==
  ASSUME NEW h \in Seq(Piece), NEW b \in Seq(Piece), NEW a \in Seq(Seq(Piece)), NEW n \in Nat,
         InOrder(h, b, a, n), NEW k \in Nat, n + k <= MaxLines,
         NEW m \in Seq(Piece), Len(m) = k, \A i \in 1 .. k : LineNo(m[i]) = n + i
  PROVE  Append(a, m) \in Seq(Seq(Piece)) /\ InOrder(h, b, Append(a, m), n + k)
<1> DEFINE c == Append(a, m)
<1>1. /\ c \in Seq(Seq(Piece)) /\ Len(a) \in Nat /\ Len(c) = Len(a) + 1 /\ c[Len(a) + 1] = m
      /\ \A l \in 1 .. Len(a) : c[l] = a[l]
  BY AppendProperties
<1>2. /\ \A i \in 1 .. Len(h) : LineNo(h[i]) \in Int
      /\ \A i \in 1 .. Len(b) : LineNo(b[i]) \in Int
      /\ \A l \in 1 .. Len(a) : \A i \in 1 .. Len(a[l]) : LineNo(a[l][i]) \in Int
  <2>1. \A s \in Seq(Piece) : \A i \in 1 .. Len(s) : LineNo(s[i]) \in Int
    BY LineNumbers
  <2>2. \A l \in 1 .. Len(a) : a[l] \in Seq(Piece)
    OBVIOUS
  <2> QED
    BY <2>1, <2>2
<1> HIDE DEF c
<1>3. /\ Rising(h) /\ Rising(b) /\ Before(h, b) /\ Upto(h, n) /\ Upto(b, n)
      /\ \A l \in 1 .. Len(a) :
           Rising(a[l]) /\ Before(h, a[l]) /\ Before(b, a[l]) /\ Upto(a[l], n)
      /\ \A j, l \in 1 .. Len(a) : j < l => Before(a[j], a[l])
  BY DEF InOrder
<1>4. /\ Rising(m) /\ Upto(m, n + k)
      /\ Before(h, m) /\ Upto(h, n + k) /\ Before(b, m) /\ Upto(b, n + k)
      /\ \A l \in 1 .. Len(a) : Before(a[l], m) /\ Upto(a[l], n + k)
  BY <1>2, <1>3, Numbered
<1>5. \A l \in 1 .. Len(c) : l \in 1 .. Len(a) \/ l = Len(a) + 1
  BY <1>1
<1>6. ASSUME NEW l \in 1 .. Len(c)
      PROVE  Rising(c[l]) /\ Before(h, c[l]) /\ Before(b, c[l]) /\ Upto(c[l], n + k)
  BY <1>1, <1>3, <1>4, <1>5
<1>7. ASSUME NEW j \in 1 .. Len(c), NEW l \in 1 .. Len(c), j < l PROVE Before(c[j], c[l])
  <2>1. j \in 1 .. Len(a)
    BY <1>1, <1>7
  <2> QED
    BY <1>1, <1>3, <1>4, <1>5, <1>7, <2>1
<1>8. InOrder(h, b, c, n + k)
  BY <1>3, <1>4, <1>6, <1>7 DEF InOrder
<1> QED
  BY <1>1, <1>8 DEF c

(* Lines in order up to n are in order up to any greater number.            *)
LEMMA LaterStill ==
  ASSUME NEW h \in Seq(Piece), NEW b \in Seq(Piece), NEW a \in Seq(Seq(Piece)), NEW n \in Nat,
         NEW k \in Nat, InOrder(h, b, a, n)
  PROVE  InOrder(h, b, a, n + k)
<1>1. \A s \in Seq(Piece) : Upto(s, n) => Upto(s, n + k)
  <2>1. ASSUME NEW s \in Seq(Piece), Upto(s, n), NEW i \in 1 .. Len(s)
        PROVE  LineNo(s[i]) <= n + k
    <3>1. LineNo(s[i]) \in Int /\ LineNo(s[i]) <= n
      BY <2>1, LineNumbers DEF Upto
    <3> QED
      BY <3>1
  <2> QED
    BY <2>1 DEF Upto
<1>2. \A l \in 1 .. Len(a) : a[l] \in Seq(Piece)
  OBVIOUS
<1> QED
  BY <1>1, <1>2 DEF InOrder

-----------------------------------------------------------------------------
(* Descriptors                                                              *)

(* The number of receivers in a set.                                        *)
LEMMA SocketCount ==
  ASSUME NEW S, S \subseteq Receiver
  PROVE  Cardinality(S) = One("udp" \in S) + One("tcp" \in S)
<1>1. CASE "udp" \in S /\ "tcp" \in S
  <2>1. S = {"udp"} \cup {"tcp"} /\ "tcp" \notin {"udp"}
    BY <1>1 DEF Receiver
  <2>2. IsFiniteSet({"udp"}) /\ Cardinality({"udp"}) = 1
    BY FS_Singleton
  <2>3. Cardinality(S) = 1 + 1
    BY <2>1, <2>2, FS_AddElement
  <2> QED
    BY <1>1, <2>3 DEF One
<1>2. CASE "udp" \in S /\ "tcp" \notin S
  <2>1. S = {"udp"}
    BY <1>2 DEF Receiver
  <2>2. Cardinality(S) = 1
    BY <2>1, FS_Singleton
  <2> QED
    BY <1>2, <2>2 DEF One
<1>3. CASE "udp" \notin S /\ "tcp" \in S
  <2>1. S = {"tcp"}
    BY <1>3 DEF Receiver
  <2>2. Cardinality(S) = 1
    BY <2>1, FS_Singleton
  <2> QED
    BY <1>3, <2>2 DEF One
<1>4. CASE "udp" \notin S /\ "tcp" \notin S
  <2>1. S = {}
    BY <1>4 DEF Receiver
  <2> QED
    BY <1>4, <2>1, FS_EmptySet DEF One
<1> QED
  BY <1>1, <1>2, <1>3, <1>4

(* f descriptors are in use: for the sockets that are open, a connections,  *)
(* l files left open, the file the writer is at and the file of a reload.   *)
Account(f, udp, tcp, a, l, w, o) == f = One(udp) + One(tcp) + a + l + One(w) + One(o)

(* DescriptorsAccounted says so, before a step and after it.                *)
LEMMA Accounting ==
  /\ DescriptorsAccounted <=>
       Account(fds, Open("udp"), Open("tcp"), accepted, leaked, wpc = "opened", reload.open)
  /\ DescriptorsAccounted' <=>
       Account(fds', Open("udp")', Open("tcp")', accepted', leaked', wpc' = "opened", reload'.open)
<1>1. "udp" \in Receiver /\ "tcp" \in Receiver
  BY DEF Receiver
<1>2. Cardinality({r \in Receiver : Open(r)}) = One(Open("udp")) + One(Open("tcp"))
  <2> DEFINE S == {r \in Receiver : Open(r)}
  <2>1. S \subseteq Receiver /\ ("udp" \in S <=> Open("udp")) /\ ("tcp" \in S <=> Open("tcp"))
    BY <1>1
  <2> HIDE DEF S
  <2>2. Cardinality(S) = One("udp" \in S) + One("tcp" \in S)
    BY <2>1, SocketCount
  <2>3. Cardinality(S) = One(Open("udp")) + One(Open("tcp"))
    BY <2>1, <2>2 DEF One
  <2> QED
    BY <2>3 DEF S
<1>3. Cardinality({r \in Receiver : Open(r)'}) = One(Open("udp")') + One(Open("tcp")')
  <2> DEFINE S == {r \in Receiver : Open(r)'}
  <2>1. S \subseteq Receiver /\ ("udp" \in S <=> Open("udp")') /\ ("tcp" \in S <=> Open("tcp")')
    BY <1>1
  <2> HIDE DEF S
  <2>2. Cardinality(S) = One("udp" \in S) + One("tcp" \in S)
    BY <2>1, SocketCount
  <2>3. Cardinality(S) = One(Open("udp")') + One(Open("tcp")')
    BY <2>1, <2>2 DEF One
  <2> QED
    BY <2>3 DEF S
<1>4. /\ DescriptorsAccounted <=>
           fds = Cardinality({r \in Receiver : Open(r)}) + accepted + leaked
                   + One(wpc = "opened") + One(reload.open)
      /\ DescriptorsAccounted' <=>
           fds' = Cardinality({r \in Receiver : Open(r)'}) + accepted' + leaked'
                    + One(wpc' = "opened") + One(reload'.open)
  BY DEF DescriptorsAccounted, Held
<1> QED
  BY <1>2, <1>3, <1>4 DEF Account

(* What the invariant says of the numbers.                                  *)
LEMMA Numbers ==
  ASSUME IInv
  PROVE  /\ Limit \in Nat /\ MaxLines \in Nat /\ sent \in 0 .. MaxLines
         /\ fds \in 0 .. Limit /\ accepted \in 0 .. Limit /\ leaked \in 0 .. Limit
         /\ Account(fds, Open("udp"), Open("tcp"), accepted, leaked, wpc = "opened", reload.open)
BY Accounting, ReceiversAssumption DEF IInv, TypeOK

(* Connections and files left open are no more than the descriptors in use. *)
LEMMA Bounds ==
  ASSUME NEW f \in Int, NEW udp, NEW tcp, NEW w, NEW o, NEW a \in Nat, NEW l \in Nat,
         Account(f, udp, tcp, a, l, w, o), f <= Limit
  PROVE  f \in 0 .. Limit /\ a \in 0 .. Limit /\ l \in 0 .. Limit
BY ReceiversAssumption DEF Account, One

-----------------------------------------------------------------------------
(* Launch                                                                   *)

RecvState == [pc : {"launch", "head", "recv", "lines", "exited"}, buf : Seq(Piece)]

(* A receiver moves on, with the message it has.                            *)
LEMMA Moves ==
  ASSUME TypeOK, NEW r \in Receiver,
         NEW pc \in {"launch", "head", "recv", "lines", "exited"}, Move(r, pc)
  PROVE  /\ recv' \in [Receiver -> RecvState]
         /\ recv'[r].pc = pc /\ recv'[r].buf = recv[r].buf
         /\ \A q \in Receiver : q # r => recv'[q] = recv[q]
<1>1. recv \in [Receiver -> RecvState]
  BY DEF TypeOK, RecvState
<1> HIDE DEF TypeOK
<1> QED
  BY <1>1 DEF Move, RecvState

(* launch_receiver() takes a descriptor exactly for a socket that is made.  *)
LEMMA LaunchKeeps ==
  ASSUME IInv, NEW r \in Receiver, launch_receiver(r)
  PROVE  IInv'
<1>1. TypeOK /\ Launched /\ DescriptorsAccounted /\ Ordered
  BY DEF IInv
<1>2. /\ recv' \in [Receiver -> RecvState]
      /\ recv'[r].pc = "head" /\ recv'[r].buf = recv[r].buf
      /\ \A q \in Receiver : q # r => recv'[q] = recv[q]
  BY <1>1, Moves DEF launch_receiver
<1>3. PICK s \in init_socket :
        /\ \E b \in bind_socket(s) : sock' = [sock EXCEPT ![r] = b]
        /\ fds' = IF s = "failed" THEN fds ELSE fds + 1
  BY DEF launch_receiver
<1>4. PICK b \in bind_socket(s) : sock' = [sock EXCEPT ![r] = b]
  BY <1>3
<1>5. /\ s # "failed" => fds < Limit
      /\ b \in {"bound", "unbound", "unset", "failed"}
      /\ s = "failed" <=> b = "failed"
  <2>1. s \in {"made", "unset", "failed"} /\ (s # "failed" => fds < Limit)
    BY DEF init_socket
  <2>2. (s # "made" => b = s) /\ (s = "made" => b \in {"bound", "unbound"})
    BY DEF bind_socket
  <2> QED
    BY <2>1, <2>2
<1>6. /\ UNCHANGED <<run, sent, arrived, handed, accepted, leaked, wpc, reload, hups>>
      /\ sock[r] = "none"
  BY <1>1 DEF launch_receiver, Launched, mainVars
<1>7. /\ sock' \in [Receiver -> {"none", "bound", "unbound", "unset", "failed"}]
      /\ sock'[r] = b /\ \A q \in Receiver : q # r => sock'[q] = sock[q]
  BY <1>1, <1>4, <1>5 DEF TypeOK
<1>8. Launched'
  BY <1>1, <1>2, <1>5, <1>7 DEF Launched, At
<1>9. /\ ~Open(r) /\ (Open(r)' <=> s # "failed")
      /\ \A q \in Receiver : q # r => (Open(q)' <=> Open(q))
  BY <1>2, <1>5, <1>6, <1>7 DEF Open, At
<1>10. /\ Limit \in Nat /\ fds \in 0 .. Limit /\ accepted \in 0 .. Limit /\ leaked \in 0 .. Limit
       /\ Account(fds, Open("udp"), Open("tcp"), accepted, leaked, wpc = "opened", reload.open)
  BY Numbers
<1>11. fds' \in 0 .. Limit /\ fds' = fds + One(s # "failed")
  BY <1>3, <1>5, <1>10 DEF One
<1>12. DescriptorsAccounted'
  <2>1. CASE r = "udp"
    BY <1>6, <1>9, <1>10, <1>11, <2>1, Accounting DEF Account, One, Receiver
  <2>2. CASE r = "tcp"
    BY <1>6, <1>9, <1>10, <1>11, <2>2, Accounting DEF Account, One, Receiver
  <2> QED
    BY <2>1, <2>2 DEF Receiver
<1>13. TypeOK'
  BY <1>1, <1>2, <1>6, <1>7, <1>11 DEF TypeOK, RecvState
<1>14. Ordered'
  BY <1>1, <1>2, <1>6 DEF Ordered
<1> QED
  BY <1>8, <1>12, <1>13, <1>14 DEF IInv

-----------------------------------------------------------------------------
(* The rounds of the receivers                                              *)

(* A step in which receiver r moves on and hands nothing over, once it is   *)
(* launched.                                                                *)
LEMMA RoundKeeps ==
  ASSUME IInv, NEW r \in Receiver, ~At(r, "launch"),
         NEW pc \in {"head", "recv", "lines", "exited"}, Move(r, pc),
         UNCHANGED <<run, sent, arrived, sock, handed, accepted, leaked, wpc, reload, hups>>
  PROVE  /\ Launched' /\ Ordered' /\ recv' \in [Receiver -> RecvState]
         /\ recv'[r].pc = pc /\ \A q \in Receiver : q # r => recv'[q] = recv[q]
<1>1. TypeOK /\ Launched /\ Ordered
  BY DEF IInv
<1>2. /\ recv' \in [Receiver -> RecvState]
      /\ recv'[r].pc = pc /\ recv'[r].buf = recv[r].buf
      /\ \A q \in Receiver : q # r => recv'[q] = recv[q]
  BY <1>1, Moves
<1>3. Launched'
  BY <1>1, <1>2 DEF Launched, At
<1>4. Ordered'
  BY <1>1, <1>2 DEF Ordered
<1> QED
  BY <1>2, <1>3, <1>4

(* A receiver that goes on with its loop keeps its socket.                  *)
LEMMA LoopKeeps ==
  ASSUME IInv, NEW r \in Receiver, ~At(r, "launch"), ~At(r, "exited"),
         NEW pc \in {"head", "recv", "lines"}, Move(r, pc),
         UNCHANGED <<run, sent, arrived, sock, handed, fds, accepted, leaked, wpc, reload, hups>>
  PROVE  IInv'
<1>1. /\ Launched' /\ Ordered' /\ recv' \in [Receiver -> RecvState]
      /\ recv'[r].pc = pc /\ \A q \in Receiver : q # r => recv'[q] = recv[q]
  BY RoundKeeps
<1>2. \A q \in Receiver : Open(q)' <=> Open(q)
  BY <1>1 DEF Open, At
<1>3. DescriptorsAccounted'
  <2>1. Account(fds, Open("udp"), Open("tcp"), accepted, leaked, wpc = "opened", reload.open)
    BY Numbers
  <2> QED
    BY <1>2, <2>1, Accounting DEF Account, One, Receiver
<1>4. TypeOK'
  BY <1>1 DEF IInv, TypeOK, RecvState
<1> QED
  BY <1>1, <1>3, <1>4 DEF IInv

(* The TCP receiver gives back the descriptor of its socket when it leaves, *)
(* and only then.                                                           *)
LEMMA HeadKeeps ==
  ASSUME IInv, NEW r \in Receiver, receiver_head(r)
  PROVE  IInv'
<1>1. /\ At(r, "head") /\ ~At(r, "launch") /\ ~At(r, "exited")
      /\ UNCHANGED <<run, sent, arrived, sock, handed, accepted, leaked, wpc, reload, hups>>
  BY DEF receiver_head, At, mainVars
<1>2. CASE run
  <2>1. Move(r, "recv") /\ UNCHANGED fds
    BY <1>2 DEF receiver_head
  <2> QED
    BY <1>1, <2>1, LoopKeeps
<1>3. CASE ~run
  <2>1. Move(r, "exited")
    BY <1>3 DEF receiver_head
  <2>2. /\ Launched' /\ Ordered' /\ recv' \in [Receiver -> RecvState]
        /\ recv'[r].pc = "exited" /\ \A q \in Receiver : q # r => recv'[q] = recv[q]
    BY <1>1, <2>1, RoundKeeps
  <2>3. /\ Limit \in Nat /\ fds \in 0 .. Limit /\ accepted \in 0 .. Limit /\ leaked \in 0 .. Limit
        /\ Account(fds, Open("udp"), Open("tcp"), accepted, leaked, wpc = "opened", reload.open)
    BY Numbers
  <2>4. \A q \in Receiver : ~(q = r /\ q = "tcp") => (Open(q)' <=> Open(q))
    BY <1>1, <2>2 DEF Open, At
  <2>5. DescriptorsAccounted' /\ fds' \in 0 .. Limit
    <3>1. CASE r = "tcp" /\ sock[r] \in {"bound", "unbound"}
      <4>1. fds' = fds - 1 /\ Open("tcp") /\ ~Open("tcp")' /\ (Open("udp")' <=> Open("udp"))
        BY <1>1, <1>3, <2>2, <2>4, <3>1 DEF receiver_head, Open, At, Receiver
      <4> QED
        BY <1>1, <2>3, <4>1, Accounting DEF Account, One
    <3>2. CASE ~(r = "tcp" /\ sock[r] \in {"bound", "unbound"})
      <4>1. fds' = fds /\ (Open("tcp")' <=> Open("tcp")) /\ (Open("udp")' <=> Open("udp"))
        BY <1>1, <1>3, <2>2, <2>4, <3>2 DEF receiver_head, Open, At, Receiver
      <4> QED
        BY <1>1, <2>3, <4>1, Accounting DEF Account, One
    <3> QED
      BY <3>1, <3>2
  <2>6. TypeOK'
    BY <1>1, <2>2, <2>5 DEF IInv, TypeOK, RecvState
  <2> QED
    BY <2>2, <2>5, <2>6 DEF IInv
<1> QED
  BY <1>2, <1>3

(* Nothing is received, or a message is done with.                          *)
LEMMA RestKeeps ==
  ASSUME IInv, NEW r \in Receiver, nothing_received(r) \/ message_done(r)
  PROVE  IInv'
<1>1. /\ ~At(r, "launch") /\ ~At(r, "exited") /\ Move(r, "head")
      /\ UNCHANGED <<run, sent, arrived, sock, handed, fds, accepted, leaked, wpc, reload, hups>>
  BY DEF nothing_received, message_done, At, mainVars
<1> QED
  BY <1>1, LoopKeeps

-----------------------------------------------------------------------------
(* Messages and lines                                                       *)

(* What the invariant says of the lines of receiver r.                      *)
LEMMA LinesOf ==
  ASSUME IInv, NEW r \in Receiver
  PROVE  /\ handed[r] \in Seq(Piece) /\ recv[r].buf \in Seq(Piece)
         /\ arrived[r] \in Seq(Seq(Piece)) /\ recv \in [Receiver -> RecvState]
         /\ InOrder(handed[r], recv[r].buf, arrived[r], sent)
BY DEF IInv, TypeOK, Ordered, RecvState

(* The next datagram is received whole.                                     *)
LEMMA RecvfromKeeps ==
  ASSUME IInv, udp_recvfrom
  PROVE  IInv'
<1> DEFINE a == arrived["udp"]
<1>1. "udp" \in Receiver
  BY DEF Receiver
<1>2. /\ handed["udp"] \in Seq(Piece) /\ a \in Seq(Seq(Piece)) /\ recv \in [Receiver -> RecvState]
      /\ InOrder(handed["udp"], recv["udp"].buf, a, sent)
  BY <1>1, LinesOf
<1>3. /\ a # <<>> /\ At("udp", "recv")
      /\ recv' = [recv EXCEPT !["udp"] = [pc |-> "lines", buf |-> Head(a)]]
      /\ arrived' = [arrived EXCEPT !["udp"] = Tail(a)]
      /\ UNCHANGED <<run, sent, sock, handed, fds, accepted, leaked, wpc, reload, hups>>
  BY DEF udp_recvfrom, mainVars
<1> HIDE DEF a
<1>4. /\ Head(a) = a[1] /\ Head(a) \in Seq(Piece)
      /\ \A i \in 1 .. Len(Head(a)) : LineNo(Head(a)[i]) = LineNo(a[1][i])
  BY <1>2, <1>3
<1>5. Len(Head(a)) <= Len(a[1])
  BY <1>4
<1>6. Tail(a) \in Seq(Seq(Piece)) /\ InOrder(handed["udp"], Head(a), Tail(a), sent)
  BY <1>2, <1>3, <1>4, <1>5, MessageMoves
<1>7. /\ recv' \in [Receiver -> RecvState]
      /\ recv'["udp"].pc = "lines" /\ recv'["udp"].buf = Head(a)
      /\ \A q \in Receiver : q # "udp" => recv'[q] = recv[q]
  BY <1>1, <1>2, <1>3, <1>4 DEF RecvState
<1>8. /\ arrived' \in [Receiver -> Seq(Seq(Piece))]
      /\ arrived'["udp"] = Tail(a) /\ \A q \in Receiver : q # "udp" => arrived'[q] = arrived[q]
  BY <1>1, <1>3, <1>6 DEF IInv, TypeOK
<1>9. TypeOK'
  BY <1>3, <1>7, <1>8 DEF IInv, TypeOK, RecvState
<1>10. Launched' /\ \A q \in Receiver : Open(q)' <=> Open(q)
  BY <1>3, <1>7 DEF IInv, Launched, Open, At
<1>11. DescriptorsAccounted'
  <2>1. Account(fds, Open("udp"), Open("tcp"), accepted, leaked, wpc = "opened", reload.open)
    BY Numbers
  <2> QED
    BY <1>3, <1>10, <2>1, Accounting DEF Account, One, Receiver
<1>12. Ordered'
  BY <1>3, <1>6, <1>7, <1>8 DEF IInv, Ordered
<1> QED
  BY <1>9, <1>10, <1>11, <1>12 DEF IInv

(* A connection is accepted, read once and kept: one more descriptor, and   *)
(* the lines read are the first ones of the connection.                     *)
LEMMA AcceptKeeps ==
  ASSUME IInv, tcp_accept
  PROVE  IInv'
<1> DEFINE a == arrived["tcp"]
<1>1. "tcp" \in Receiver
  BY DEF Receiver
<1>2. /\ handed["tcp"] \in Seq(Piece) /\ a \in Seq(Seq(Piece)) /\ recv \in [Receiver -> RecvState]
      /\ InOrder(handed["tcp"], recv["tcp"].buf, a, sent)
  BY <1>1, LinesOf
<1>3. /\ a # <<>> /\ At("tcp", "recv") /\ fds < Limit
      /\ arrived' = [arrived EXCEPT !["tcp"] = Tail(a)]
      /\ fds' = fds + 1 /\ accepted' = accepted + 1
      /\ UNCHANGED <<run, sent, sock, handed, leaked, wpc, reload, hups>>
  BY DEF tcp_accept, mainVars
<1>4. PICK d \in ReadOnce(Head(a)) : recv' = [recv EXCEPT !["tcp"] = [pc |-> "lines", buf |-> d]]
  BY DEF tcp_accept
<1> HIDE DEF a
<1>5. Head(a) = a[1] /\ a[1] \in Seq(Piece)
  BY <1>2, <1>3
<1>6. /\ d \in Seq(Piece) /\ Len(d) <= Len(a[1])
      /\ \A i \in 1 .. Len(d) : LineNo(d[i]) = LineNo(a[1][i])
  BY <1>4, <1>5, ReadStart
<1>7. Tail(a) \in Seq(Seq(Piece)) /\ InOrder(handed["tcp"], d, Tail(a), sent)
  BY <1>2, <1>3, <1>6, MessageMoves
<1>8. /\ recv' \in [Receiver -> RecvState]
      /\ recv'["tcp"].pc = "lines" /\ recv'["tcp"].buf = d
      /\ \A q \in Receiver : q # "tcp" => recv'[q] = recv[q]
  BY <1>1, <1>2, <1>4, <1>6 DEF RecvState
<1>9. /\ arrived' \in [Receiver -> Seq(Seq(Piece))]
      /\ arrived'["tcp"] = Tail(a) /\ \A q \in Receiver : q # "tcp" => arrived'[q] = arrived[q]
  BY <1>1, <1>3, <1>7 DEF IInv, TypeOK
<1>10. Launched' /\ \A q \in Receiver : Open(q)' <=> Open(q)
  BY <1>3, <1>8 DEF IInv, Launched, Open, At
<1>11. /\ Account(fds', Open("udp")', Open("tcp")', accepted', leaked', wpc' = "opened", reload'.open)
       /\ fds' \in 0 .. Limit /\ accepted' \in Nat /\ leaked' \in Nat
  <2>1. /\ Limit \in Nat /\ fds \in 0 .. Limit /\ accepted \in 0 .. Limit /\ leaked \in 0 .. Limit
        /\ Account(fds, Open("udp"), Open("tcp"), accepted, leaked, wpc = "opened", reload.open)
    BY Numbers
  <2> QED
    BY <1>3, <1>10, <2>1 DEF Account, One, Receiver
<1>12. accepted' \in 0 .. Limit /\ leaked' \in 0 .. Limit
  <2>1. Limit \in Nat
    BY ReceiversAssumption
  <2> QED
    BY <1>11, <2>1, Bounds
<1>13. TypeOK'
  BY <1>3, <1>8, <1>9, <1>11, <1>12 DEF IInv, TypeOK, RecvState
<1>14. Ordered'
  BY <1>3, <1>7, <1>8, <1>9 DEF IInv, Ordered
<1> QED
  BY <1>10, <1>11, <1>13, <1>14, Accounting DEF IInv

(* A line of the message is handed to the cache.                            *)
LEMMA LineKeeps ==
  ASSUME IInv, NEW r \in Receiver, protocol_process_metric_line(r)
  PROVE  IInv'
<1> DEFINE h == handed[r]
           b == recv[r].buf
<1>1. /\ h \in Seq(Piece) /\ b \in Seq(Piece) /\ recv \in [Receiver -> RecvState]
      /\ InOrder(h, b, arrived[r], sent)
  BY LinesOf
<1>2. /\ b # <<>> /\ At(r, "lines")
      /\ handed' = [handed EXCEPT ![r] = Append(h, Head(b))]
      /\ recv' = [recv EXCEPT ![r].buf = Tail(b)]
      /\ UNCHANGED <<run, sent, arrived, sock, fds, accepted, leaked, wpc, reload, hups>>
  BY <1>1 DEF protocol_process_metric_line, RecvState, mainVars
<1> HIDE DEF h, b
<1>3. /\ Append(h, Head(b)) \in Seq(Piece) /\ Tail(b) \in Seq(Piece)
      /\ InOrder(Append(h, Head(b)), Tail(b), arrived[r], sent)
  BY <1>1, <1>2, LineMoves
<1>4. /\ recv' \in [Receiver -> RecvState]
      /\ recv'[r].pc = recv[r].pc /\ recv'[r].buf = Tail(b)
      /\ \A q \in Receiver : q # r => recv'[q] = recv[q]
  <2> DEFINE c == Tail(b)
  <2>1. c \in Seq(Piece) /\ recv' = [recv EXCEPT ![r].buf = c]
    BY <1>2, <1>3
  <2> HIDE DEF c
  <2>2. /\ recv' \in [Receiver -> RecvState]
        /\ recv'[r].pc = recv[r].pc /\ recv'[r].buf = c
        /\ \A q \in Receiver : q # r => recv'[q] = recv[q]
    BY <1>1, <2>1 DEF RecvState
  <2> QED
    BY <2>2 DEF c
<1>5. /\ handed' \in [Receiver -> Seq(Piece)] /\ handed'[r] = Append(h, Head(b))
      /\ \A q \in Receiver : q # r => handed'[q] = handed[q]
  BY <1>2, <1>3 DEF IInv, TypeOK
<1>6. TypeOK'
  BY <1>2, <1>4, <1>5 DEF IInv, TypeOK, RecvState
<1>7. \A q \in Receiver : recv'[q].pc = recv[q].pc
  BY <1>4
<1>8. Launched' /\ \A q \in Receiver : Open(q)' <=> Open(q)
  BY <1>2, <1>7 DEF IInv, Launched, Open, At
<1>9. DescriptorsAccounted'
  <2>1. Account(fds, Open("udp"), Open("tcp"), accepted, leaked, wpc = "opened", reload.open)
    BY Numbers
  <2> QED
    BY <1>2, <1>8, <2>1, Accounting DEF Account, One, Receiver
<1>10. Ordered'
  BY <1>2, <1>3, <1>4, <1>5 DEF IInv, Ordered
<1> QED
  BY <1>6, <1>8, <1>9, <1>10 DEF IInv

(* A client's lines are numbered on from the last one sent.                 *)
LEMMA SendKeeps ==
  ASSUME IInv, NEW r \in Receiver, NEW k \in 1 .. 2, send(r, k)
  PROVE  IInv'
<1> DEFINE a == arrived[r]
           m == [i \in 1 .. k |-> <<sent + i, TRUE>>]
<1>1. \A q \in Receiver :
        /\ handed[q] \in Seq(Piece) /\ recv[q].buf \in Seq(Piece)
        /\ arrived[q] \in Seq(Seq(Piece)) /\ InOrder(handed[q], recv[q].buf, arrived[q], sent)
  BY LinesOf
<1>2. /\ sent + k <= MaxLines /\ sent' = sent + k
      /\ arrived' = [arrived EXCEPT ![r] = Append(a, m)]
      /\ UNCHANGED <<run, sock, recv, handed, accepted, fds, leaked, wpc, reload, hups>>
  BY DEF send, mainVars
<1>3. sent \in Nat /\ k \in Nat /\ MaxLines \in Nat
  BY Numbers
<1>4. IsMessage(m, sent, k)
  BY DEF IsMessage
<1> HIDE DEF a, m
<1>5. m \in Seq(Piece) /\ Len(m) = k /\ \A i \in 1 .. k : LineNo(m[i]) = sent + i
  BY <1>2, <1>3, <1>4, MessageSent
<1>6. Append(a, m) \in Seq(Seq(Piece)) /\ InOrder(handed[r], recv[r].buf, Append(a, m), sent + k)
  BY <1>1, <1>2, <1>3, <1>5, MessageArrives DEF a
<1>7. \A q \in Receiver : InOrder(handed[q], recv[q].buf, arrived[q], sent + k)
  BY <1>1, <1>3, LaterStill
<1>8. /\ arrived' \in [Receiver -> Seq(Seq(Piece))] /\ arrived'[r] = Append(a, m)
      /\ \A q \in Receiver : q # r => arrived'[q] = arrived[q]
  BY <1>2, <1>6 DEF IInv, TypeOK
<1>9. TypeOK'
  BY <1>2, <1>3, <1>8 DEF IInv, TypeOK
<1>10. Launched' /\ \A q \in Receiver : Open(q)' <=> Open(q)
  BY <1>2 DEF IInv, Launched, Open, At
<1>11. DescriptorsAccounted'
  <2>1. Account(fds, Open("udp"), Open("tcp"), accepted, leaked, wpc = "opened", reload.open)
    BY Numbers
  <2> QED
    BY <1>2, <1>10, <2>1, Accounting DEF Account, One, Receiver
<1>12. Ordered'
  BY <1>2, <1>6, <1>7, <1>8 DEF Ordered
<1> QED
  BY <1>9, <1>10, <1>11, <1>12 DEF IInv

-----------------------------------------------------------------------------
(* The writer, the reloads and the signals                                  *)

(* What TypeOK says of the reloads.                                         *)
ReloadTypes ==
  /\ reload \in [file : {"none", "carbon", "schemas", "aggregation"}, open : BOOLEAN]
  /\ reload.open => reload.file # "none"
  /\ hups \in 0 .. MaxHup

(* A step of the writer, of main or of a signal handler leaves the          *)
(* receivers alone, and keeps the invariant if it accounts for the          *)
(* descriptors it takes and gives back.                                     *)
LEMMA OthersKeep ==
  ASSUME IInv, UNCHANGED sockVars
  PROVE  /\ (Open("udp")' <=> Open("udp")) /\ (Open("tcp")' <=> Open("tcp"))
         /\ /\ run' \in BOOLEAN /\ wpc' \in {"head", "open", "opened", "exited"} /\ ReloadTypes'
            /\ fds' \in 0 .. Limit /\ leaked' \in Nat
            /\ Account(fds', Open("udp"), Open("tcp"), accepted, leaked', wpc' = "opened", reload'.open)
            => IInv'
<1>1. UNCHANGED <<sent, arrived, sock, recv, handed, accepted>>
  BY DEF sockVars
<1>2. Launched' /\ \A q \in Receiver : Open(q)' <=> Open(q)
  BY <1>1 DEF IInv, Launched, Open, At
<1>3. Ordered'
  BY <1>1 DEF IInv, Ordered
<1>4. (Open("udp")' <=> Open("udp")) /\ (Open("tcp")' <=> Open("tcp"))
  BY <1>2 DEF Receiver
<1>5. ASSUME run' \in BOOLEAN, wpc' \in {"head", "open", "opened", "exited"}, ReloadTypes',
             fds' \in 0 .. Limit, leaked' \in Nat,
             Account(fds', Open("udp"), Open("tcp"), accepted, leaked', wpc' = "opened", reload'.open)
      PROVE  IInv'
  <2>1. leaked' \in 0 .. Limit
    <3>1. fds' \in Int /\ fds' <= Limit /\ accepted \in Nat
      BY <1>5, Numbers
    <3> QED
      BY <1>5, <3>1, Bounds
  <2>2. TypeOK'
    BY <1>1, <1>5, <2>1 DEF IInv, TypeOK, ReloadTypes
  <2>3. DescriptorsAccounted'
    <3>1. Account(fds', Open("udp")', Open("tcp")', accepted', leaked', wpc' = "opened", reload'.open)
      BY <1>1, <1>4, <1>5 DEF Account, One
    <3> QED
      BY <3>1, Accounting
  <2> QED
    BY <1>2, <1>3, <2>2, <2>3 DEF IInv
<1> QED
  BY <1>4, <1>5

(* The writer opens a file only with a descriptor left, closes the one it   *)
(* opened, and forgets it only to leave it open for good.                   *)
LEMMA WriteKeeps ==
  ASSUME IInv, Write
  PROVE  IInv'
<1>1. /\ Limit \in Nat /\ fds \in 0 .. Limit /\ accepted \in 0 .. Limit /\ leaked \in 0 .. Limit
      /\ Account(fds, Open("udp"), Open("tcp"), accepted, leaked, wpc = "opened", reload.open)
  BY Numbers
<1>2. UNCHANGED <<run, sockVars, reload, hups>> /\ run' \in BOOLEAN /\ ReloadTypes'
  <2>1. UNCHANGED <<run, sockVars, reload, hups>>
    BY DEF Write, writer_head, whisper_open, whisper_header_fails, whisper_close, mainVars
  <2> QED
    BY <2>1 DEF IInv, TypeOK, ReloadTypes
<1>3. /\ fds' \in 0 .. Limit /\ leaked' \in Nat
      /\ wpc' \in {"head", "open", "opened", "exited"}
      /\ Account(fds', Open("udp"), Open("tcp"), accepted, leaked', wpc' = "opened", reload'.open)
  <2>1. CASE writer_head
    BY <1>1, <1>2, <2>1 DEF writer_head, Account, One
  <2>2. CASE whisper_open
    BY <1>1, <1>2, <2>2 DEF whisper_open, Account, One
  <2>3. CASE whisper_header_fails
    BY <1>1, <1>2, <2>3 DEF whisper_header_fails, Account, One
  <2>4. CASE whisper_close
    BY <1>1, <1>2, <2>4 DEF whisper_close, Account, One
  <2> QED
    BY <2>1, <2>2, <2>3, <2>4 DEF Write
<1> QED
  BY <1>2, <1>3, OthersKeep

(* A reload gives back the descriptor of each file it read, unless it ends  *)
(* at an error in carbon.conf and leaves that file open for good.           *)
LEMMA ReloadKeeps ==
  ASSUME IInv, Reload \/ sighup_handler
  PROVE  IInv'
<1>1. /\ Limit \in Nat /\ fds \in 0 .. Limit /\ accepted \in 0 .. Limit /\ leaked \in 0 .. Limit
      /\ Account(fds, Open("udp"), Open("tcp"), accepted, leaked, wpc = "opened", reload.open)
  BY Numbers
<1>2. ReloadTypes /\ wpc \in {"head", "open", "opened", "exited"} /\ run \in BOOLEAN /\ MaxHup \in Nat
  BY ReceiversAssumption DEF IInv, TypeOK, ReloadTypes
<1>3. UNCHANGED <<run, sockVars, wpc>>
  BY DEF Reload, conf_fopen, carbon_file_error, conf_fclose, sighup_handler
<1>4. ReloadTypes'
  <2>1. CASE conf_fopen
    <3>1. /\ reload \in [file : {"none", "carbon", "schemas", "aggregation"}, open : BOOLEAN]
          /\ hups' \in 0 .. MaxHup /\ reload.file # "none"
          /\ reload' = [reload EXCEPT !.open = TRUE] \/ reload' = NoReload
      BY <1>2, <2>1 DEF conf_fopen, ReloadTypes
    <3>2. CASE reload' = [reload EXCEPT !.open = TRUE]
      BY <3>1, <3>2 DEF ReloadTypes
    <3>3. CASE reload' = NoReload
      BY <3>1, <3>3 DEF ReloadTypes, NoReload
    <3> QED
      BY <3>1, <3>2, <3>3
  <2>2. CASE carbon_file_error
    BY <1>2, <2>2 DEF carbon_file_error, ReloadTypes, NoReload
  <2>3. CASE conf_fclose
    BY <1>2, <2>3 DEF conf_fclose, ReloadTypes, FileAfter
  <2>4. CASE sighup_handler
    BY <1>2, <2>4 DEF sighup_handler, ReloadTypes
  <2> QED
    BY <2>1, <2>2, <2>3, <2>4 DEF Reload
<1>5. /\ fds' \in 0 .. Limit /\ leaked' \in Nat
      /\ Account(fds', Open("udp"), Open("tcp"), accepted, leaked', wpc' = "opened", reload'.open)
  <2>1. CASE conf_fopen
    BY <1>1, <1>2, <1>3, <2>1 DEF conf_fopen, ReloadTypes, NoReload, Account, One
  <2>2. CASE carbon_file_error
    BY <1>1, <1>3, <2>2 DEF carbon_file_error, NoReload, Account, One
  <2>3. CASE conf_fclose
    BY <1>1, <1>3, <2>3 DEF conf_fclose, Account, One
  <2>4. CASE sighup_handler
    BY <1>1, <1>3, <2>4 DEF sighup_handler, NoReload, Account, One
  <2> QED
    BY <2>1, <2>2, <2>3, <2>4 DEF Reload
<1>6. run' \in BOOLEAN /\ wpc' \in {"head", "open", "opened", "exited"}
  BY <1>2, <1>3
<1>7. UNCHANGED sockVars
  BY <1>3
<1> QED
  BY <1>4, <1>5, <1>6, <1>7, OthersKeep

(* SIGINT changes conf->run only, and so does no step at all.               *)
LEMMA SignalKeeps ==
  ASSUME IInv, sigint \/ UNCHANGED vars
  PROVE  IInv'
<1>1. UNCHANGED <<sockVars, fds, leaked, wpc, reload, hups>> /\ run' \in BOOLEAN
  <2>1. UNCHANGED <<sockVars, fds, leaked, wpc, reload, hups>>
    BY DEF sigint, vars, mainVars
  <2>2. run \in BOOLEAN /\ (run' = FALSE \/ run' = run)
    BY DEF sigint, vars, IInv, TypeOK
  <2> QED
    BY <2>1, <2>2
<1>2. Account(fds, Open("udp"), Open("tcp"), accepted, leaked, wpc = "opened", reload.open)
  BY Numbers
<1>3. /\ wpc' \in {"head", "open", "opened", "exited"} /\ ReloadTypes'
      /\ fds' \in 0 .. Limit /\ leaked' \in Nat
  BY <1>1 DEF IInv, TypeOK, ReloadTypes
<1>4. Account(fds', Open("udp"), Open("tcp"), accepted, leaked', wpc' = "opened", reload'.open)
  BY <1>1, <1>2 DEF Account, One
<1> QED
  BY <1>1, <1>3, <1>4, OthersKeep

-----------------------------------------------------------------------------
(* The theorems                                                             *)

(* No line and no descriptor at the start.                                  *)
LEMMA InitKeeps == Init => IInv
<1> SUFFICES ASSUME Init PROVE IInv
  OBVIOUS
<1>1. TypeOK
  BY ReceiversAssumption DEF Init, NoReload, TypeOK, Receiver
<1>2. Launched
  BY DEF Init, Launched, At
<1>3. DescriptorsAccounted
  <2>1. "udp" \in Receiver /\ "tcp" \in Receiver
    BY DEF Receiver
  <2>2. ~Open("udp") /\ ~Open("tcp")
    BY <2>1 DEF Init, Open
  <2> QED
    BY <2>2, Accounting DEF Init, NoReload, Account, One
<1>4. InOrder(<<>>, <<>>, <<>>, 0)
  BY DEF InOrder, Rising, Before, Upto
<1>5. Ordered
  BY <1>4 DEF Init, Ordered
<1> QED
  BY <1>1, <1>2, <1>3, <1>5 DEF IInv

(* Every step of the receivers, of the clients, of the writer and of a      *)
(* reload keeps the invariant.                                              *)
LEMMA NextKeeps == IInv /\ [Next]_vars => IInv'
<1> SUFFICES ASSUME IInv, [Next]_vars PROVE IInv'
  OBVIOUS
<1>1. ASSUME NEW r \in Receiver, Receive(r) PROVE IInv'
  <2>1. CASE launch_receiver(r)
    BY <2>1, LaunchKeeps
  <2>2. CASE receiver_head(r)
    BY <2>2, HeadKeeps
  <2>3. CASE nothing_received(r) \/ message_done(r)
    BY <2>3, RestKeeps
  <2>4. CASE protocol_process_metric_line(r)
    BY <2>4, LineKeeps
  <2>5. CASE udp_recvfrom
    BY <2>5, RecvfromKeeps
  <2>6. CASE tcp_accept
    BY <2>6, AcceptKeeps
  <2> QED
    BY <1>1, <2>1, <2>2, <2>3, <2>4, <2>5, <2>6 DEF Receive
<1>2. ASSUME NEW r \in Receiver, NEW k \in 1 .. 2, send(r, k) PROVE IInv'
  BY <1>2, SendKeeps
<1>3. CASE Write
  BY <1>3, WriteKeeps
<1>4. CASE Reload \/ sighup_handler
  BY <1>4, ReloadKeeps
<1>5. CASE sigint \/ UNCHANGED vars
  BY <1>5, SignalKeeps
<1> QED
  BY <1>1, <1>2, <1>3, <1>4, <1>5 DEF Next

(* The invariant holds of the receivers and the writer, whatever the limit, *)
(* the lines and the failures (receiver_udp.c, receiver_tcp.c, writer.c).   *)
THEOREM ReceiversInvariant == Spec => []IInv
<1> QED
  BY InitKeeps, NextKeeps, PTL DEF Spec

(* The variables keep their types, and the process never has more           *)
(* descriptors than RLIMIT_NOFILE, although connections are never closed.   *)
THEOREM ReceiversTypes == Spec => []TypeOK
<1>1. IInv => TypeOK
  BY DEF IInv
<1> QED
  BY <1>1, ReceiversInvariant, PTL

(* What was handed over, what is left of the message and what waits, laid   *)
(* out as Pending lays them out.                                            *)
LEMMA Laid ==
  ASSUME NEW h \in Seq(Piece), NEW b \in Seq(Piece), NEW a \in Seq(Seq(Piece)),
         NEW s, s = <<h, b>> \o a
  PROVE  /\ Len(a) \in Nat /\ Len(s) = Len(a) + 2 /\ s[1] = h /\ s[2] = b
         /\ \A k \in 1 .. Len(s) : k = 1 \/ k = 2 \/ (k - 2 \in 1 .. Len(a) /\ s[k] = a[k - 2])
<1>1. <<h, b>> \in Seq(Seq(Piece)) /\ Len(<<h, b>>) = 2 /\ <<h, b>>[1] = h /\ <<h, b>>[2] = b
  OBVIOUS
<1> QED
  BY <1>1, ConcatProperties

(* InOrder says the same of the pieces as ArrivalOrder of the whole.        *)
LEMMA OrderOfAll ==
  ASSUME NEW h \in Seq(Piece), NEW b \in Seq(Piece), NEW a \in Seq(Seq(Piece)), NEW n,
         NEW s, s = <<h, b>> \o a, InOrder(h, b, a, n)
  PROVE  \A k, l \in 1 .. Len(s) : (k < l => Before(s[k], s[l])) /\ Rising(s[k])
<1>1. /\ Len(a) \in Nat /\ Len(s) = Len(a) + 2 /\ s[1] = h /\ s[2] = b
      /\ \A k \in 1 .. Len(s) : k = 1 \/ k = 2 \/ (k - 2 \in 1 .. Len(a) /\ s[k] = a[k - 2])
  BY Laid
<1>2. /\ Rising(h) /\ Rising(b) /\ Before(h, b)
      /\ \A k \in 1 .. Len(a) : Rising(a[k]) /\ Before(h, a[k]) /\ Before(b, a[k])
      /\ \A k, l \in 1 .. Len(a) : k < l => Before(a[k], a[l])
  BY DEF InOrder
<1>3. ASSUME NEW k \in 1 .. Len(s) PROVE Rising(s[k])
  BY <1>1, <1>2
<1>4. ASSUME NEW k \in 1 .. Len(s), NEW l \in 1 .. Len(s), k < l PROVE Before(s[k], s[l])
  <2>1. k \in Int /\ l \in Int /\ 1 <= k
    BY <1>1
  <2>2. CASE k = 1
    BY <1>1, <1>2, <1>4, <2>1, <2>2
  <2>3. CASE k = 2
    BY <1>1, <1>2, <1>4, <2>1, <2>3
  <2>4. CASE k # 1 /\ k # 2
    <3>1. l # 1 /\ l # 2 /\ k - 2 < l - 2
      BY <1>4, <2>1, <2>4
    <3>2. k - 2 \in 1 .. Len(a) /\ s[k] = a[k - 2]
      BY <1>1, <2>4, Zenon
    <3>3. l - 2 \in 1 .. Len(a) /\ s[l] = a[l - 2]
      BY <1>1, <3>1, Zenon
    <3> QED
      BY <1>2, <3>1, <3>2, <3>3
  <2> QED
    BY <2>2, <2>3, <2>4
<1> QED
  BY <1>3, <1>4

(* The lines reach the cache in the order of arrival, none of them twice,   *)
(* for any number of lines and messages (protocol_process_metrics_multiline *)
(* and the receivers' loops).                                               *)
THEOREM OrderKept == Spec => []ArrivalOrder
<1>1. IInv => ArrivalOrder
  <2> SUFFICES ASSUME IInv, NEW r \in Receiver,
                      NEW k \in 1 .. Len(Pending(r)), NEW l \in 1 .. Len(Pending(r)),
                      NEW i \in 1 .. Len(Pending(r)[k]), NEW j \in 1 .. Len(Pending(r)[l]),
                      k < l \/ (k = l /\ i < j)
               PROVE  Pending(r)[k][i][1] < Pending(r)[l][j][1]
    BY DEF ArrivalOrder
  <2>1. /\ handed[r] \in Seq(Piece) /\ recv[r].buf \in Seq(Piece)
        /\ arrived[r] \in Seq(Seq(Piece))
        /\ InOrder(handed[r], recv[r].buf, arrived[r], sent)
    BY LinesOf
  <2>2. Pending(r) = <<handed[r], recv[r].buf>> \o arrived[r]
    BY DEF Pending
  <2>3. (k < l => Before(Pending(r)[k], Pending(r)[l])) /\ Rising(Pending(r)[k])
    BY <2>1, <2>2, OrderOfAll
  <2> QED
    BY <2>3 DEF Before, Rising, LineNo
<1> QED
  BY <1>1, ReceiversInvariant, PTL
=============================================================================
