----------------------------- MODULE ChannelProofs ----------------------------
(* A connection that carries any documents between any number of threads and  *)
(* one receiver.                                                              *)
EXTENDS Channel, TLAPS

AllDocs == UNION {Docs[w] : w \in Ways}

(* What goes over the wire: the bytes of a length, and lines of documents.    *)
LengthBytes == {<<"length", n, i>> : n \in Nat, i \in {1, 2}}
Items == LengthBytes \cup UNION {ToSet(Text[d]) : d \in AllDocs}

-----------------------------------------------------------------------------
(* Sequences cut and joined.                                                  *)
LEMMA Cut ==
  ASSUME NEW S, NEW s \in Seq(S), NEW m \in 1..Len(s) + 1, NEW n \in (m - 1)..Len(s)
  PROVE  /\ SubSeq(s, m, n) \in Seq(S)
         /\ Len(SubSeq(s, m, n)) = n - m + 1
         /\ \A k \in 1..(n - m + 1) : SubSeq(s, m, n)[k] = s[m + k - 1]
  OBVIOUS

LEMMA SplitAt ==
  ASSUME NEW S, NEW s \in Seq(S), NEW p \in 0..Len(s)
  PROVE  /\ SubSeq(s, 1, p) \in Seq(S) /\ Len(SubSeq(s, 1, p)) = p
         /\ \A k \in 1..p : SubSeq(s, 1, p)[k] = s[k]
         /\ SubSeq(s, p + 1, Len(s)) \in Seq(S)
         /\ Len(SubSeq(s, p + 1, Len(s))) = Len(s) - p
         /\ \A k \in 1..(Len(s) - p) : SubSeq(s, p + 1, Len(s))[k] = s[p + k]
<1>1. /\ 1 \in 1..Len(s) + 1 /\ p \in (1 - 1)..Len(s) /\ p - 1 + 1 = p
      /\ \A k \in 1..p : 1 + k - 1 = k
  OBVIOUS
<1>2. /\ p + 1 \in 1..Len(s) + 1 /\ Len(s) \in (p + 1 - 1)..Len(s)
      /\ Len(s) - (p + 1) + 1 = Len(s) - p
      /\ \A k \in 1..(Len(s) - p) : p + 1 + k - 1 = p + k
  OBVIOUS
<1>3. /\ SubSeq(s, 1, p) \in Seq(S) /\ Len(SubSeq(s, 1, p)) = p
      /\ \A k \in 1..p : SubSeq(s, 1, p)[k] = s[k]
  BY <1>1, Cut
<1>4. /\ SubSeq(s, p + 1, Len(s)) \in Seq(S)
      /\ Len(SubSeq(s, p + 1, Len(s))) = Len(s) - p
      /\ \A k \in 1..(Len(s) - p) : SubSeq(s, p + 1, Len(s))[k] = s[p + k]
  <2> DEFINE m == p + 1
             n == Len(s)
  <2>1. m \in 1..Len(s) + 1 /\ n \in (m - 1)..Len(s) /\ n - m + 1 = n - p
        /\ \A k \in 1..(n - p) : m + k - 1 = p + k
    BY <1>2
  <2> HIDE DEF m, n
  <2>2. /\ SubSeq(s, m, n) \in Seq(S) /\ Len(SubSeq(s, m, n)) = n - m + 1
        /\ \A k \in 1..(n - m + 1) : SubSeq(s, m, n)[k] = s[m + k - 1]
    BY <2>1, Cut
  <2>3. /\ SubSeq(s, m, n) \in Seq(S) /\ Len(SubSeq(s, m, n)) = n - p
        /\ \A k \in 1..(n - p) : SubSeq(s, m, n)[k] = s[p + k]
    BY <2>1, <2>2
  <2> QED BY <2>3 DEF m, n
<1> QED BY <1>3, <1>4

LEMMA Joined ==
  ASSUME NEW S, NEW s \in Seq(S), NEW t \in Seq(S)
  PROVE  /\ s \o t \in Seq(S)
         /\ Len(s \o t) = Len(s) + Len(t)
         /\ \A k \in 1..Len(s) : (s \o t)[k] = s[k]
         /\ \A k \in 1..Len(t) : (s \o t)[Len(s) + k] = t[k]
<1>1. /\ s \o t \in Seq(S) /\ Len(s \o t) = Len(s) + Len(t)
      /\ Len(s) \in Nat /\ Len(t) \in Nat
  OBVIOUS
<1>2. \A k \in 1..(Len(s) + Len(t)) :
        (s \o t)[k] = IF k <= Len(s) THEN s[k] ELSE t[k - Len(s)]
  OBVIOUS
<1>3. ASSUME NEW k \in 1..Len(s)
      PROVE  (s \o t)[k] = s[k]
  BY <1>1, <1>2
<1>4. ASSUME NEW k \in 1..Len(t)
      PROVE  (s \o t)[Len(s) + k] = t[k]
  <2>1. /\ Len(s) + k \in 1..(Len(s) + Len(t)) /\ ~(Len(s) + k <= Len(s))
        /\ Len(s) + k - Len(s) = k
    BY <1>1
  <2> QED BY <1>2, <2>1
<1> QED BY <1>1, <1>3, <1>4

LEMMA SameSequence ==
  ASSUME NEW S, NEW s \in Seq(S), NEW T, NEW t \in Seq(T), Len(s) = Len(t),
         \A k \in 1..Len(s) : s[k] = t[k]
  PROVE  s = t
  OBVIOUS

(* What is sent for a document: its length, then its lines.                   *)
LEMMA FrameOf ==
  ASSUME NEW d \in AllDocs
  PROVE  /\ Len(Text[d]) \in Nat /\ Len(Text[d]) >= 1
         /\ Text[d] \in Seq(Items)
         /\ Frame(d) \in Seq(Items)
         /\ Len(Frame(d)) = 2 + Len(Text[d])
         /\ Frame(d)[1] = <<"length", Len(Text[d]), 1>>
         /\ \A k \in 1..Len(Text[d]) : Frame(d)[2 + k] = Text[d][k]
<1> DEFINE len == Length(Len(Text[d]))
<1>1. Text[d] # <<>> /\ Text[d] \in Seq(ToSet(Text[d]))
  BY DocsAssumption DEF AllDocs
<1>2. Len(Text[d]) \in Nat /\ Len(Text[d]) >= 1
  BY <1>1
<1>3. Text[d] \in Seq(Items)
  <2>1. ToSet(Text[d]) \subseteq Items
    BY DEF Items
  <2> HIDE DEF Items
  <2> QED BY <1>1, <2>1
<1>4. len \in Seq(Items) /\ Len(len) = 2 /\ len[1] = <<"length", Len(Text[d]), 1>>
  <2>1. /\ <<"length", Len(Text[d]), 1>> \in Items
        /\ <<"length", Len(Text[d]), 2>> \in Items
    BY <1>2 DEF Items, LengthBytes
  <2> HIDE DEF Items
  <2> QED BY <2>1 DEF Length
<1> HIDE DEF len, Items
<1>5. Frame(d) = len \o Text[d]
  BY DEF Frame, len
<1>6. /\ Frame(d) \in Seq(Items) /\ Len(Frame(d)) = 2 + Len(Text[d])
      /\ \A k \in 1..2 : Frame(d)[k] = len[k]
      /\ \A k \in 1..Len(Text[d]) : Frame(d)[2 + k] = Text[d][k]
  <2>1. /\ len \o Text[d] \in Seq(Items)
        /\ Len(len \o Text[d]) = Len(len) + Len(Text[d])
        /\ \A k \in 1..Len(len) : (len \o Text[d])[k] = len[k]
        /\ \A k \in 1..Len(Text[d]) : (len \o Text[d])[Len(len) + k] = Text[d][k]
    <3> DEFINE body == Text[d]
    <3>1. len \in Seq(Items) /\ body \in Seq(Items)
      BY <1>3, <1>4
    <3> HIDE DEF body
    <3>2. /\ len \o body \in Seq(Items)
          /\ Len(len \o body) = Len(len) + Len(body)
          /\ \A k \in 1..Len(len) : (len \o body)[k] = len[k]
          /\ \A k \in 1..Len(body) : (len \o body)[Len(len) + k] = body[k]
      BY <3>1, Joined
    <3> QED BY <3>2 DEF body
  <2> QED BY <1>4, <1>5, <2>1
<1> QED BY <1>2, <1>3, <1>4, <1>6

-----------------------------------------------------------------------------
(* The stream of everything that was handed to SendMsg: document i of sent    *)
(* begins behind position at[i] of it.                                        *)
Stream(docs, all, at) ==
  /\ all \in Seq(Items)
  /\ at \in [1..(Len(docs) + 1) -> Nat]
  /\ at[Len(docs) + 1] = Len(all)
  /\ \A i \in 1..(Len(docs) + 1) : at[i] <= Len(all)
  /\ \A i \in 1..Len(docs) :
       /\ at[i + 1] = at[i] + Len(Frame(docs[i]))
       /\ \A j \in 1..Len(Frame(docs[i])) : all[at[i] + j] = Frame(docs[i])[j]

(* Behind position c of it come the buffer of the receiver and the wire, ...  *)
UnderWay(all, c, b, w) ==
  /\ c \in Nat
  /\ c + Len(b) + Len(w) <= Len(all)
  /\ \A j \in 1..Len(b) : b[j] = all[c + j]
  /\ \A j \in 1..Len(w) : w[j] = all[c + Len(b) + j]

(* ... and then what a thread has not sent yet, as long as the connection     *)
(* stands. Only one thread is sending.                                        *)
Ends(all, n, s) == n + Len(s) = Len(all) /\ \A j \in 1..Len(s) : s[j] = all[n + j]

LeftOver(all, n, h) ==
  /\ \A t \in Threads : h[t] # <<>> => Ends(all, n, h[t])
  /\ (\A t \in Threads : h[t] = <<>>) => n = Len(all)

OneSender(h) == \A t, u \in Threads : h[t] # <<>> /\ h[u] # <<>> => t = u

ChannelTypes == /\ way \in Ways
                /\ hand \in [Threads -> Seq(Items)]
                /\ wire \in Seq(Items)
                /\ alive \in BOOLEAN
                /\ buf \in Seq(Items)
                /\ sent \in Seq(AllDocs)
                /\ got \in Seq(Seq(Items))
                /\ mixed \in BOOLEAN

Told == /\ OneSender(hand)
        /\ Len(got) <= Len(sent)
        /\ \A i \in 1..Len(got) : got[i] = Text[sent[i]]
        /\ \E all, at : /\ Stream(sent, all, at)
                        /\ UnderWay(all, at[Len(got) + 1], buf, wire)
                        /\ alive => LeftOver(all, at[Len(got) + 1] + Len(buf) + Len(wire), hand)

ChannelInv == ChannelTypes /\ (~mixed => Told)

-----------------------------------------------------------------------------
(* SendMsg.                                                                   *)
LEMMA StreamGrows ==
  ASSUME NEW docs \in Seq(AllDocs), NEW all, NEW at, Stream(docs, all, at),
         NEW d \in AllDocs
  PROVE  \E at2 : /\ Stream(Append(docs, d), all \o Frame(d), at2)
                  /\ \A i \in 1..(Len(docs) + 1) : at2[i] = at[i]
<1> DEFINE n == Len(docs)
           f == Frame(d)
           more == Append(docs, d)
           at2 == [i \in 1..(n + 2) |-> IF i = n + 2 THEN Len(all) + Len(f) ELSE at[i]]
<1>1. n \in Nat /\ Len(more) = n + 1 /\ \A i \in 1..n : more[i] = docs[i]
  OBVIOUS
<1>2. more[n + 1] = d
  OBVIOUS
<1>3. all \in Seq(Items) /\ Len(all) \in Nat
  BY DEF Stream
<1>4. f \in Seq(Items) /\ Len(f) \in Nat
  BY FrameOf
<1> HIDE DEF f, more, n
<1>5. /\ all \o f \in Seq(Items) /\ Len(all \o f) = Len(all) + Len(f)
      /\ \A k \in 1..Len(all) : (all \o f)[k] = all[k]
      /\ \A k \in 1..Len(f) : (all \o f)[Len(all) + k] = f[k]
  BY <1>3, <1>4, Joined
<1>6. /\ at \in [1..(n + 1) -> Nat] /\ at[n + 1] = Len(all)
      /\ \A i \in 1..(n + 1) : at[i] <= Len(all)
      /\ \A i \in 1..n : /\ at[i + 1] = at[i] + Len(Frame(docs[i]))
                         /\ \A j \in 1..Len(Frame(docs[i])) : all[at[i] + j] = Frame(docs[i])[j]
  BY DEF Stream, n
<1>7. /\ at2 \in [1..(n + 2) -> Nat] /\ at2[n + 2] = Len(all) + Len(f)
      /\ \A i \in 1..(n + 1) : at2[i] = at[i]
      /\ \A i \in 1..(n + 2) : at2[i] <= Len(all) + Len(f)
  BY <1>1, <1>3, <1>4, <1>6
<1> HIDE DEF at2
<1>8. ASSUME NEW i \in 1..(n + 1)
      PROVE  /\ at2[i + 1] = at2[i] + Len(Frame(more[i]))
             /\ \A j \in 1..Len(Frame(more[i])) : (all \o f)[at2[i] + j] = Frame(more[i])[j]
  <2>1. CASE i = n + 1
    <3>1. Frame(more[i]) = f /\ at2[i] = Len(all) /\ at2[i + 1] = Len(all) + Len(f)
      BY <1>1, <1>2, <1>6, <1>7, <2>1 DEF f
    <3> QED BY <1>5, <3>1
  <2>2. CASE i # n + 1
    <3>1. i \in 1..n /\ more[i] = docs[i] /\ i + 1 \in 1..(n + 1) /\ i \in 1..(n + 1)
      BY <1>1, <2>2
    <3>2. DEFINE g == Frame(docs[i])
    <3>3. at2[i + 1] = at[i] + Len(g) /\ at2[i] = at[i] /\ Frame(more[i]) = g
      BY <1>6, <1>7, <3>1
    <3>4. Len(g) \in Nat
      <4>1. docs[i] \in AllDocs
        BY <3>1 DEF n
      <4> QED BY <4>1, FrameOf
    <3>5. at[i] \in Nat /\ at[i] + Len(g) <= Len(all)
      BY <1>6, <3>1
    <3>6. \A j \in 1..Len(g) : all[at[i] + j] = g[j]
      BY <1>6, <3>1
    <3> HIDE DEF g
    <3>7. \A j \in 1..Len(g) : at[i] + j \in 1..Len(all)
      BY <1>3, <3>4, <3>5
    <3> QED BY <1>5, <3>3, <3>6, <3>7
  <2> QED BY <2>1, <2>2
<1>9. Stream(more, all \o f, at2)
  <2>1. Len(more) + 1 = n + 2
    BY <1>1
  <2> QED BY <1>1, <1>5, <1>7, <1>8, <2>1 DEF Stream
<1> QED BY <1>7, <1>9 DEF more, f, n

LEMMA SendKeepsTypes ==
  ASSUME ChannelTypes, NEW t \in Threads, NEW d \in Docs[way], SendMsg(t, d)
  PROVE  /\ ChannelTypes'
         /\ d \in AllDocs /\ FirstPiece \in 1..Len(Frame(d))
         /\ SubSeq(Frame(d), 1, FirstPiece) \in Seq(Items)
         /\ SubSeq(Frame(d), FirstPiece + 1, Len(Frame(d))) \in Seq(Items)
<1>1. d \in AllDocs
  BY DEF ChannelTypes, AllDocs
<1>2. FirstPiece \in 1..Len(Frame(d)) /\ Frame(d) \in Seq(Items) /\ Len(Frame(d)) \in Nat
  BY <1>1, FrameOf DEF FirstPiece
<1>3. /\ SubSeq(Frame(d), 1, FirstPiece) \in Seq(Items)
      /\ SubSeq(Frame(d), FirstPiece + 1, Len(Frame(d))) \in Seq(Items)
  <2> DEFINE f == Frame(d)
             p == FirstPiece
  <2>1. p \in 1..Len(f) /\ f \in Seq(Items) /\ Len(f) \in Nat
    BY <1>2
  <2> HIDE DEF f, p
  <2>2. SubSeq(f, 1, p) \in Seq(Items) /\ SubSeq(f, p + 1, Len(f)) \in Seq(Items)
    BY <2>1, SplitAt
  <2> QED BY <2>2 DEF f, p
<1> HIDE DEF Items
<1>4. wire' \in Seq(Items) /\ hand' \in [Threads -> Seq(Items)] /\ sent' \in Seq(AllDocs)
  <2> DEFINE x == SubSeq(Frame(d), 1, FirstPiece)
             y == SubSeq(Frame(d), FirstPiece + 1, Len(Frame(d)))
  <2>1. wire' = wire \o x /\ hand' = [hand EXCEPT ![t] = y] /\ sent' = Append(sent, d)
    BY DEF SendMsg
  <2>2. x \in Seq(Items) /\ y \in Seq(Items)
    BY <1>3
  <2> HIDE DEF x, y, AllDocs
  <2>3. wire \in Seq(Items) /\ hand \in [Threads -> Seq(Items)] /\ sent \in Seq(AllDocs)
    BY DEF ChannelTypes
  <2> QED BY ONLY <1>1, <2>1, <2>2, <2>3
<1> QED BY <1>1, <1>2, <1>3, <1>4 DEF SendMsg, ChannelTypes

(* The parts of Told for given witnesses.                                     *)
ToldBy(all, at) ==
  /\ Stream(sent, all, at)
  /\ UnderWay(all, at[Len(got) + 1], buf, wire)
  /\ alive => LeftOver(all, at[Len(got) + 1] + Len(buf) + Len(wire), hand)

(* More of what is left over is put on the wire.                              *)
LEMMA WireGrows ==
  ASSUME NEW all \in Seq(Items), NEW c \in Nat, NEW b \in Seq(Items), NEW w \in Seq(Items),
         NEW h \in Seq(Items), NEW p \in 0..Len(h),
         UnderWay(all, c, b, w), Ends(all, c + Len(b) + Len(w), h)
  PROVE  LET w2 == w \o SubSeq(h, 1, p)
         IN  /\ UnderWay(all, c, b, w2)
             /\ Ends(all, c + Len(b) + Len(w2), SubSeq(h, p + 1, Len(h)))
<1> DEFINE x == SubSeq(h, 1, p)
           h2 == SubSeq(h, p + 1, Len(h))
           w2 == w \o x
           n == c + Len(b) + Len(w)
<1>1. /\ x \in Seq(Items) /\ Len(x) = p /\ \A k \in 1..p : x[k] = h[k]
      /\ h2 \in Seq(Items) /\ Len(h2) = Len(h) - p
      /\ \A k \in 1..(Len(h) - p) : h2[k] = h[p + k]
  BY SplitAt
<1>2. /\ Len(all) \in Nat /\ Len(b) \in Nat /\ Len(w) \in Nat /\ Len(h) \in Nat /\ p \in Nat
      /\ p <= Len(h) /\ n \in Nat
  OBVIOUS
<1> HIDE DEF x, h2, Items
<1>3. /\ w2 \in Seq(Items) /\ Len(w2) = Len(w) + Len(x)
      /\ \A k \in 1..Len(w) : w2[k] = w[k]
      /\ \A k \in 1..Len(x) : w2[Len(w) + k] = x[k]
  <2>1. w \in Seq(Items) /\ x \in Seq(Items)
    BY <1>1
  <2> QED BY ONLY <2>1, Joined
<1> HIDE DEF w2
<1>4. n + Len(h) = Len(all) /\ \A j \in 1..Len(h) : h[j] = all[n + j]
  BY DEF Ends
<1>5. c + Len(b) + Len(w2) = n + p
  BY <1>1, <1>2, <1>3
<1>6. ASSUME NEW j \in 1..Len(w2)
      PROVE  w2[j] = all[c + Len(b) + j]
  <2>1. CASE j <= Len(w)
    <3>1. j \in 1..Len(w)
      BY <1>2, <1>3, <2>1
    <3> QED BY <1>3, <3>1 DEF UnderWay
  <2>2. CASE ~(j <= Len(w))
    <3> DEFINE k == j - Len(w)
    <3>1. k \in 1..p /\ k \in 1..Len(h) /\ j = Len(w) + k
      BY <1>1, <1>2, <1>3, <2>2
    <3>2. n + k = c + Len(b) + j
      BY <1>2
    <3> HIDE DEF k
    <3>3. w2[j] = h[k]
      BY <1>1, <1>3, <3>1
    <3> HIDE DEF n
    <3> QED BY <1>4, <3>1, <3>2, <3>3
  <2> QED BY <2>1, <2>2
<1> HIDE DEF n
<1>7. ASSUME NEW j \in 1..Len(h2)
      PROVE  h2[j] = all[n + p + j]
  <2>1. h2[j] = h[p + j]
    BY ONLY <1>1, j \in 1..Len(h2)
  <2>2. j \in 1..(Len(h) - p)
    BY ONLY <1>1, j \in 1..Len(h2)
  <2>3. p + j \in 1..Len(h) /\ n + (p + j) = n + p + j
    BY ONLY <1>2, <2>2
  <2> DEFINE i == p + j
  <2>4. h2[j] = h[i] /\ i \in 1..Len(h) /\ n + i = n + p + j
    BY <2>1, <2>3
  <2> HIDE DEF i
  <2>5. h[i] = all[n + i]
    BY ONLY <1>4, <2>4
  <2>6. all[n + i] = all[n + p + j]
    BY ONLY <2>4
  <2> QED BY ONLY <2>4, <2>5, <2>6
<1>8. n + p + Len(h2) = Len(all)
  <2> DEFINE a == Len(h2)
             m == Len(h)
             l == Len(all)
  <2>1. a = m - p /\ n + m = l /\ m \in Nat /\ p \in Nat /\ n \in Nat
    BY <1>1, <1>2, <1>4
  <2> HIDE DEF a, m, l
  <2>2. n + p + a = l
    BY ONLY <2>1
  <2> QED BY <2>2 DEF a, l
<1>9. UnderWay(all, c, b, w2)
  <2>1. c + Len(b) + Len(w2) <= Len(all)
    BY <1>2, <1>4, <1>5
  <2> QED BY <1>6, <2>1 DEF UnderWay
<1>10. Ends(all, c + Len(b) + Len(w2), h2)
  <2> DEFINE m == n + p
  <2>1. /\ m + Len(h2) = Len(all) /\ \A j \in 1..Len(h2) : h2[j] = all[m + j]
        /\ c + Len(b) + Len(w2) = m
    BY <1>5, <1>7, <1>8
  <2> HIDE DEF m
  <2>2. Ends(all, m, h2)
    BY ONLY <2>1 DEF Ends
  <2> QED BY ONLY <2>1, <2>2
<1> QED BY <1>9, <1>10 DEF w2, h2, x

(* What is under way stays where it is when documents follow.                 *)
LEMMA StreamFollowed ==
  ASSUME NEW all \in Seq(Items), NEW f \in Seq(Items), NEW c, NEW b \in Seq(Items),
         NEW w \in Seq(Items), UnderWay(all, c, b, w)
  PROVE  UnderWay(all \o f, c, b, w)
<1>1. /\ all \o f \in Seq(Items) /\ Len(all \o f) = Len(all) + Len(f)
      /\ \A k \in 1..Len(all) : (all \o f)[k] = all[k]
  BY Joined
<1>2. Len(all) \in Nat /\ Len(f) \in Nat /\ Len(b) \in Nat /\ Len(w) \in Nat
  OBVIOUS
<1> HIDE DEF Items
<1>3. \A j \in 1..Len(b) : c + j \in 1..Len(all)
  BY <1>2 DEF UnderWay
<1>4. \A j \in 1..Len(w) : c + Len(b) + j \in 1..Len(all)
  BY <1>2 DEF UnderWay
<1> QED BY <1>1, <1>2, <1>3, <1>4 DEF UnderWay

LEMMA SendKeepsTold ==
  ASSUME ChannelTypes, Told, NEW t \in Threads, NEW d \in Docs[way], SendMsg(t, d), ~mixed'
  PROVE  Told'
<1> DEFINE f == Frame(d)
           p == FirstPiece
           c(at) == at[Len(got) + 1]
<1>1. d \in AllDocs /\ p \in 1..Len(f) /\ f \in Seq(Items) /\ Len(f) \in Nat
  BY SendKeepsTypes, FrameOf
<1>2. PICK all, at : ToldBy(all, at)
  BY DEF Told, ToldBy
<1>3. /\ \A u \in Threads : hand[u] = <<>>
      /\ wire' = wire \o SubSeq(f, 1, p)
      /\ hand' = [hand EXCEPT ![t] = SubSeq(f, p + 1, Len(f))]
      /\ sent' = Append(sent, d)
      /\ alive /\ alive' /\ buf' = buf /\ got' = got
  BY DEF SendMsg
<1>4. PICK at2 : /\ Stream(Append(sent, d), all \o f, at2)
                 /\ \A i \in 1..(Len(sent) + 1) : at2[i] = at[i]
  BY <1>1, <1>2, StreamGrows DEF ToldBy, ChannelTypes
<1>5. /\ Len(got) + 1 \in 1..(Len(sent) + 1) /\ c(at2) = c(at) /\ c(at) \in Nat
      /\ Len(sent') = Len(sent) + 1 /\ Len(got) <= Len(sent')
      /\ \A i \in 1..Len(got) : sent'[i] = sent[i]
  <2>1. /\ Len(got) \in Nat /\ Len(sent) \in Nat /\ Len(got) <= Len(sent)
        /\ Len(Append(sent, d)) = Len(sent) + 1
        /\ \A i \in 1..Len(sent) : Append(sent, d)[i] = sent[i]
    BY DEF Told, ChannelTypes
  <2>2. c(at) \in Nat
    BY <1>2, <2>1 DEF ToldBy, UnderWay
  <2> QED BY <1>3, <1>4, <2>1, <2>2
<1>6. all \in Seq(Items) /\ buf \in Seq(Items) /\ wire \in Seq(Items)
  BY <1>2 DEF ToldBy, Stream, ChannelTypes
<1>7. /\ UnderWay(all, c(at), buf, wire)
      /\ c(at) + Len(buf) + Len(wire) = Len(all)
  BY <1>2, <1>3 DEF ToldBy, LeftOver
<1> HIDE DEF f, p, c, Items
<1>8. /\ all \o f \in Seq(Items) /\ Len(all \o f) = Len(all) + Len(f)
      /\ \A k \in 1..Len(f) : (all \o f)[Len(all) + k] = f[k]
  BY <1>1, <1>6, Joined
<1>9. UnderWay(all \o f, c(at), buf, wire)
  BY <1>1, <1>6, <1>7, StreamFollowed
<1>10. Ends(all \o f, c(at) + Len(buf) + Len(wire), f)
  <2>1. c(at) + Len(buf) + Len(wire) + Len(f) = Len(all \o f)
    BY <1>7, <1>8
  <2>2. \A j \in 1..Len(f) : f[j] = (all \o f)[c(at) + Len(buf) + Len(wire) + j]
    BY <1>7, <1>8
  <2> QED BY <2>1, <2>2 DEF Ends
<1> DEFINE more == all \o f
           cc == c(at)
           n == cc + Len(buf) + Len(wire')
           rest == SubSeq(f, p + 1, Len(f))
<1>11. p \in 0..Len(f) /\ more \in Seq(Items) /\ cc \in Nat
  BY <1>1, <1>5, <1>8
<1>12. UnderWay(more, cc, buf, wire') /\ Ends(more, n, rest)
  <2>1. UnderWay(more, cc, buf, wire) /\ Ends(more, cc + Len(buf) + Len(wire), f)
    BY <1>9, <1>10
  <2> HIDE DEF more, cc
  <2> QED BY <1>1, <1>3, <1>6, <1>11, <2>1, WireGrows
<1>13. \A u \in Threads : hand'[u] = IF u = t THEN rest ELSE <<>>
  BY <1>3 DEF ChannelTypes
<1>14. OneSender(hand')
  BY <1>13 DEF OneSender
<1>15. LeftOver(more, n, hand')
  <2>1. ASSUME \A u \in Threads : hand'[u] = <<>>
        PROVE  n = Len(more)
    <3>1. rest = <<>>
      BY <1>13, <2>1
    <3>2. n \in Int
      <4>1. wire' \in Seq(Items)
        BY SendKeepsTypes DEF ChannelTypes
      <4> QED BY <1>6, <1>11, <4>1
    <3> HIDE DEF more, n, rest
    <3>3. n + Len(<<>>) = Len(more)
      BY <1>12, <3>1 DEF Ends
    <3> QED BY <3>2, <3>3
  <2> HIDE DEF more, n, rest
  <2> QED BY <1>12, <1>13, <2>1 DEF LeftOver
<1>16. \A i \in 1..Len(got) : got[i] = Text[sent'[i]]
  BY <1>5 DEF Told
<1>17. Stream(sent', all \o f, at2)
  BY <1>3, <1>4
<1>18. /\ UnderWay(all \o f, at2[Len(got') + 1], buf', wire')
       /\ LeftOver(all \o f, at2[Len(got') + 1] + Len(buf') + Len(wire'), hand')
  BY <1>3, <1>5, <1>12, <1>15 DEF c
<1> HIDE DEF more, cc, n, rest
<1> QED BY <1>3, <1>5, <1>14, <1>16, <1>17, <1>18 DEF Told

-----------------------------------------------------------------------------
(* SendRest.                                                                  *)
LEMMA RestKeepsTypes ==
  ASSUME ChannelTypes, NEW t \in Threads, SendRest(t)
  PROVE  /\ ChannelTypes'
         /\ hand[t] \in Seq(Items) /\ NextPiece(hand[t]) \in 0..Len(hand[t])
         /\ hand'[t] = SubSeq(hand[t], NextPiece(hand[t]) + 1, Len(hand[t]))
<1> DEFINE h == hand[t]
           p == NextPiece(h)
<1>1. h \in Seq(Items) /\ h # <<>> /\ Len(h) \in Nat
  BY DEF ChannelTypes, SendRest
<1>2. p \in 0..Len(h)
  <2>1. Len(h) >= 1
    BY <1>1
  <2> HIDE DEF h
  <2> QED BY <1>1, <2>1 DEF NextPiece
<1>3. SubSeq(h, 1, p) \in Seq(Items) /\ SubSeq(h, p + 1, Len(h)) \in Seq(Items)
  <2> HIDE DEF h, p
  <2> QED BY <1>1, <1>2, SplitAt
<1>4. /\ wire' = IF alive THEN wire \o SubSeq(h, 1, p) ELSE wire
      /\ hand' = [hand EXCEPT ![t] = SubSeq(h, p + 1, Len(h))]
      /\ UNCHANGED <<way, alive, buf, sent, got, ended, mixed>>
  BY DEF SendRest
<1> HIDE DEF p, Items
<1>5. wire' \in Seq(Items) /\ hand' \in [Threads -> Seq(Items)]
  BY <1>3, <1>4 DEF ChannelTypes
<1>6. hand'[t] = SubSeq(h, p + 1, Len(h))
  BY <1>4 DEF ChannelTypes
<1>7. ChannelTypes'
  BY <1>4, <1>5 DEF ChannelTypes
<1> QED BY <1>1, <1>2, <1>6, <1>7 DEF p

LEMMA RestKeepsTold ==
  ASSUME ChannelTypes, Told, NEW t \in Threads, SendRest(t)
  PROVE  Told'
<1> DEFINE h == hand[t]
           p == NextPiece(h)
           h2 == SubSeq(h, p + 1, Len(h))
<1>1. h \in Seq(Items) /\ p \in 0..Len(h) /\ hand'[t] = h2 /\ h # <<>>
  BY RestKeepsTypes DEF SendRest
<1>2. PICK all, at : ToldBy(all, at)
  BY DEF Told, ToldBy
<1>3. /\ wire' = IF alive THEN wire \o SubSeq(h, 1, p) ELSE wire
      /\ alive' = alive /\ buf' = buf /\ sent' = sent /\ got' = got
      /\ \A u \in Threads \ {t} : hand'[u] = hand[u]
  BY DEF SendRest, ChannelTypes
<1> DEFINE c == at[Len(got) + 1]
           n == c + Len(buf) + Len(wire)
           n2 == c + Len(buf) + Len(wire')
<1>4. all \in Seq(Items) /\ buf \in Seq(Items) /\ wire \in Seq(Items) /\ c \in Nat
  BY <1>2 DEF ToldBy, Stream, UnderWay, ChannelTypes
<1>5. UnderWay(all, c, buf, wire)
  BY <1>2 DEF ToldBy
<1>6. \A u \in Threads \ {t} : hand'[u] = <<>>
  BY <1>1, <1>3 DEF Told, OneSender
<1>7. OneSender(hand')
  BY <1>6 DEF OneSender
<1>8. CASE alive
  <2>1. Ends(all, n, h)
    BY <1>1, <1>2, <1>8 DEF ToldBy, LeftOver
  <2>2. UnderWay(all, c, buf, wire') /\ Ends(all, n2, h2)
    <3>1. wire' = wire \o SubSeq(h, 1, p)
      BY <1>3, <1>8
    <3> HIDE DEF c, h, p, Items
    <3> QED BY <1>1, <1>4, <1>5, <2>1, <3>1, WireGrows
  <2>3. LeftOver(all, n2, hand')
    <3>1. ASSUME \A u \in Threads : hand'[u] = <<>>
          PROVE  n2 = Len(all)
      <4>1. h2 = <<>>
        BY <1>1, <3>1
      <4>2. n2 \in Int
        <5>1. wire' \in Seq(Items)
          BY RestKeepsTypes DEF ChannelTypes
        <5> QED BY <1>4, <5>1
      <4> HIDE DEF n2, h2
      <4>3. n2 + Len(<<>>) = Len(all)
        BY <2>2, <4>1 DEF Ends
      <4> QED BY <4>2, <4>3
    <3> HIDE DEF n2, h2
    <3> QED BY <1>1, <1>6, <2>2, <3>1 DEF LeftOver
  <2> QED BY <1>2, <1>3, <1>7, <2>2, <2>3 DEF Told, ToldBy
<1>9. CASE ~alive
  BY <1>2, <1>3, <1>5, <1>7, <1>9 DEF Told, ToldBy
<1> QED BY <1>8, <1>9

-----------------------------------------------------------------------------
(* The receiver.                                                              *)
LEMMA RecvKeeps ==
  ASSUME ChannelTypes, NEW k \in 1..Len(wire), Recv(k)
  PROVE  ChannelTypes' /\ (Told => Told')
<1> DEFINE x == SubSeq(wire, 1, k)
           w2 == SubSeq(wire, k + 1, Len(wire))
           b2 == buf \o x
<1>1. wire \in Seq(Items) /\ buf \in Seq(Items) /\ Len(wire) \in Nat /\ Len(buf) \in Nat
  BY DEF ChannelTypes
<1>2. /\ x \in Seq(Items) /\ Len(x) = k /\ \A j \in 1..k : x[j] = wire[j]
      /\ w2 \in Seq(Items) /\ Len(w2) = Len(wire) - k
      /\ \A j \in 1..(Len(wire) - k) : w2[j] = wire[k + j]
  <2>1. k \in 0..Len(wire)
    BY <1>1
  <2> QED BY <1>1, <2>1, SplitAt
<1>3. /\ wire' = w2 /\ buf' = b2 /\ UNCHANGED <<way, hand, alive, sent, got, ended, mixed>>
  BY DEF Recv
<1> HIDE DEF x, w2, Items
<1>4. /\ b2 \in Seq(Items) /\ Len(b2) = Len(buf) + Len(x)
      /\ \A j \in 1..Len(buf) : b2[j] = buf[j]
      /\ \A j \in 1..Len(x) : b2[Len(buf) + j] = x[j]
  BY <1>1, <1>2, Joined
<1> HIDE DEF b2
<1>5. ChannelTypes'
  BY <1>2, <1>3, <1>4 DEF ChannelTypes
<1>6. ASSUME Told
      PROVE  Told'
  <2>1. PICK all, at : ToldBy(all, at)
    BY <1>6 DEF Told, ToldBy
  <2> DEFINE c == at[Len(got) + 1]
  <2>2. c \in Nat /\ UnderWay(all, c, buf, wire) /\ all \in Seq(Items)
    BY <2>1 DEF ToldBy, UnderWay, Stream
  <2>3. Len(all) \in Nat
    BY <2>2
  <2> HIDE DEF c
  <2>4. c + Len(b2) + Len(w2) = c + Len(buf) + Len(wire)
    BY <1>1, <1>2, <1>4, <2>2
  <2>5. ASSUME NEW j \in 1..Len(b2)
        PROVE  b2[j] = all[c + j]
    <3>1. CASE j <= Len(buf)
      <4>1. j \in 1..Len(buf)
        BY <1>1, <1>2, <1>4, <3>1
      <4> QED BY <1>4, <2>2, <4>1 DEF UnderWay
    <3>2. CASE ~(j <= Len(buf))
      <4> DEFINE i == j - Len(buf)
      <4>1. i \in 1..k /\ i \in 1..Len(wire) /\ i \in 1..Len(x) /\ j = Len(buf) + i
        BY <1>1, <1>2, <1>4, <3>2
      <4>2. c + Len(buf) + i = c + j
        BY <1>1, <2>2
      <4> HIDE DEF i
      <4>3. b2[j] = wire[i]
        BY <1>2, <1>4, <4>1
      <4>4. wire[i] = all[c + Len(buf) + i]
        BY <2>2, <4>1 DEF UnderWay
      <4> QED BY <4>2, <4>3, <4>4
    <3> QED BY <3>1, <3>2
  <2>6. ASSUME NEW j \in 1..Len(w2)
        PROVE  w2[j] = all[c + Len(b2) + j]
    <3>1. /\ w2[j] = wire[k + j] /\ k + j \in 1..Len(wire)
          /\ c + Len(buf) + (k + j) = c + Len(b2) + j
      BY <1>1, <1>2, <1>4, <2>2
    <3> QED BY <2>2, <3>1 DEF UnderWay
  <2>7. UnderWay(all, c, b2, w2)
    BY <2>2, <2>4, <2>5, <2>6 DEF UnderWay
  <2>8. ToldBy(all, at)'
    BY <1>3, <2>1, <2>4, <2>7 DEF ToldBy, c
  <2> QED BY <1>3, <1>6, <2>8 DEF Told, ToldBy
<1> QED BY <1>5, <1>6

(* A complete buffer holds the oldest document that was not received yet.     *)
LEMMA RecMsgKeeps ==
  ASSUME ChannelTypes, RecMsg
  PROVE  ChannelTypes' /\ (Told => Told')
<1> DEFINE body == Body(buf)
<1>1. buf \in Seq(Items) /\ got \in Seq(Seq(Items)) /\ Len(buf) \in Nat /\ Len(buf) > 2
  BY DEF ChannelTypes, RecMsg
<1>2. /\ body \in Seq(Items) /\ Len(body) = Len(buf) - 2
      /\ \A j \in 1..(Len(buf) - 2) : body[j] = buf[2 + j]
  <2>1. 2 \in 0..Len(buf)
    BY <1>1
  <2>2. body = SubSeq(buf, 2 + 1, Len(buf))
    BY DEF Body
  <2> QED BY <1>1, <2>1, <2>2, SplitAt
<1>3. /\ got' = Append(got, body) /\ buf' = <<>>
      /\ UNCHANGED <<way, hand, wire, alive, sent, ended, mixed>>
      /\ Len(buf) = 2 + buf[1][2]
  BY <1>1 DEF RecMsg, Need
<1> HIDE DEF body, Items
<1>4. ChannelTypes'
  <2>1. Append(got, body) \in Seq(Seq(Items)) /\ <<>> \in Seq(Items)
    BY <1>1, <1>2
  <2> QED BY <1>3, <2>1 DEF ChannelTypes
<1>5. ASSUME Told
      PROVE  Told'
  <2>1. PICK all, at : ToldBy(all, at)
    BY <1>5 DEF Told, ToldBy
  <2> DEFINE g == Len(got)
             c == at[g + 1]
             f == Frame(sent[g + 1])
  <2>2. /\ c \in Nat /\ UnderWay(all, c, buf, wire) /\ all \in Seq(Items)
        /\ Stream(sent, all, at)
    BY <2>1 DEF ToldBy, UnderWay, Stream
  <2>3. /\ Len(all) \in Nat /\ g \in Nat /\ Len(sent) \in Nat /\ Len(wire) \in Nat
        /\ g <= Len(sent) /\ wire \in Seq(Items)
    BY <1>5, <2>2 DEF Told, ChannelTypes
  <2>4. g + 1 \in 1..Len(sent)
    <3>1. c < Len(all)
      BY <1>1, <2>2, <2>3 DEF UnderWay
    <3>2. g # Len(sent)
      BY <2>2, <3>1 DEF Stream
    <3> QED BY <2>3, <3>2
  <2>5. /\ at[g + 2] = c + Len(f) /\ \A j \in 1..Len(f) : all[c + j] = f[j]
    <3>1. g + 1 + 1 = g + 2
      BY <2>3
    <3> QED BY <2>2, <2>4, <3>1 DEF Stream
  <2> DEFINE text == Text[sent[g + 1]]
  <2>6. sent[g + 1] \in AllDocs
    BY <2>4 DEF ChannelTypes
  <2>7. /\ Len(text) \in Nat /\ Len(text) >= 1 /\ text \in Seq(Items)
        /\ Len(f) = 2 + Len(text) /\ f[1] = <<"length", Len(text), 1>>
        /\ \A j \in 1..Len(text) : f[2 + j] = text[j]
    BY <2>6, FrameOf
  <2> HIDE DEF f, text, c, g
  <2>8. \A j \in 1..Len(buf) : buf[j] = all[c + j]
    BY <2>2 DEF UnderWay
  <2>9. buf[1] = <<"length", Len(text), 1>>
    <3>1. 1 \in 1..Len(buf) /\ 1 \in 1..Len(f)
      BY <1>1, <2>7
    <3> QED BY <2>5, <2>7, <2>8, <3>1
  <2>10. Len(buf) = 2 + Len(text)
    <3>1. buf[1][2] = Len(text)
      BY <2>9
    <3> QED BY <1>3, <3>1
  <2>11. body = text
    <3>1. Len(body) = Len(text)
      BY <1>1, <1>2, <2>7, <2>10
    <3>2. ASSUME NEW j \in 1..Len(body)
          PROVE  body[j] = text[j]
      <4>1. /\ j \in 1..(Len(buf) - 2) /\ 2 + j \in 1..Len(buf) /\ 2 + j \in 1..Len(f)
            /\ j \in 1..Len(text)
        BY <1>1, <1>2, <2>7, <2>10, <3>1
      <4> QED BY <1>2, <2>5, <2>7, <2>8, <4>1
    <3> QED BY <1>2, <2>7, <3>1, <3>2, SameSequence
  <2>12. /\ Len(got') = g + 1 /\ Len(got') <= Len(sent)
         /\ \A i \in 1..Len(got') : got'[i] = Text[sent[i]]
    <3>1. /\ Len(Append(got, body)) = g + 1 /\ Append(got, body)[g + 1] = body
          /\ \A i \in 1..g : Append(got, body)[i] = got[i]
      BY <1>1, <1>2 DEF g
    <3>2. \A i \in 1..g : got[i] = Text[sent[i]]
      BY <1>5 DEF Told, g
    <3>3. \A i \in 1..(g + 1) : i = g + 1 \/ i \in 1..g
      BY <2>3
    <3> QED BY <1>3, <2>3, <2>4, <2>11, <3>1, <3>2, <3>3 DEF text
  <2> DEFINE c2 == at[g + 2]
  <2>13. c2 = c + Len(buf)
    BY <2>5, <2>7, <2>10
  <2>14. Len(<<>>) = 0
    OBVIOUS
  <2> HIDE DEF c2
  <2>15. c2 + Len(<<>>) + Len(wire) = c + Len(buf) + Len(wire)
    BY <1>1, <2>2, <2>3, <2>13, <2>14
  <2>16. UnderWay(all, c2, <<>>, wire)
    <3>1. c2 \in Nat /\ c2 + Len(<<>>) = c + Len(buf)
      BY <1>1, <2>2, <2>13, <2>14
    <3>2. \A j \in 1..Len(wire) : wire[j] = all[c2 + Len(<<>>) + j]
      BY <2>2, <3>1 DEF UnderWay
    <3>3. 1..Len(<<>>) = {}
      BY <2>14
    <3> QED BY <2>2, <2>15, <3>1, <3>2, <3>3 DEF UnderWay
  <2>17. at[Len(got') + 1] = c2
    <3>1. Len(got') + 1 = g + 2
      BY <2>3, <2>12
    <3> QED BY <3>1 DEF c2
  <2>18. ToldBy(all, at)'
    BY <1>3, <2>1, <2>15, <2>16, <2>17 DEF ToldBy, c, g
  <2> QED BY <1>3, <1>5, <2>12, <2>18 DEF Told, ToldBy
<1> QED BY <1>4, <1>5

-----------------------------------------------------------------------------
(* The network, and the whole.                                                *)
LEMMA LoseKeeps ==
  ASSUME ChannelTypes, Lose
  PROVE  ChannelTypes' /\ (Told => Told')
<1>1. PICK n \in 0..Len(wire) : wire' = SubSeq(wire, 1, n)
  BY DEF Lose
<1>2. wire \in Seq(Items) /\ Len(wire) \in Nat /\ n \in Nat
  BY DEF ChannelTypes
<1>3. /\ wire' \in Seq(Items) /\ Len(wire') = n /\ n <= Len(wire)
      /\ \A j \in 1..n : wire'[j] = wire[j] /\ j \in 1..Len(wire)
  BY <1>1, <1>2, SplitAt
<1>4. ~alive' /\ UNCHANGED <<way, hand, buf, sent, got, ended, mixed>>
  BY DEF Lose
<1>5. ChannelTypes'
  <2> HIDE DEF Items
  <2> QED BY <1>3, <1>4 DEF ChannelTypes, Lose
<1>6. ASSUME Told
      PROVE  Told'
  <2>1. PICK all, at : ToldBy(all, at)
    BY <1>6 DEF Told, ToldBy
  <2> DEFINE c == at[Len(got) + 1]
  <2>2. /\ c \in Nat /\ UnderWay(all, c, buf, wire) /\ Len(all) \in Nat
        /\ Len(buf) \in Nat
    BY <2>1 DEF ToldBy, UnderWay, Stream, ChannelTypes
  <2> HIDE DEF c
  <2>3. UnderWay(all, c, buf, wire')
    <3> DEFINE m == c + Len(buf)
    <3>1. /\ m \in Nat /\ m + Len(wire) <= Len(all)
          /\ \A j \in 1..Len(wire) : wire[j] = all[m + j]
      BY <2>2 DEF UnderWay
    <3> HIDE DEF m
    <3>2. m + Len(wire') <= Len(all)
      BY ONLY <1>2, <1>3, <2>2, <3>1
    <3>3. \A j \in 1..Len(wire') : wire'[j] = all[m + j]
      BY ONLY <1>3, <3>1
    <3>4. \A j \in 1..Len(buf) : buf[j] = all[c + j]
      BY <2>2 DEF UnderWay
    <3> QED BY <2>2, <3>2, <3>3, <3>4 DEF UnderWay, m
  <2>4. ToldBy(all, at)'
    BY <1>4, <2>1, <2>3 DEF ToldBy, c
  <2> QED BY <1>4, <1>6, <2>4 DEF Told, ToldBy
<1> QED BY <1>5, <1>6

LEMMA InitChannel ==
  ASSUME Init
  PROVE  ChannelInv
<1>1. ChannelTypes
  <2>1. /\ <<>> \in Seq(Items) /\ <<>> \in Seq(AllDocs)
        /\ <<>> \in Seq(Seq(Items)) /\ TRUE \in BOOLEAN /\ FALSE \in BOOLEAN
    <3> HIDE DEF Items, AllDocs
    <3> QED OBVIOUS
  <2> HIDE DEF Items, AllDocs
  <2>2. hand \in [Threads -> Seq(Items)]
    BY <2>1 DEF Init
  <2> QED BY <2>1, <2>2 DEF Init, ChannelTypes
<1> DEFINE at == [i \in 1..1 |-> 0]
<1>2. Stream(<<>>, <<>>, at)
  <2>1. /\ Len(<<>>) = 0 /\ Len(<<>>) + 1 = 1 /\ <<>> \in Seq(Items)
        /\ at \in [1..1 -> Nat] /\ at[1] = 0 /\ 1..0 = {}
    OBVIOUS
  <2> HIDE DEF at, Items
  <2> QED BY <2>1 DEF Stream
<1>3. UnderWay(<<>>, 0, <<>>, <<>>) /\ LeftOver(<<>>, 0 + Len(<<>>) + Len(<<>>), hand)
  <2>1. \A t \in Threads : hand[t] = <<>>
    BY DEF Init
  <2> QED BY <2>1 DEF UnderWay, LeftOver
<1>4. at[Len(<<>>) + 1] = 0
  OBVIOUS
<1> HIDE DEF at
<1>5. Told
  <2>1. OneSender(hand)
    BY DEF Init, OneSender
  <2> QED BY <1>2, <1>3, <1>4, <2>1 DEF Init, Told
<1> QED BY <1>1, <1>5 DEF ChannelInv

LEMMA NextKeepsChannelInv ==
  ASSUME ChannelInv, [Next]_vars
  PROVE  ChannelInv'
<1> USE DEF ChannelInv
<1>1. ASSUME NEW t \in Threads, NEW d \in Docs[way], SendMsg(t, d), ~mixed
      PROVE  ChannelInv'
  BY <1>1, SendKeepsTypes, SendKeepsTold
<1>2. ASSUME NEW t \in Threads, SendRest(t), ~mixed
      PROVE  ChannelInv'
  BY <1>2, RestKeepsTypes, RestKeepsTold
<1>3. ASSUME NEW k \in 1..Len(wire), Recv(k), ~mixed
      PROVE  ChannelInv'
  BY <1>3, RecvKeeps
<1>4. ASSUME RecMsg, ~mixed
      PROVE  ChannelInv'
  BY <1>4, RecMsgKeeps
<1>5. CASE RecvFails
  BY <1>5 DEF RecvFails, ChannelTypes, Told
<1>6. ASSUME Lose, ~mixed
      PROVE  ChannelInv'
  BY <1>6, LoseKeeps
<1>7. CASE UNCHANGED vars
  BY <1>7 DEF vars, ChannelTypes, Told
<1> QED BY <1>1, <1>2, <1>3, <1>4, <1>5, <1>6, <1>7 DEF Next

(* As long as no two threads send at a time, RecMsg returns the documents     *)
(* whole and in the order in which they were sent, whatever the threads, the  *)
(* documents and the pieces, and whenever the connection ends.                *)
THEOREM ChannelFramed == Spec => []Framed
<1>1. Init => ChannelInv
  BY InitChannel
<1>2. ChannelInv /\ [Next]_vars => ChannelInv'
  BY NextKeepsChannelInv
<1>3. ASSUME ChannelInv
      PROVE  Framed
  <2>1. DOMAIN got = 1..Len(got)
    <3>1. got \in Seq(Seq(Items))
      BY <1>3 DEF ChannelInv, ChannelTypes
    <3> QED BY ONLY <3>1
  <2>2. ASSUME ~mixed
        PROVE  Len(got) <= Len(sent) /\ \A i \in 1..Len(got) : got[i] = Text[sent[i]]
    <3>1. Told
      BY <1>3, <2>2 DEF ChannelInv
    <3> QED BY ONLY <3>1 DEF Told
  <2> QED BY <2>1, <2>2 DEF Framed
<1> QED BY <1>1, <1>2, <1>3, PTL DEF Spec
=============================================================================
