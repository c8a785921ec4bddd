---------------------------- MODULE CommandProofs ----------------------------
(***************************************************************************)
(* Commands are executed once and in the order in which they were asked:   *)
(* for any number of requests, any faults of the line, any remains of a    *)
(* frame that is cut, and a parser that is fed any bytes in any pieces.    *)
(* InOrder speaks of what was executed.  What carries it is the order of   *)
(* the bytes that have not been parsed yet (Orders, of the line and of the *)
(* FIFO): a byte of an executed request never comes again, so that no      *)
(* frame is put together from it, and the parser, which drops and searches *)
(* and parses as long as it finds something, keeps that order (Keeps) with *)
(* each of its rounds.  Without a fault the two ends take turns            *)
(* (TakingTurns): a request is parsed with the read that brings its last   *)
(* byte, so nothing is left over for the next one.                         *)
(* After faults, what they leave behind is counted: Recovers bounds what   *)
(* it may still cost, so that the requests which fail in a row have a      *)
(* bound (Recovery), whatever the lengths that the bytes may say.          *)
(***************************************************************************)
EXTENDS CtuCommands, SequenceTheorems, FiniteSetTheorems, WellFoundedInduction, TLAPS

-----------------------------------------------------------------------------
(* The command service.                                                    *)

(* Bytes and frames of the first n requests.                               *)
ByteOf(n) == (1 .. n) \X Commands \X (1 .. FrameLen)
FrameOf(n) == (1 .. n) \X Commands

(* The order in which bytes were sent.                                     *)
Before(a, b) == a[1] < b[1] \/ (a[1] = b[1] /\ a[3] < b[3])
(* f holds bytes in the order in which they were sent, those of T came     *)
(* later; the frames o are in order, too, and after the requests D; no     *)
(* byte of a frame in o or of a request in D is still there.               *)
Orders(f, o, D, T) ==
    /\ \A i, j \in 1 .. Len(f) : i < j => Before(f[i], f[j])
    /\ \A i \in 1 .. Len(f), t \in T : Before(f[i], t)
    /\ \A i \in 1 .. Len(f), d \in D : d < f[i][1]
    /\ \A t \in T, d \in D : d < t[1]
    /\ \A i, j \in 1 .. Len(o) : i < j => o[i][1] < o[j][1]
    /\ \A i \in 1 .. Len(o), d \in D : d < o[i][1]
    /\ \A i \in 1 .. Len(o), k \in 1 .. Len(f) : o[i][1] < f[k][1]
    /\ \A i \in 1 .. Len(o), t \in T : o[i][1] < t[1]

(* The last part of a sequence.                                            *)
LEMMA LastPart ==
    ASSUME NEW S, NEW s \in Seq(S), NEW m \in 1 .. Len(s) + 1
    PROVE  LET t == SubSeq(s, m, Len(s)) IN
           /\ t \in Seq(S) /\ Len(t) = Len(s) - m + 1
           /\ \A k \in 1 .. Len(t) : m + k - 1 \in 1 .. Len(s) /\ t[k] = s[m + k - 1]
<1>1. Len(s) \in Nat /\ m \in Int /\ Len(s) \in Int
  BY LenProperties
<1>2. \A i \in m .. Len(s) : s[i] \in S
  BY <1>1, ElementOfSeq
<1> DEFINE t == SubSeq(s, m, Len(s))
<1>3. /\ t \in Seq(S) /\ Len(t) = IF m <= Len(s) THEN Len(s) - m + 1 ELSE 0
      /\ \A i \in 1 .. Len(s) - m + 1 : t[i] = s[m + i - 1]
  BY <1>1, <1>2, SubSeqProperties
<1> HIDE DEF t
<1>4. Len(t) = Len(s) - m + 1
  BY <1>1, <1>3
<1>5. \A k \in 1 .. Len(t) : m + k - 1 \in 1 .. Len(s) /\ t[k] = s[m + k - 1]
  BY <1>1, <1>3, <1>4
<1> QED BY <1>3, <1>4, <1>5 DEF t

(* Bytes that are taken out at the front.                                  *)
LEMMA DropOrders ==
    ASSUME NEW n \in Nat, NEW f \in Seq(ByteOf(n)), NEW o, NEW D, NEW T, Orders(f, o, D, T),
           NEW m \in 1 .. Len(f) + 1
    PROVE  LET g == SubSeq(f, m, Len(f)) IN g \in Seq(ByteOf(n)) /\ Orders(g, o, D, T)
<1> DEFINE g == SubSeq(f, m, Len(f))
<1>1. /\ g \in Seq(ByteOf(n)) /\ Len(g) \in Nat
      /\ \A k \in 1 .. Len(g) : m + k - 1 \in 1 .. Len(f) /\ g[k] = f[m + k - 1]
  BY LastPart, LenProperties
<1> HIDE DEF g
<1>2. \A i, j \in 1 .. Len(g) : i < j => m + i - 1 < m + j - 1
  BY <1>1
<1>3. Orders(g, o, D, T)
  BY <1>1, <1>2 DEF Orders
<1> QED BY <1>1, <1>3 DEF g

(* An empty sequence orders nothing.                                       *)
LEMMA EmptyOrders ==
    ASSUME NEW f, NEW o, NEW D, NEW T, Orders(f, o, D, T)
    PROVE  Orders(<<>>, o, D, T)
<1>1. 1 .. Len(<<>>) = {}
  OBVIOUS
<1> QED BY <1>1 DEF Orders

(* A frame that is taken out.                                              *)
LEMMA FrameOrders ==
    ASSUME NEW n \in Nat, NEW f \in Seq(ByteOf(n)), NEW o \in Seq(FrameOf(n)),
           NEW D, NEW T \in SUBSET ByteOf(n),
           Orders(f, o, D, T), NEW len, Len(f) >= len, Intact(f, len)
    PROVE  LET g == SubSeq(f, len + 1, Len(f))
               q == Append(o, <<f[1][1], f[1][2]>>)
           IN  g \in Seq(ByteOf(n)) /\ q \in Seq(FrameOf(n)) /\ Orders(g, q, D, T)
<1> DEFINE g == SubSeq(f, 6, Len(f))
           e == <<f[1][1], f[1][2]>>
           q == Append(o, e)
<1>1. len = 5 /\ f[5] = <<f[1][1], f[1][2], 6>> /\ Len(f) \in Nat /\ len + 1 = 6
      /\ 1 \in 1 .. Len(f) /\ 5 \in 1 .. Len(f) /\ 6 \in 1 .. Len(f) + 1
  <2>1. Len(f) \in Nat
    BY LenProperties
  <2>2. len = 5 /\ 5 \in 1 .. len
    BY DEF Intact, FrameLen
  <2>3. f[5] = <<f[1][1], f[1][2], 5 + 1>> /\ 5 + 1 = 6
    BY <2>2 DEF Intact
  <2> QED BY <2>1, <2>2, <2>3
<1>2. /\ \A i \in 1 .. Len(f) : /\ f[i] \in ByteOf(n)
                                /\ f[i][1] \in 1 .. n /\ f[i][2] \in Commands /\ f[i][3] \in 1 .. 6
      /\ \A t \in T : t[1] \in 1 .. n /\ t[3] \in 1 .. 6
  <2>1. \A b \in ByteOf(n) : b[1] \in 1 .. n /\ b[2] \in Commands /\ b[3] \in 1 .. 6
    BY DEF ByteOf, FrameLen
  <2>2. \A i \in 1 .. Len(f) : f[i] \in ByteOf(n)
    BY ElementOfSeq
  <2> QED BY <2>1, <2>2
<1>3. /\ g \in Seq(ByteOf(n)) /\ Orders(g, o, D, T)
      /\ \A k \in 1 .. Len(g) : 6 + k - 1 \in 1 .. Len(f) /\ g[k] = f[6 + k - 1]
  BY <1>1, DropOrders, LastPart
<1>4. e \in FrameOf(n) /\ e[1] = f[1][1]
  BY <1>1, <1>2 DEF FrameOf
<1> HIDE DEF g, e
<1>5. /\ q \in Seq(FrameOf(n)) /\ Len(q) = Len(o) + 1 /\ Len(o) \in Nat
      /\ \A i \in 1 .. Len(o) : q[i] = o[i]
      /\ q[Len(o) + 1] = e
  BY <1>4, AppendProperties, LenProperties
<1>6. \A b \in ByteOf(n) : Before(f[5], b) => e[1] < b[1]
  <2>1. f[5][1] = e[1] /\ f[5][3] = 6
    BY <1>1, <1>4
  <2>2. \A b \in ByteOf(n) : b[3] \in 1 .. 6
    BY DEF ByteOf, FrameLen
  <2> QED BY <2>1, <2>2 DEF Before
<1>7. \A k \in 1 .. Len(g) : e[1] < g[k][1]
  <2> TAKE k \in 1 .. Len(g)
  <2>1. 5 < 6 + k - 1 /\ 6 + k - 1 \in 1 .. Len(f) /\ g[k] = f[6 + k - 1]
    BY <1>3
  <2>2. Before(f[5], g[k])
    BY <1>1, <2>1 DEF Orders
  <2> QED BY <1>2, <1>6, <2>1, <2>2
<1>8. \A t \in T : e[1] < t[1]
  BY <1>1, <1>6 DEF Orders
<1>9. \A d \in D : d < e[1]
  BY <1>1, <1>4 DEF Orders
<1>10. \A i \in 1 .. Len(o) : o[i][1] < e[1]
  BY <1>1, <1>4 DEF Orders
<1> HIDE DEF q
<1>11. \A i \in 1 .. Len(q) : i \in 1 .. Len(o) \/ i = Len(o) + 1
  BY <1>5
<1>12. \A i, j \in 1 .. Len(q) : i < j => i \in 1 .. Len(o)
  BY <1>5
<1>13. Orders(g, q, D, T)
  BY <1>3, <1>5, <1>7, <1>8, <1>9, <1>10, <1>11, <1>12 DEF Orders
<1> QED BY <1>1, <1>3, <1>5, <1>13 DEF g, e, q

(* The parser's state.                                                     *)
Parser(n) == [fifo : Seq(ByteOf(n)), matched : BOOLEAN, out : Seq(FrameOf(n)), stop : BOOLEAN]
Keeps(s, n, D, T) == s \in Parser(n) /\ Orders(s.fifo, s.out, D, T)

(* A parser with one field replaced is a parser.                           *)
LEMMA ParserParts ==
    ASSUME NEW n \in Nat, NEW s \in Parser(n)
    PROVE  /\ \A x \in Seq(ByteOf(n)) : LET r == [s EXCEPT !.fifo = x] IN
                r \in Parser(n) /\ r.fifo = x /\ r.out = s.out
           /\ \A x \in BOOLEAN : LET r == [s EXCEPT !.matched = x] IN
                r \in Parser(n) /\ r.fifo = s.fifo /\ r.out = s.out
           /\ \A x \in Seq(FrameOf(n)) : LET r == [s EXCEPT !.out = x] IN
                r \in Parser(n) /\ r.fifo = s.fifo /\ r.out = x
           /\ \A x \in BOOLEAN : LET r == [s EXCEPT !.stop = x] IN
                r \in Parser(n) /\ r.fifo = s.fifo /\ r.out = s.out
BY DEF Parser

(* Min is what it says: sets of naturals have a least element.             *)
LEMMA LeastOf ==
    ASSUME NEW S, S \subseteq Nat, S # {}
    PROVE  Min(S) \in S /\ \A y \in S : Min(S) <= y
<1> DEFINE R == OpToRel(<, Nat)
<1>1. IsWellFoundedOn(R, Nat)
  BY NatLessThanWellFounded
<1>2. \A x, y \in Nat : y < x => <<y, x>> \in R
  BY DEF OpToRel
<1> HIDE DEF R
<1>3. PICK x \in S : \A y \in S : ~(<<y, x>> \in R)
  BY <1>1, WFMin
<1>4. \A y \in S : x <= y
  <2> TAKE y \in S
  <2>1. x \in Nat /\ y \in Nat
    OBVIOUS
  <2>2. ~(y < x)
    BY <1>2, <1>3, <2>1
  <2> QED BY <2>1, <2>2
<1> QED BY <1>4 DEF Min

(* Looking for the header keeps what the parser keeps.                     *)
LEMMA HeaderKeeps ==
    ASSUME NEW n \in Nat, NEW s, NEW D, NEW T, Keeps(s, n, D, T)
    PROVE  Keeps(Header(s), n, D, T)
<1> DEFINE f == s.fifo
           m == Min(Headers(f)) + 1
           g == SubSeq(f, m, Len(f))
           a == [s EXCEPT !.matched = TRUE]
           r == [a EXCEPT !.fifo = g]
           e == [s EXCEPT !.fifo = <<>>]
<1>1. s \in Parser(n) /\ f \in Seq(ByteOf(n)) /\ Orders(f, s.out, D, T)
  BY DEF Keeps, Parser
<1>2. Header(s) = s \/ Header(s) = e \/ (Header(s) = r /\ Headers(f) # {})
  <2>1. r = [s EXCEPT !.matched = TRUE, !.fifo = g]
    OBVIOUS
  <2>2. Header(s) = IF s.matched THEN s ELSE IF Headers(f) = {} THEN e ELSE r
    BY <2>1 DEF Header
  <2> HIDE DEF e, r, f
  <2> QED BY <2>2
<1>3. Keeps(e, n, D, T)
  <2>1. <<>> \in Seq(ByteOf(n))
    OBVIOUS
  <2>2. e \in Parser(n) /\ e.fifo = <<>> /\ e.out = s.out
    BY <1>1, <2>1 DEF Parser
  <2> HIDE DEF e
  <2> QED BY <1>1, <2>2, EmptyOrders DEF Keeps
<1>4. ASSUME Headers(f) # {} PROVE Keeps(r, n, D, T)
  <2>1. Headers(f) \subseteq 1 .. Len(f) /\ Len(f) \in Nat
    <3>1. DOMAIN f = 1 .. Len(f) /\ Len(f) \in Nat
      BY <1>1, LenProperties
    <3> HIDE DEF f
    <3> QED BY <3>1 DEF Headers
  <2>2. m \in 1 .. Len(f) + 1
    <3>1. Headers(f) \subseteq Nat
      BY <2>1
    <3>2. Min(Headers(f)) \in Headers(f)
      BY <1>4, <3>1, LeastOf
    <3> QED BY <2>1, <3>2
  <2> HIDE DEF m
  <2>3. g \in Seq(ByteOf(n)) /\ Orders(g, s.out, D, T)
    <3> HIDE DEF f
    <3> QED BY <1>1, <2>2, DropOrders
  <2>4. a \in Parser(n) /\ a.out = s.out
    BY <1>1, ParserParts
  <2> HIDE DEF a, g
  <2>5. r \in Parser(n) /\ r.fifo = g /\ r.out = s.out
    BY <2>3, <2>4, ParserParts
  <2> QED BY <2>3, <2>5 DEF Keeps
<1> HIDE DEF r, e, f
<1> QED BY <1>2, <1>3, <1>4

(* So does one call of the parser, whatever branch it takes.               *)
LEMMA ParseKeeps ==
    ASSUME NEW n \in Nat, NEW s, NEW D, NEW T \in SUBSET ByteOf(n), Keeps(s, n, D, T)
    PROVE  Keeps(Parse(s), n, D, T)
<1> DEFINE h == Header(s)
           f == h.fifo
           len == Length(f)
           error == Unmatched(h)
           wait == [h EXCEPT !.stop = TRUE]
           few == [s EXCEPT !.stop = TRUE]
           g == SubSeq(f, len + 1, Len(f))
           q == IF Intact(f, len) THEN Append(h.out, <<f[1][1], f[1][2]>>) ELSE h.out
           cut == [error EXCEPT !.fifo = g]
           frame == [cut EXCEPT !.out = q]
<1>1. Keeps(h, n, D, T)
  BY HeaderKeeps
<1> HIDE DEF h
<1>2. h \in Parser(n) /\ f \in Seq(ByteOf(n)) /\ h.out \in Seq(FrameOf(n)) /\ Orders(f, h.out, D, T)
  BY <1>1 DEF Keeps, Parser
<1>3. /\ error \in Parser(n) /\ error.fifo = f /\ error.out = h.out
      /\ wait \in Parser(n) /\ wait.fifo = f /\ wait.out = h.out
  BY <1>2 DEF Parser, Unmatched
<1>4. /\ few \in Parser(n) /\ few.fifo = s.fifo /\ few.out = s.out
  BY DEF Keeps, Parser
<1>5. frame = [error EXCEPT !.fifo = g, !.out = q]
  OBVIOUS
<1>6. [error EXCEPT !.fifo = SubSeq(@, len + 1, Len(@)),
                    !.out = IF Intact(f, len) THEN Append(@, <<f[1][1], f[1][2]>>) ELSE @]
        = frame
  <2>1. SubSeq(error.fifo, len + 1, Len(error.fifo)) = g
    <3> HIDE DEF f, error, len
    <3> QED BY <1>3
  <2>2. (IF Intact(f, len) THEN Append(error.out, <<f[1][1], f[1][2]>>) ELSE error.out) = q
    <3> HIDE DEF f, error, len
    <3> QED BY <1>3
  <2> HIDE DEF f, error, len, g, q
  <2> QED BY <1>5, <2>1, <2>2
<1>7. Parse(s) = IF ~s.matched /\ Len(s.fifo) < 3 THEN few
                 ELSE IF ~h.matched THEN error
                 ELSE IF len = 0 \/ Len(f) < len THEN wait
                 ELSE IF f[len][3] # FrameLen THEN error
                 ELSE frame
  BY <1>6 DEF Parse, h
<1>8. Keeps(few, n, D, T) /\ Keeps(error, n, D, T) /\ Keeps(wait, n, D, T)
  <2> HIDE DEF few, error, wait
  <2> QED BY <1>2, <1>3, <1>4 DEF Keeps
<1>9. ASSUME ~(len = 0 \/ Len(f) < len) PROVE Keeps(frame, n, D, T)
  <2>1. len \in Nat /\ Len(f) \in Nat /\ Len(f) >= len /\ len + 1 \in 1 .. Len(f) + 1
    <3>1. Len(f) \in Nat
      BY <1>2, LenProperties
    <3>2. len \in Nat
      <4>1. CASE Len(f) < 2
        BY <4>1 DEF Length
      <4>2. CASE ~(Len(f) < 2)
        <5>1. 2 \in 1 .. Len(f)
          BY <3>1, <4>2
        <5>2. f[2] \in ByteOf(n)
          BY <1>2, <5>1, ElementOfSeq
        <5>3. f[2][3] \in 1 .. FrameLen
          BY <5>2 DEF ByteOf
        <5>4. Value[f[2][3]] \in Nat
          BY <5>3, CommandAssumption
        <5> QED BY <4>2, <5>4 DEF Length, FrameLen
      <4> QED BY <4>1, <4>2
    <3> HIDE DEF f, len
    <3> QED BY <1>9, <3>1, <3>2
  <2>2. g \in Seq(ByteOf(n)) /\ q \in Seq(FrameOf(n)) /\ Orders(g, q, D, T)
    <3>1. CASE Intact(f, len)
      <4> HIDE DEF f, len
      <4> QED BY <1>2, <2>1, <3>1, FrameOrders
    <3>2. CASE ~Intact(f, len)
      <4> HIDE DEF f, len
      <4> QED BY <1>2, <2>1, <3>2, DropOrders
    <3> QED BY <3>1, <3>2
  <2> HIDE DEF f, len, g, q, error
  <2>3. cut \in Parser(n)
    BY <1>3, <2>2, ParserParts
  <2>4. frame \in Parser(n) /\ frame.fifo = g /\ frame.out = q
    <3>1. cut.fifo = g
      BY <1>3, <2>2, ParserParts
    <3> HIDE DEF cut
    <3> QED BY <2>2, <2>3, <3>1, ParserParts
  <2> QED BY <2>2, <2>4 DEF Keeps
<1> HIDE DEF few, error, wait, frame, f, len
<1> QED BY <1>7, <1>8, <1>9

(* Induction over the rounds of a feed, as a fact about a set of numbers.  *)
LEMMA SetInduction ==
    ASSUME NEW S, 0 \in S, \A n \in Nat : n \in S => n + 1 \in S
    PROVE  Nat \subseteq S
<1> DEFINE U == Nat \ S
           R == OpToRel(<, Nat)
<1> SUFFICES ASSUME U # {} PROVE FALSE
  OBVIOUS
<1>1. \A x, y \in Nat : y < x => <<y, x>> \in R
  BY DEF OpToRel
<1>2. IsWellFoundedOn(R, Nat) /\ U \subseteq Nat
  BY NatLessThanWellFounded
<1> HIDE DEF R
<1>3. PICK x \in U : \A y \in U : ~(<<y, x>> \in R)
  <2> HIDE DEF U
  <2> QED BY <1>2, WFMin
<1>4. x \in Nat /\ x # 0 /\ x \notin S
  OBVIOUS
<1>5. x - 1 \in Nat /\ x - 1 < x /\ (x - 1) + 1 = x
  BY <1>4
<1>6. x - 1 \in S
  BY <1>1, <1>3, <1>4, <1>5
<1> QED BY <1>4, <1>5, <1>6

(* The rounds of a feed exist, and the last of them keeps the order.       *)
LEMMA SameFunction ==
    ASSUME NEW S, NEW q, NEW w, q = [k \in S |-> q[k]], w = [k \in S |-> w[k]],
           \A k \in S : q[k] = w[k]
    PROVE  q = w
OBVIOUS

(* The rounds of the feed exist as a function: its domain grows by one     *)
(* number at a time.                                                       *)
LEMMA RoundsExist ==
    ASSUME NEW bytes, NEW m \in Nat
    PROVE  \E r : r = [k \in 0 .. m |-> IF k = 0 THEN Loaded(bytes) ELSE Round(r[k - 1])]
<1> DEFINE S == {n \in Nat : \E r : r = [k \in 0 .. n |-> IF k = 0 THEN Loaded(bytes) ELSE Round(r[k - 1])]}
<1>1. 0 \in S
  <2> DEFINE r == [k \in 0 .. 0 |-> Loaded(bytes)]
  <2>1. r = [k \in 0 .. 0 |-> IF k = 0 THEN Loaded(bytes) ELSE Round(r[k - 1])]
    OBVIOUS
  <2> QED BY <2>1
<1>2. ASSUME NEW n \in Nat, n \in S PROVE n + 1 \in S
  <2>1. PICK r : r = [k \in 0 .. n |-> IF k = 0 THEN Loaded(bytes) ELSE Round(r[k - 1])]
    BY <1>2
  <2> DEFINE q == [k \in 0 .. n + 1 |-> IF k = n + 1 THEN Round(r[n]) ELSE r[k]]
  <2>2. \A k \in 0 .. n + 1 :
          q[k] = IF k = 0 THEN Loaded(bytes) ELSE Round(q[k - 1])
    <3> TAKE k \in 0 .. n + 1
    <3>1. CASE k = 0
      <4>1. 0 \in 0 .. n /\ 0 # n + 1 /\ 0 \in 0 .. n + 1
        OBVIOUS
      <4>2. r[0] = Loaded(bytes)
        BY <2>1, <4>1
      <4> QED BY <3>1, <4>1, <4>2
    <3>2. CASE k \in 1 .. n
      <4>1. k \in 0 .. n /\ k - 1 \in 0 .. n /\ k # n + 1 /\ k - 1 # n + 1 /\ k # 0
            /\ k - 1 \in 0 .. n + 1
        BY <3>2
      <4>2. r[k] = Round(r[k - 1])
        BY <2>1, <4>1
      <4> QED BY <4>1, <4>2
    <3>3. CASE k = n + 1
      <4>1. k - 1 = n /\ n \in 0 .. n + 1 /\ n # n + 1 /\ k # 0
        BY <3>3
      <4> QED BY <3>3, <4>1
    <3> QED BY <3>1, <3>2, <3>3
  <2>3. q = [k \in 0 .. n + 1 |-> IF k = 0 THEN Loaded(bytes) ELSE Round(q[k - 1])]
    <3> DEFINE w == [k \in 0 .. n + 1 |->
                       IF k = 0 THEN Loaded(bytes) ELSE Round(q[k - 1])]
    <3>1. q = [k \in 0 .. n + 1 |-> q[k]] /\ w = [k \in 0 .. n + 1 |-> w[k]]
      OBVIOUS
    <3>2. \A k \in 0 .. n + 1 : q[k] = w[k]
      <4> HIDE DEF q
      <4> QED BY <2>2
    <3>3. q = w
      <4> HIDE DEF q, w
      <4> QED BY <3>1, <3>2, SameFunction
    <3> QED BY <3>3
  <2>4. \E p : p = [k \in 0 .. n + 1 |-> IF k = 0 THEN Loaded(bytes) ELSE Round(p[k - 1])]
    <3> HIDE DEF q
    <3> QED BY <2>3
  <2> QED BY <2>4
<1> HIDE DEF S
<1>3. m \in S
  BY <1>1, <1>2, SetInduction
<1> QED BY <1>3 DEF S

(* Feeding bytes keeps what the parser keeps, for however many of them.    *)
LEMMA FedKeeps ==
    ASSUME NEW n \in Nat, NEW bytes, NEW D, NEW T \in SUBSET ByteOf(n),
           Keeps(Loaded(bytes), n, D, T)
    PROVE  Keeps(Fed(bytes), n, D, T)
<1> DEFINE after == CHOOSE r :
             r = [k \in 0 .. MaxParse |-> IF k = 0 THEN Loaded(bytes) ELSE Round(r[k - 1])]
<1>1. Fed(bytes) = after[MaxParse] /\ MaxParse \in Nat
  BY CommandAssumption DEF Fed
<1>2. after = [k \in 0 .. MaxParse |-> IF k = 0 THEN Loaded(bytes) ELSE Round(after[k - 1])]
  BY <1>1, RoundsExist
<1> HIDE DEF after
<1> DEFINE S == {k \in Nat : k <= MaxParse => Keeps(after[k], n, D, T)}
<1>3. 0 \in S
  BY <1>1, <1>2
<1>4. ASSUME NEW k \in Nat, k \in S PROVE k + 1 \in S
  <2> SUFFICES ASSUME k + 1 <= MaxParse PROVE Keeps(after[k + 1], n, D, T)
    OBVIOUS
  <2>1. k <= MaxParse /\ k + 1 \in 0 .. MaxParse /\ k + 1 # 0 /\ (k + 1) - 1 = k
    BY <1>1
  <2>2. Keeps(after[k], n, D, T) /\ after[k + 1] = Round(after[k])
    BY <1>2, <1>4, <2>1
  <2> QED BY <2>2, ParseKeeps DEF Round
<1> HIDE DEF S
<1>5. MaxParse \in S
  BY <1>1, <1>3, <1>4, SetInduction
<1> QED BY <1>1, <1>5 DEF S

-----------------------------------------------------------------------------
(* The requests whose answers are in s.                                    *)
Numbers(s) == {s[k][1] : k \in 1 .. Len(s)}
AllBelow(D, E) == \A d \in D, e \in E : d < e
Rising(s) == \A i, j \in 1 .. Len(s) : i < j => s[i][1] < s[j][1]

CommandInv ==
    /\ sent \in 0 .. MaxRequests /\ faults \in 0 .. MaxFaults
    /\ awaited \in Commands \cup {"nothing"} /\ session \in BOOLEAN
    /\ failed \in Nat /\ failed + (IF awaited = "nothing" THEN 0 ELSE 1) <= sent
    /\ line \in Seq(ByteOf(sent)) /\ fifo \in Seq(ByteOf(sent)) /\ matched \in BOOLEAN
    /\ sending \in Seq(FrameOf(sent)) /\ arrived \in Seq(FrameOf(sent))
    /\ done \in Seq(1 .. sent) /\ taken \in Seq(1 .. sent)
    /\ Orders(fifo, <<>>, Elements(done), Elements(line))
    /\ \A i, j \in 1 .. Len(line) : i < j => Before(line[i], line[j])
    /\ Increasing(done) /\ Increasing(taken)
    /\ Rising(sending) /\ Rising(arrived) /\ AllBelow(Numbers(arrived), Numbers(sending))
    /\ AllBelow(Elements(taken), Numbers(arrived) \cup Numbers(sending))
    /\ Numbers(sending) \cup Numbers(arrived) \cup Elements(taken) \subseteq Elements(done)

-----------------------------------------------------------------------------
(* Sequences that are put together.                                        *)
LEMMA Joined ==
    ASSUME NEW S, NEW s \in Seq(S), NEW t \in Seq(S)
    PROVE  LET u == s \o t IN
           /\ u \in Seq(S) /\ Len(u) = Len(s) + Len(t)
           /\ \A k \in 1 .. Len(s) : k \in 1 .. Len(u) /\ u[k] = s[k]
           /\ \A k \in 1 .. Len(u) : \/ k \in 1 .. Len(s) /\ u[k] = s[k]
                                     \/ /\ k > Len(s) /\ k - Len(s) \in 1 .. Len(t)
                                        /\ u[k] = t[k - Len(s)]
<1>1. Len(s) \in Nat /\ Len(t) \in Nat
  BY LenProperties
<1> DEFINE u == s \o t
<1>2. /\ u \in Seq(S) /\ Len(u) = Len(s) + Len(t)
      /\ \A i \in 1 .. Len(s) + Len(t) : u[i] = IF i <= Len(s) THEN s[i] ELSE t[i - Len(s)]
  BY ConcatProperties
<1> HIDE DEF u
<1>3. \A k \in 1 .. Len(s) : k \in 1 .. Len(u) /\ u[k] = s[k]
  BY <1>1, <1>2
<1>4. \A k \in 1 .. Len(u) : \/ k \in 1 .. Len(s) /\ u[k] = s[k]
                             \/ /\ k > Len(s) /\ k - Len(s) \in 1 .. Len(t)
                                /\ u[k] = t[k - Len(s)]
  BY <1>1, <1>2
<1> QED BY <1>2, <1>3, <1>4 DEF u

(* The first part of a sequence.                                           *)
LEMMA FirstPart ==
    ASSUME NEW S, NEW s \in Seq(S), NEW k \in 0 .. Len(s)
    PROVE  LET t == SubSeq(s, 1, k) IN
           /\ t \in Seq(S) /\ Len(t) = k
           /\ \A i \in 1 .. k : i \in 1 .. Len(s) /\ t[i] = s[i]
<1>1. Len(s) \in Nat /\ k \in Int
  BY LenProperties
<1>2. \A i \in 1 .. k : s[i] \in S /\ i \in 1 .. Len(s)
  BY <1>1, ElementOfSeq
<1> DEFINE t == SubSeq(s, 1, k)
<1>3. /\ t \in Seq(S) /\ Len(t) = IF 1 <= k THEN k - 1 + 1 ELSE 0
      /\ \A i \in 1 .. k - 1 + 1 : t[i] = s[1 + i - 1]
  BY <1>1, <1>2, SubSeqProperties
<1> HIDE DEF t
<1>4. Len(t) = k
  BY <1>1, <1>3
<1>5. \A i \in 1 .. k : t[i] = s[i]
  <2> TAKE i \in 1 .. k
  <2>1. i \in 1 .. k - 1 + 1 /\ 1 + i - 1 = i
    BY <1>1
  <2> QED BY <1>3, <2>1
<1> QED BY <1>2, <1>3, <1>4, <1>5 DEF t

(* The elements of a sequence.                                             *)
LEMMA ElementsOf ==
    ASSUME NEW S, NEW s \in Seq(S)
    PROVE  /\ Elements(s) = {s[k] : k \in 1 .. Len(s)} /\ Elements(s) \subseteq S
           /\ \A k \in 1 .. Len(s) : s[k] \in S /\ s[k] \in Elements(s)
<1>1. DOMAIN s = 1 .. Len(s) /\ \A k \in 1 .. Len(s) : s[k] \in S
  BY LenProperties, ElementOfSeq
<1> QED BY <1>1 DEF Elements

(* What a read of k bytes leaves for the parser.                           *)
LEMMA LoadedKeeps ==
    ASSUME NEW n \in Nat, NEW D, NEW x \in Seq(ByteOf(n)), NEW k \in 0 .. Len(x),
           fifo \in Seq(ByteOf(n)), matched \in BOOLEAN,
           Orders(fifo, <<>>, D, Elements(x)),
           \A i, j \in 1 .. Len(x) : i < j => Before(x[i], x[j])
    PROVE  Keeps(Loaded(SubSeq(x, 1, k)), n, D, Elements(SubSeq(x, k + 1, Len(x))))
<1> DEFINE a == SubSeq(x, 1, k)
           b == SubSeq(x, k + 1, Len(x))
           f == fifo \o a
<1>1. Len(x) \in Nat /\ k \in Nat /\ k + 1 \in 1 .. Len(x) + 1
  BY LenProperties
<1>2. /\ a \in Seq(ByteOf(n)) /\ Len(a) = k
      /\ \A i \in 1 .. k : i \in 1 .. Len(x) /\ a[i] = x[i]
  BY FirstPart
<1>3. /\ b \in Seq(ByteOf(n)) /\ Len(b) \in Nat
      /\ \A i \in 1 .. Len(b) : k + 1 + i - 1 \in 1 .. Len(x) /\ b[i] = x[k + 1 + i - 1]
  BY <1>1, LastPart, LenProperties
<1>4. /\ f \in Seq(ByteOf(n)) /\ Len(f) \in Nat /\ Len(fifo) \in Nat
      /\ \A i \in 1 .. Len(f) : \/ i \in 1 .. Len(fifo) /\ f[i] = fifo[i]
                                \/ /\ i > Len(fifo) /\ i - Len(fifo) \in 1 .. k
                                   /\ f[i] = a[i - Len(fifo)]
  BY <1>2, Joined, LenProperties
<1>5. \A i \in 1 .. Len(x) : x[i] \in Elements(x)
  BY ElementsOf
<1>6. \A t \in Elements(b) : \E i \in 1 .. Len(x) : i > k /\ t = x[i]
  <2> HIDE DEF b
  <2>1. Elements(b) = {b[i] : i \in 1 .. Len(b)}
    BY <1>3, ElementsOf
  <2>2. \A i \in 1 .. Len(b) : k + 1 + i - 1 > k
    BY <1>1, <1>3
  <2> QED BY <1>3, <2>1, <2>2
<1> HIDE DEF a, b, f
<1>7. \A i \in 1 .. Len(f) : \/ i \in 1 .. Len(fifo) /\ f[i] = fifo[i]
                             \/ /\ i > Len(fifo) /\ i - Len(fifo) \in 1 .. Len(x)
                                /\ i - Len(fifo) <= k /\ f[i] = x[i - Len(fifo)]
  BY <1>2, <1>4
<1>8. \A i, j \in 1 .. Len(f) : i < j => Before(f[i], f[j])
  <2> SUFFICES ASSUME NEW i \in 1 .. Len(f), NEW j \in 1 .. Len(f), i < j
               PROVE  Before(f[i], f[j])
    OBVIOUS
  <2>1. CASE j \in 1 .. Len(fifo) /\ f[j] = fifo[j]
    <3>1. i \in 1 .. Len(fifo) /\ ~(i > Len(fifo))
      <4>1. Len(f) \in Nat /\ Len(fifo) \in Nat
        BY <1>4
      <4> QED BY <2>1, <4>1
    <3>2. f[i] = fifo[i]
      BY <1>7, <3>1
    <3> QED BY <2>1, <3>1, <3>2 DEF Orders
  <2>2. CASE i \in 1 .. Len(fifo) /\ f[i] = fifo[i] /\ j - Len(fifo) \in 1 .. Len(x)
             /\ f[j] = x[j - Len(fifo)]
    BY <1>5, <2>2 DEF Orders
  <2>3. CASE /\ i - Len(fifo) \in 1 .. Len(x) /\ f[i] = x[i - Len(fifo)]
             /\ j - Len(fifo) \in 1 .. Len(x) /\ f[j] = x[j - Len(fifo)]
    <3>1. i - Len(fifo) < j - Len(fifo)
      BY <1>4
    <3> QED BY <2>3, <3>1
  <2> QED BY <1>7, <2>1, <2>2, <2>3
<1>9. \A i \in 1 .. Len(f), t \in Elements(b) : Before(f[i], t)
  <2> SUFFICES ASSUME NEW i \in 1 .. Len(f), NEW t \in Elements(b)
               PROVE  Before(f[i], t)
    OBVIOUS
  <2>1. PICK m \in 1 .. Len(x) : m > k /\ t = x[m]
    BY <1>6
  <2>2. CASE i \in 1 .. Len(fifo) /\ f[i] = fifo[i]
    BY <1>5, <2>1, <2>2 DEF Orders
  <2>3. CASE /\ i - Len(fifo) \in 1 .. Len(x) /\ i - Len(fifo) <= k
             /\ f[i] = x[i - Len(fifo)]
    <3>1. i - Len(fifo) < m
      BY <1>1, <1>4, <2>1, <2>3
    <3> QED BY <2>1, <2>3, <3>1
  <2> QED BY <1>7, <2>2, <2>3
<1>10. \A i \in 1 .. Len(f), d \in D : d < f[i][1]
  BY <1>5, <1>7 DEF Orders
<1>11. \A t \in Elements(b), d \in D : d < t[1]
  BY <1>5, <1>6 DEF Orders
<1>12. 1 .. Len(<<>>) = {} /\ <<>> \in Seq(FrameOf(n))
  <2>1. <<>> \in Seq(FrameOf(n))
    OBVIOUS
  <2>2. 1 .. Len(<<>>) = {}
    OBVIOUS
  <2> QED BY <2>1, <2>2
<1>13. Orders(f, <<>>, D, Elements(b))
  BY <1>8, <1>9, <1>10, <1>11, <1>12 DEF Orders
<1>14. /\ Loaded(a) \in Parser(n) /\ Loaded(a).fifo = f /\ Loaded(a).out = <<>>
  <2>1. Loaded(a) = [fifo |-> f, matched |-> matched, out |-> <<>>, stop |-> FALSE]
    BY DEF Loaded, f
  <2>2. f \in Seq(ByteOf(n)) /\ <<>> \in Seq(FrameOf(n))
    BY <1>4, <1>12
  <2> QED BY <2>1, <2>2 DEF Parser
<1> QED BY <1>13, <1>14 DEF Keeps, a, b

(* The frames o of a feed are queued for their answers, behind those of    *)
(* requests that were executed before.                                     *)
LEMMA QueueKeeps ==
    ASSUME NEW n \in Nat, NEW o \in Seq(FrameOf(n)), NEW q \in Seq(FrameOf(n)),
           NEW d \in Seq(1 .. n), Increasing(d), Rising(q), Rising(o),
           Numbers(q) \subseteq Elements(d),
           \A i \in 1 .. Len(o), e \in Elements(d) : e < o[i][1]
    PROVE  LET p == q \o o
               c == d \o [k \in DOMAIN o |-> o[k][1]]
           IN  /\ p \in Seq(FrameOf(n)) /\ Rising(p)
               /\ c \in Seq(1 .. n) /\ Increasing(c)
               /\ Elements(c) = Elements(d) \cup Numbers(o)
               /\ Numbers(p) = Numbers(q) \cup Numbers(o)
<1> DEFINE p == q \o o
           m == [k \in DOMAIN o |-> o[k][1]]
           c == d \o m
<1>1. /\ DOMAIN o = 1 .. Len(o) /\ Len(o) \in Nat /\ Len(q) \in Nat /\ Len(d) \in Nat
      /\ DOMAIN d = 1 .. Len(d)
  BY LenProperties
<1>2. /\ \A k \in 1 .. Len(o) : o[k] \in FrameOf(n) /\ o[k][1] \in 1 .. n
      /\ \A k \in 1 .. Len(q) : q[k] \in FrameOf(n) /\ q[k][1] \in 1 .. n
  <2>1. \A e \in FrameOf(n) : e[1] \in 1 .. n
    BY DEF FrameOf
  <2> QED BY <2>1, ElementOfSeq
<1>3. m \in Seq(1 .. n) /\ Len(m) = Len(o) /\ \A k \in 1 .. Len(o) : m[k] = o[k][1]
  <2>1. m = [k \in 1 .. Len(o) |-> o[k][1]]
    BY <1>1
  <2> HIDE DEF m
  <2>2. m \in [1 .. Len(o) -> 1 .. n]
    BY <1>2, <2>1
  <2>3. m \in Seq(1 .. n)
    <3>1. Len(o) \in Nat
      BY <1>1
    <3>2. m \in UNION {[1 .. l -> 1 .. n] : l \in Nat}
      BY <2>2, <3>1, Zenon
    <3> QED BY <3>2, SeqDef, Zenon
  <2>4. DOMAIN m = 1 .. Len(o) /\ DOMAIN m = 1 .. Len(m) /\ Len(m) \in Nat
    BY <2>2, <2>3, LenProperties
  <2>5. Len(m) = Len(o)
    BY <1>1, <2>4
  <2> QED BY <2>1, <2>3, <2>5
<1>4. /\ p \in Seq(FrameOf(n)) /\ Len(p) = Len(q) + Len(o)
      /\ \A k \in 1 .. Len(q) : k \in 1 .. Len(p) /\ p[k] = q[k]
      /\ \A k \in 1 .. Len(p) : \/ k \in 1 .. Len(q) /\ p[k] = q[k]
                                \/ /\ k > Len(q) /\ k - Len(q) \in 1 .. Len(o)
                                   /\ p[k] = o[k - Len(q)]
  BY Joined
<1>5. /\ c \in Seq(1 .. n) /\ Len(c) = Len(d) + Len(m)
      /\ \A k \in 1 .. Len(d) : k \in 1 .. Len(c) /\ c[k] = d[k]
      /\ \A k \in 1 .. Len(c) : \/ k \in 1 .. Len(d) /\ c[k] = d[k]
                                \/ /\ k > Len(d) /\ k - Len(d) \in 1 .. Len(m)
                                   /\ c[k] = m[k - Len(d)]
  <2> DEFINE N == 1 .. n
  <2>1. d \in Seq(N) /\ m \in Seq(N)
    BY <1>3
  <2> HIDE DEF m, N
  <2>2. /\ c \in Seq(N) /\ Len(c) = Len(d) + Len(m)
        /\ \A k \in 1 .. Len(d) : k \in 1 .. Len(c) /\ c[k] = d[k]
        /\ \A k \in 1 .. Len(c) : \/ k \in 1 .. Len(d) /\ c[k] = d[k]
                                  \/ /\ k > Len(d) /\ k - Len(d) \in 1 .. Len(m)
                                     /\ c[k] = m[k - Len(d)]
    BY <2>1, Joined
  <2> HIDE DEF c
  <2> QED BY <2>2 DEF N
<1>6. \A k \in 1 .. Len(o) : /\ k + Len(q) \in 1 .. Len(p) /\ p[k + Len(q)] = o[k]
                             /\ k + Len(d) \in 1 .. Len(c) /\ c[k + Len(d)] = o[k][1]
  <2> TAKE k \in 1 .. Len(o)
  <2> HIDE DEF p, c, m
  <2>1. /\ k + Len(q) \in 1 .. Len(p) /\ k + Len(q) \notin 1 .. Len(q)
        /\ (k + Len(q)) - Len(q) = k
    BY <1>1, <1>4
  <2>2. /\ k + Len(d) \in 1 .. Len(c) /\ k + Len(d) \notin 1 .. Len(d)
        /\ (k + Len(d)) - Len(d) = k
    BY <1>1, <1>3, <1>5
  <2> QED BY <1>3, <1>4, <1>5, <2>1, <2>2, ZenonT(30)
<1>7. /\ Elements(d) = {d[k] : k \in 1 .. Len(d)}
      /\ Elements(c) = {c[k] : k \in 1 .. Len(c)}
      /\ \A k \in 1 .. Len(d) : d[k] \in Elements(d)
  <2> HIDE DEF c
  <2> QED BY <1>5, ElementsOf
<1>8. DOMAIN c = 1 .. Len(c)
  <2> HIDE DEF c
  <2> QED BY <1>5, LenProperties
<1> HIDE DEF p, c, m
<1>9. Rising(p)
  <2> SUFFICES ASSUME NEW i \in 1 .. Len(p), NEW j \in 1 .. Len(p), i < j
               PROVE  p[i][1] < p[j][1]
    BY DEF Rising
  <2>1. CASE j \in 1 .. Len(q)
    <3>1. i \in 1 .. Len(q)
      BY <1>1, <2>1
    <3> QED BY <1>4, <2>1, <3>1 DEF Rising
  <2>2. CASE i \in 1 .. Len(q) /\ j \notin 1 .. Len(q)
    <3>1. p[i][1] \in Elements(d)
      BY <1>4, <2>2 DEF Numbers
    <3> QED BY <1>4, <2>2, <3>1
  <2>3. CASE i \notin 1 .. Len(q) /\ j \notin 1 .. Len(q)
    <3>1. i - Len(q) < j - Len(q)
      BY <1>1
    <3> QED BY <1>4, <2>3, <3>1 DEF Rising
  <2> QED BY <2>1, <2>2, <2>3
<1>10. Increasing(c)
  <2> SUFFICES ASSUME NEW i \in 1 .. Len(c), NEW j \in 1 .. Len(c), i < j
               PROVE  c[i] < c[j]
    BY <1>8 DEF Increasing
  <2>1. CASE j \in 1 .. Len(d)
    <3>1. i \in 1 .. Len(d)
      BY <1>1, <2>1
    <3> QED BY <1>1, <1>5, <2>1, <3>1 DEF Increasing
  <2>2. CASE i \in 1 .. Len(d) /\ j \notin 1 .. Len(d)
    <3>1. c[i] \in Elements(d)
      BY <1>5, <1>7, <2>2
    <3> QED BY <1>3, <1>5, <2>2, <3>1
  <2>3. CASE i \notin 1 .. Len(d) /\ j \notin 1 .. Len(d)
    <3>1. i - Len(d) < j - Len(d)
      BY <1>1, <1>5
    <3>2. /\ i - Len(d) \in 1 .. Len(o) /\ c[i] = m[i - Len(d)]
          /\ j - Len(d) \in 1 .. Len(o) /\ c[j] = m[j - Len(d)]
      BY <1>3, <1>5, <2>3
    <3>3. c[i] = o[i - Len(d)][1] /\ c[j] = o[j - Len(d)][1]
      BY <1>3, <3>2
    <3> QED BY <3>1, <3>2, <3>3 DEF Rising
  <2> QED BY <2>1, <2>2, <2>3
<1>11. Elements(c) = Elements(d) \cup Numbers(o)
  <2>1. ASSUME NEW k \in 1 .. Len(c) PROVE c[k] \in Elements(d) \cup Numbers(o)
    <3>1. CASE k \in 1 .. Len(d) /\ c[k] = d[k]
      BY <1>7, <3>1
    <3>2. CASE k - Len(d) \in 1 .. Len(m) /\ c[k] = m[k - Len(d)]
      <4> DEFINE i == k - Len(d)
      <4>1. i \in 1 .. Len(o) /\ c[k] = m[i]
        BY <1>3, <3>2
      <4> HIDE DEF i
      <4>2. c[k] = o[i][1]
        BY <1>3, <4>1
      <4> QED BY <4>1, <4>2 DEF Numbers
    <3> QED BY <1>5, <3>1, <3>2
  <2>2. ASSUME NEW k \in 1 .. Len(d) PROVE d[k] \in Elements(c)
    BY <1>5, <1>7, <2>2
  <2>3. ASSUME NEW k \in 1 .. Len(o) PROVE o[k][1] \in Elements(c)
    BY <1>6, <1>7, <2>3
  <2> QED BY <1>7, <2>1, <2>2, <2>3, ZenonT(30) DEF Numbers
<1>12. Numbers(p) = Numbers(q) \cup Numbers(o)
  <2>1. ASSUME NEW k \in 1 .. Len(p) PROVE p[k][1] \in Numbers(q) \cup Numbers(o)
    <3>1. CASE k \in 1 .. Len(q) /\ p[k] = q[k]
      BY <3>1 DEF Numbers
    <3>2. CASE k - Len(q) \in 1 .. Len(o) /\ p[k] = o[k - Len(q)]
      BY <3>2 DEF Numbers
    <3> QED BY <1>4, <3>1, <3>2
  <2>2. ASSUME NEW k \in 1 .. Len(q) PROVE q[k][1] \in Numbers(p)
    <3>1. k \in 1 .. Len(p) /\ p[k][1] = q[k][1]
      BY <1>4
    <3> QED BY <3>1 DEF Numbers
  <2>3. ASSUME NEW k \in 1 .. Len(o) PROVE o[k][1] \in Numbers(p)
    <3>1. k + Len(q) \in 1 .. Len(p) /\ p[k + Len(q)][1] = o[k][1]
      BY <1>6
    <3> QED BY <3>1 DEF Numbers
  <2> QED BY <2>1, <2>2, <2>3 DEF Numbers
<1> QED BY <1>4, <1>5, <1>9, <1>10, <1>11, <1>12 DEF p, c, m

-----------------------------------------------------------------------------
(* Initially no command is under way.                                      *)
LEMMA CommandInitInv == CommandInit => CommandInv
<1> SUFFICES ASSUME CommandInit PROVE CommandInv
  OBVIOUS
<1>1. \A S : <<>> \in Seq(S)
  OBVIOUS
<1>2. 1 .. Len(<<>>) = {}
  OBVIOUS
<1>3. Elements(<<>>) = {} /\ Numbers(<<>>) = {}
  BY <1>2 DEF Elements, Numbers
<1>4. Orders(<<>>, <<>>, {}, {})
  BY <1>2 DEF Orders
<1>5. Increasing(<<>>) /\ Rising(<<>>)
  BY <1>2 DEF Increasing, Rising
<1>6. 0 \in 0 .. MaxRequests /\ 0 \in 0 .. MaxFaults
  BY CommandAssumption
<1>7. /\ sent = 0 /\ faults = 0 /\ awaited = "nothing" /\ session = FALSE /\ failed = 0
      /\ line = <<>> /\ fifo = <<>> /\ matched = FALSE /\ sending = <<>> /\ arrived = <<>>
      /\ done = <<>> /\ taken = <<>>
  BY DEF CommandInit
<1>8. /\ failed \in Nat /\ failed + (IF awaited = "nothing" THEN 0 ELSE 1) <= sent
  BY <1>7
<1>9. matched \in BOOLEAN /\ session \in BOOLEAN
  BY <1>7
<1>10. /\ line \in Seq(ByteOf(sent)) /\ fifo \in Seq(ByteOf(sent))
      /\ sending \in Seq(FrameOf(sent)) /\ arrived \in Seq(FrameOf(sent))
      /\ done \in Seq(1 .. sent) /\ taken \in Seq(1 .. sent)
  BY <1>1, <1>7
<1>11. /\ Orders(fifo, <<>>, Elements(done), Elements(line))
       /\ \A i, j \in 1 .. Len(line) : i < j => Before(line[i], line[j])
  BY <1>2, <1>3, <1>4, <1>7
<1>12. /\ Increasing(done) /\ Increasing(taken) /\ Rising(sending) /\ Rising(arrived)
       /\ AllBelow(Numbers(arrived), Numbers(sending))
       /\ AllBelow(Elements(taken), Numbers(arrived) \cup Numbers(sending))
       /\ Numbers(sending) \cup Numbers(arrived) \cup Elements(taken) \subseteq Elements(done)
  BY <1>3, <1>5, <1>7 DEF AllBelow
<1>13. sent \in 0 .. MaxRequests /\ faults \in 0 .. MaxFaults /\ awaited \in Commands \cup {"nothing"}
  BY <1>6, <1>7
<1> QED BY <1>8, <1>10, <1>11, <1>12, <1>13, <1>9 DEF CommandInv

(* srv_com_mst_process, fed and parsed: executed commands stay in order.   *)
LEMMA ServiceInv == CommandInv /\ Service => CommandInv'
<1> SUFFICES ASSUME CommandInv, Service PROVE CommandInv'
  OBVIOUS
<1>1. PICK k \in {Min({r, Len(line)}) : r \in Reads} :
        /\ line' = SubSeq(line, k + 1, Len(line))
        /\ IF session THEN UNCHANGED <<parser, session, sending, done>>
           ELSE Feed(SubSeq(line, 1, k))
  BY DEF Service
<1> DEFINE b == SubSeq(line, k + 1, Len(line))
           bytes == SubSeq(line, 1, k)
<1>2. k \in 0 .. Len(line) /\ Len(line) \in Nat
  <2>1. Len(line) \in Nat
    BY LenProperties DEF CommandInv
  <2>2. PICK r \in Reads : k = Min({r, Len(line)})
    OBVIOUS
  <2>3. r \in Nat
    BY CommandAssumption
  <2>4. k \in {r, Len(line)} /\ k <= Len(line)
    <3>1. \E x \in {r, Len(line)} : \A y \in {r, Len(line)} : x <= y
      BY <2>1, <2>3
    <3>2. k \in {r, Len(line)} /\ \A y \in {r, Len(line)} : k <= y
      BY <2>2, <3>1 DEF Min
    <3> QED BY <3>2
  <2> QED BY <2>1, <2>3, <2>4
<1>3. /\ b \in Seq(ByteOf(sent)) /\ Len(b) \in Nat
      /\ \A i \in 1 .. Len(b) : k + 1 + i - 1 \in 1 .. Len(line) /\ b[i] = line[k + 1 + i - 1]
  <2>1. k + 1 \in 1 .. Len(line) + 1
    BY <1>2
  <2> QED BY <2>1, LastPart, LenProperties DEF CommandInv
<1> HIDE DEF b
<1>4. line' = b
  BY <1>1 DEF b
<1>5. \A i, j \in 1 .. Len(b) : i < j => Before(b[i], b[j])
  <2> SUFFICES ASSUME NEW i \in 1 .. Len(b), NEW j \in 1 .. Len(b), i < j
               PROVE  Before(b[i], b[j])
    OBVIOUS
  <2>1. k + 1 + i - 1 < k + 1 + j - 1
    BY <1>2, <1>3
  <2> QED BY <1>3, <2>1 DEF CommandInv
<1>6. /\ Elements(b) \subseteq ByteOf(sent)
      /\ \A t \in Elements(b) : t \in Elements(line)
  <2>1. Elements(b) = {b[i] : i \in 1 .. Len(b)} /\ Elements(b) \subseteq ByteOf(sent)
    BY <1>3, ElementsOf
  <2>2. \A i \in 1 .. Len(line) : line[i] \in Elements(line)
    BY ElementsOf DEF CommandInv
  <2> QED BY <1>3, <2>1, <2>2
<1>7. UNCHANGED <<sent, awaited, arrived, taken, faults>>
  BY DEF Service
<1>8. failed' \in Nat /\ failed' + (IF awaited = "nothing" THEN 0 ELSE 1) <= sent
  <2>1. failed' = 0 \/ failed' = failed
    BY DEF Service
  <2> QED BY <2>1 DEF CommandInv
<1>9. CASE session
  <2>1. UNCHANGED <<fifo, matched, session, sending, done>>
    BY <1>1, <1>9 DEF parser
  <2>2. Orders(fifo, <<>>, Elements(done), Elements(b))
    BY <1>6 DEF CommandInv, Orders
  <2> QED BY <1>3, <1>4, <1>5, <1>7, <1>8, <2>1, <2>2 DEF CommandInv
<1>10. CASE ~session
  <2> DEFINE s == Fed(bytes)
             o == s.out
             m == [i \in DOMAIN o |-> o[i][1]]
  <2>1. Keeps(Loaded(bytes), sent, Elements(done), Elements(b))
    BY <1>2, LoadedKeeps DEF CommandInv, b
  <2>2. Keeps(s, sent, Elements(done), Elements(b))
    <3>1. sent \in Nat
      BY DEF CommandInv
    <3> HIDE DEF bytes
    <3> QED BY <1>6, <2>1, <3>1, FedKeeps
  <2>3. /\ fifo' = s.fifo /\ matched' = s.matched
        /\ sending' = sending \o o /\ done' = done \o m /\ session' \in BOOLEAN
    BY <1>1, <1>10 DEF Feed
  <2> HIDE DEF s
  <2>4. /\ s.fifo \in Seq(ByteOf(sent)) /\ s.matched \in BOOLEAN /\ o \in Seq(FrameOf(sent))
        /\ Orders(s.fifo, o, Elements(done), Elements(b))
    BY <2>2 DEF Keeps, Parser
  <2> HIDE DEF o
  <2>5. /\ sending' \in Seq(FrameOf(sent)) /\ Rising(sending')
        /\ done' \in Seq(1 .. sent) /\ Increasing(done')
        /\ Elements(done') = Elements(done) \cup Numbers(o)
        /\ Numbers(sending') = Numbers(sending) \cup Numbers(o)
    <3>1. Rising(o) /\ \A i \in 1 .. Len(o), e \in Elements(done) : e < o[i][1]
      BY <2>4 DEF Orders, Rising
    <3>2. /\ sent \in Nat /\ Numbers(sending) \subseteq Elements(done)
          /\ sending \in Seq(FrameOf(sent)) /\ done \in Seq(1 .. sent)
          /\ Increasing(done) /\ Rising(sending)
      BY DEF CommandInv
    <3> HIDE DEF m
    <3>3. o \in Seq(FrameOf(sent))
      BY <2>4
    <3>4. LET p == sending \o o
              c == done \o [i \in DOMAIN o |-> o[i][1]]
          IN  /\ p \in Seq(FrameOf(sent)) /\ Rising(p)
              /\ c \in Seq(1 .. sent) /\ Increasing(c)
              /\ Elements(c) = Elements(done) \cup Numbers(o)
              /\ Numbers(p) = Numbers(sending) \cup Numbers(o)
      BY <3>1, <3>2, <3>3, QueueKeeps
    <3> QED BY <2>3, <3>4 DEF m
  <2>6. AllBelow(Elements(done), Numbers(o))
    BY <2>4 DEF Orders, AllBelow, Numbers
  <2>7. Orders(fifo', <<>>, Elements(done'), Elements(b))
    <3>1. \A i \in 1 .. Len(s.fifo), d \in Numbers(o) : d < s.fifo[i][1]
      BY <2>4 DEF Orders, Numbers
    <3>2. \A t \in Elements(b), d \in Numbers(o) : d < t[1]
      BY <2>4 DEF Orders, Numbers
    <3>3. 1 .. Len(<<>>) = {}
      OBVIOUS
    <3> QED BY <2>3, <2>4, <2>5, <3>1, <3>2, <3>3 DEF Orders
  <2>8. /\ AllBelow(Numbers(arrived), Numbers(sending'))
        /\ AllBelow(Elements(taken), Numbers(arrived) \cup Numbers(sending'))
        /\ Numbers(sending') \cup Numbers(arrived) \cup Elements(taken) \subseteq Elements(done')
    BY <2>5, <2>6 DEF CommandInv, AllBelow
  <2> QED BY <1>3, <1>4, <1>5, <1>7, <1>8, <2>3, <2>4, <2>5, <2>7, <2>8 DEF CommandInv
<1> QED BY <1>9, <1>10

(* What is behind the head of a queue of frames.                           *)
LEMMA BehindHead ==
    ASSUME NEW n \in Nat, NEW s \in Seq(FrameOf(n)), s # <<>>, Rising(s)
    PROVE  /\ Head(s) \in FrameOf(n) /\ Tail(s) \in Seq(FrameOf(n)) /\ Rising(Tail(s))
           /\ Head(s)[1] \in Numbers(s) /\ Numbers(Tail(s)) \subseteq Numbers(s)
           /\ \A e \in Numbers(Tail(s)) : Head(s)[1] < e
<1> DEFINE t == Tail(s)
<1>1. /\ Head(s) \in FrameOf(n) /\ t \in Seq(FrameOf(n)) /\ Len(t) = Len(s) - 1
      /\ \A i \in 1 .. Len(t) : t[i] = s[i + 1]
  BY HeadTailProperties
<1>2. Len(s) \in Nat /\ Len(s) # 0 /\ Head(s) = s[1]
  BY EmptySeq, LenProperties
<1> HIDE DEF t
<1>3. 1 \in 1 .. Len(s) /\ \A i \in 1 .. Len(t) : i + 1 \in 1 .. Len(s) /\ 1 < i + 1
  BY <1>1, <1>2
<1>4. \A i, j \in 1 .. Len(t) : i < j => i + 1 < j + 1
  BY <1>1, <1>2
<1>5. Rising(t)
  BY <1>1, <1>3, <1>4 DEF Rising
<1>6. \A i \in 1 .. Len(t) : t[i][1] \in Numbers(s) /\ s[1][1] < t[i][1]
  BY <1>1, <1>3 DEF Rising, Numbers
<1>7. Numbers(t) = {t[i][1] : i \in 1 .. Len(t)} /\ s[1][1] \in Numbers(s)
  BY <1>3 DEF Numbers
<1> QED BY <1>1, <1>2, <1>5, <1>6, <1>7 DEF t

(* A frame newer than all queued ones goes behind them.                    *)
LEMMA BehindAll ==
    ASSUME NEW n \in Nat, NEW s \in Seq(FrameOf(n)), Rising(s), NEW e \in FrameOf(n),
           \A d \in Numbers(s) : d < e[1]
    PROVE  LET t == Append(s, e) IN
           t \in Seq(FrameOf(n)) /\ Rising(t) /\ Numbers(t) = Numbers(s) \cup {e[1]}
<1> DEFINE t == Append(s, e)
<1>1. /\ t \in Seq(FrameOf(n)) /\ Len(t) = Len(s) + 1 /\ Len(s) \in Nat
      /\ \A i \in 1 .. Len(s) : t[i] = s[i]
      /\ t[Len(s) + 1] = e
  BY AppendProperties, LenProperties
<1> HIDE DEF t
<1>2. \A i \in 1 .. Len(t) : i \in 1 .. Len(s) \/ i = Len(s) + 1
  BY <1>1
<1>3. \A i \in 1 .. Len(s) : i \in 1 .. Len(t) /\ s[i][1] \in Numbers(s)
  BY <1>1 DEF Numbers
<1>4. \A i, j \in 1 .. Len(t) : i < j => i \in 1 .. Len(s)
  BY <1>1
<1>5. Rising(t)
  BY <1>1, <1>2, <1>3, <1>4 DEF Rising
<1>6. Len(s) + 1 \in 1 .. Len(t)
  BY <1>1
<1>7. \A i \in 1 .. Len(t) : t[i][1] \in Numbers(s) \cup {e[1]}
  BY <1>1, <1>2, <1>3
<1>8. \A i \in 1 .. Len(s) : s[i][1] \in Numbers(t)
  BY <1>1, <1>3 DEF Numbers
<1>9. e[1] \in Numbers(t)
  BY <1>1, <1>6 DEF Numbers
<1>10. /\ Numbers(t) = {t[i][1] : i \in 1 .. Len(t)}
       /\ Numbers(s) = {s[i][1] : i \in 1 .. Len(s)}
  BY DEF Numbers
<1>11. Numbers(t) = Numbers(s) \cup {e[1]}
  BY <1>7, <1>8, <1>9, <1>10, SMTT(30)
<1> QED BY <1>1, <1>5, <1>11 DEF t

(* A command newer than all executed ones goes behind them.                *)
LEMMA LaterOne ==
    ASSUME NEW S \in SUBSET Nat, NEW s \in Seq(S), Increasing(s), NEW e \in S,
           \A d \in Elements(s) : d < e
    PROVE  LET t == Append(s, e) IN
           t \in Seq(S) /\ Increasing(t) /\ Elements(t) = Elements(s) \cup {e}
<1> DEFINE t == Append(s, e)
<1>1. /\ t \in Seq(S) /\ Len(t) = Len(s) + 1 /\ Len(s) \in Nat
      /\ \A i \in 1 .. Len(s) : t[i] = s[i]
      /\ t[Len(s) + 1] = e /\ DOMAIN s = 1 .. Len(s)
  BY AppendProperties, LenProperties
<1> HIDE DEF t
<1>2. DOMAIN t = 1 .. Len(t) /\ Len(t) \in Nat
  BY <1>1, LenProperties
<1>3. \A i \in 1 .. Len(t) : i \in 1 .. Len(s) \/ i = Len(s) + 1
  BY <1>1
<1>4. /\ Elements(s) = {s[i] : i \in 1 .. Len(s)}
      /\ Elements(t) = {t[i] : i \in 1 .. Len(t)}
  BY <1>1, <1>2 DEF Elements
<1>5. \A i \in 1 .. Len(s) : i \in 1 .. Len(t) /\ s[i] \in Elements(s)
  BY <1>1, <1>4
<1>6. \A i, j \in 1 .. Len(t) : i < j => i \in 1 .. Len(s)
  BY <1>1
<1>7. Increasing(t)
  BY <1>1, <1>2, <1>3, <1>5, <1>6 DEF Increasing
<1>8. Len(s) + 1 \in 1 .. Len(t)
  BY <1>1
<1>9. \A i \in 1 .. Len(t) : t[i] \in Elements(s) \cup {e}
  BY <1>1, <1>3, <1>5
<1>10. \A i \in 1 .. Len(s) : s[i] \in Elements(t)
  BY <1>1, <1>4, <1>5
<1>11. e \in Elements(t)
  BY <1>1, <1>4, <1>8
<1>12. Elements(t) = Elements(s) \cup {e}
  BY <1>4, <1>9, <1>10, <1>11
<1> QED BY <1>1, <1>7, <1>12 DEF t

(* The steps of the host keep the invariant.                               *)
LEMMA ReadInv == CommandInv /\ Read => CommandInv'
<1> SUFFICES ASSUME CommandInv, Read PROVE CommandInv'
  OBVIOUS
<1> DEFINE a == Head(arrived)
<1>1. /\ sent \in Nat /\ arrived \in Seq(FrameOf(sent)) /\ arrived # <<>> /\ Rising(arrived)
  BY DEF CommandInv, Read
<1>2. /\ a \in FrameOf(sent) /\ Tail(arrived) \in Seq(FrameOf(sent)) /\ Rising(Tail(arrived))
      /\ a[1] \in Numbers(arrived) /\ Numbers(Tail(arrived)) \subseteq Numbers(arrived)
      /\ \A e \in Numbers(Tail(arrived)) : a[1] < e
  BY <1>1, BehindHead
<1>3. /\ UNCHANGED <<line, fifo, matched, session, sending, done, sent, faults>>
      /\ arrived' = Tail(arrived) /\ awaited' = "nothing"
      /\ taken' = IF a[2] = awaited THEN Append(taken, a[1]) ELSE taken
      /\ failed' = (IF a[1] = sent \/ session THEN 0 ELSE failed + 1)
      /\ awaited # "nothing"
  BY DEF Read, Ended, device, parser
<1> HIDE DEF a
<1>4. a[1] \in 1 .. sent /\ \A d \in Elements(taken) : d < a[1]
  BY <1>2 DEF CommandInv, AllBelow, FrameOf
<1>5. /\ taken' \in Seq(1 .. sent) /\ Increasing(taken')
      /\ Elements(taken') \subseteq Elements(taken) \cup {a[1]}
  <2>1. CASE taken' = taken
    BY <2>1 DEF CommandInv
  <2>2. CASE taken' = Append(taken, a[1])
    <3> DEFINE N == 1 .. sent
    <3>1. N \in SUBSET Nat /\ taken \in Seq(N) /\ Increasing(taken) /\ a[1] \in N
      BY <1>1, <1>4 DEF CommandInv
    <3> HIDE DEF N
    <3>2. taken' \in Seq(N) /\ Increasing(taken') /\ Elements(taken') = Elements(taken) \cup {a[1]}
      BY <1>4, <2>2, <3>1, LaterOne
    <3> QED BY <3>2 DEF N
  <2> QED BY <1>3, <2>1, <2>2
<1>6. AllBelow(Elements(taken'), Numbers(arrived') \cup Numbers(sending'))
  BY <1>2, <1>3, <1>5 DEF CommandInv, AllBelow
<1>7. AllBelow(Numbers(arrived'), Numbers(sending'))
  BY <1>2, <1>3 DEF CommandInv, AllBelow
<1>8. Numbers(sending') \cup Numbers(arrived') \cup Elements(taken') \subseteq Elements(done')
  BY <1>2, <1>3, <1>5 DEF CommandInv
<1>9. failed' \in Nat /\ failed' + (IF awaited' = "nothing" THEN 0 ELSE 1) <= sent
  <2>1. failed \in Nat /\ failed + 1 <= sent
    BY <1>3 DEF CommandInv
  <2>2. (failed' = 0 \/ failed' = failed + 1) /\ awaited' = "nothing"
    BY <1>3
  <2> QED BY <1>1, <2>1, <2>2
<1> QED BY <1>2, <1>3, <1>5, <1>6, <1>7, <1>8, <1>9 DEF CommandInv

(* The host gives up on an answer.                                         *)
LEMMA GiveUpInv == CommandInv /\ GiveUp => CommandInv'
<1> SUFFICES ASSUME CommandInv, GiveUp PROVE CommandInv'
  OBVIOUS
<1>1. /\ UNCHANGED <<line, fifo, matched, session, sending, done, sent, arrived, taken>>
      /\ awaited # "nothing" /\ awaited' = "nothing"
      /\ failed' = 0 \/ failed' = failed + 1
  BY DEF GiveUp, Ended, device, parser
<1>2. faults' \in 0 .. MaxFaults
  <2>1. faults' = faults \/ (faults < MaxFaults /\ faults' = faults + 1)
    BY DEF GiveUp
  <2> QED BY <2>1, CommandAssumption DEF CommandInv
<1>3. failed' \in Nat /\ failed' + (IF awaited' = "nothing" THEN 0 ELSE 1) <= sent
  <2>1. failed \in Nat /\ failed + 1 <= sent /\ sent \in Nat
    BY <1>1 DEF CommandInv
  <2> QED BY <1>1, <2>1
<1> QED BY <1>1, <1>2, <1>3 DEF CommandInv

(* An answer goes out.                                                     *)
LEMMA TransmitInv == CommandInv /\ Transmit => CommandInv'
<1> SUFFICES ASSUME CommandInv, Transmit PROVE CommandInv'
  OBVIOUS
<1> DEFINE e == Head(sending)
<1>1. sent \in Nat /\ sending \in Seq(FrameOf(sent)) /\ sending # <<>> /\ Rising(sending)
  BY DEF CommandInv, Transmit
<1>2. /\ e \in FrameOf(sent) /\ Tail(sending) \in Seq(FrameOf(sent)) /\ Rising(Tail(sending))
      /\ e[1] \in Numbers(sending) /\ Numbers(Tail(sending)) \subseteq Numbers(sending)
      /\ \A x \in Numbers(Tail(sending)) : e[1] < x
  BY <1>1, BehindHead
<1>3. /\ UNCHANGED <<line, fifo, matched, session, done, sent, awaited, taken>>
      /\ sending' = Tail(sending)
  BY DEF Transmit, parser
<1>4. \/ arrived' = Append(arrived, e) /\ UNCHANGED <<faults, failed>>
      \/ /\ faults < MaxFaults /\ faults' = faults + 1 /\ failed' = 0
         /\ UNCHANGED arrived
  BY DEF Transmit
<1> HIDE DEF e
<1>5. faults' \in 0 .. MaxFaults /\ failed' \in Nat
      /\ failed' + (IF awaited = "nothing" THEN 0 ELSE 1) <= sent
  <2>1. faults \in 0 .. MaxFaults /\ MaxFaults \in Nat /\ failed \in Nat
        /\ failed + (IF awaited = "nothing" THEN 0 ELSE 1) <= sent
    BY CommandAssumption DEF CommandInv
  <2>2. failed' = 0 \/ failed' = failed
    BY <1>4
  <2>3. faults' \in 0 .. MaxFaults
    BY <1>4, <2>1
  <2> QED BY <1>1, <2>1, <2>2, <2>3
<1>6. /\ arrived' \in Seq(FrameOf(sent)) /\ Rising(arrived')
      /\ Numbers(arrived') \subseteq Numbers(arrived) \cup {e[1]}
  <2>1. /\ arrived \in Seq(FrameOf(sent)) /\ Rising(arrived)
        /\ \A d \in Numbers(arrived) : d < e[1]
    BY <1>2 DEF CommandInv, AllBelow
  <2>2. CASE arrived' = arrived
    BY <2>1, <2>2
  <2>3. CASE arrived' = Append(arrived, e)
    BY <1>1, <1>2, <2>1, <2>3, BehindAll
  <2> QED BY <1>4, <2>2, <2>3
<1>7. AllBelow(Numbers(arrived'), Numbers(sending'))
  BY <1>2, <1>3, <1>6 DEF CommandInv, AllBelow
<1>8. AllBelow(Elements(taken), Numbers(arrived') \cup Numbers(sending'))
  BY <1>2, <1>3, <1>6 DEF CommandInv, AllBelow
<1>9. Numbers(sending') \cup Numbers(arrived') \cup Elements(taken) \subseteq Elements(done)
  BY <1>2, <1>3, <1>6 DEF CommandInv
<1> QED BY <1>2, <1>3, <1>5, <1>6, <1>7, <1>8, <1>9 DEF CommandInv

(* What the line leaves of request n: bytes of it, in their order.         *)
Piece(e, n) ==
    /\ e \in Seq(ByteOf(n)) /\ \A i \in 1 .. Len(e) : e[i][1] = n
    /\ \A i, j \in 1 .. Len(e) : i < j => e[i][3] < e[j][3]

(* A request, its end, and what a cut leaves of it are pieces of one       *)
(* frame.                                                                  *)
LEMMA RequestIsPiece ==
    ASSUME NEW n \in Nat \ {0}, NEW c \in Commands
    PROVE  LET all == RequestBytes(n, c) IN
           /\ Piece(all, n) /\ Len(all) = FrameLen
           /\ \A i \in 1 .. FrameLen : all[i] = <<n, c, i>> /\ all[i] \in ByteOf(n)
<1> DEFINE all == RequestBytes(n, c)
<1>1. n \in 1 .. n /\ FrameLen \in Nat
  BY DEF FrameLen
<1>2. \A i \in 1 .. FrameLen : <<n, c, i>> \in ByteOf(n)
  BY <1>1 DEF ByteOf
<1>3. all \in [1 .. FrameLen -> ByteOf(n)] /\ \A i \in 1 .. FrameLen : all[i] = <<n, c, i>>
  BY <1>2 DEF RequestBytes
<1> HIDE DEF all
<1>4. all \in Seq(ByteOf(n))
  BY <1>1, <1>3, SeqDef
<1>5. DOMAIN all = 1 .. FrameLen /\ DOMAIN all = 1 .. Len(all) /\ Len(all) \in Nat
  BY <1>3, <1>4, LenProperties
<1>6. Len(all) = FrameLen
  BY <1>1, <1>5
<1>7. Piece(all, n)
  BY <1>3, <1>4, <1>6 DEF Piece
<1> QED BY <1>2, <1>3, <1>6, <1>7 DEF all

(* Its end.                                                                *)
LEMMA EndIsPiece ==
    ASSUME NEW n \in Nat \ {0}, NEW c \in Commands, NEW j \in 1 .. FrameLen + 1
    PROVE  Piece(SubSeq(RequestBytes(n, c), j, FrameLen), n)
<1> DEFINE all == RequestBytes(n, c)
           e == SubSeq(all, j, FrameLen)
<1>1. /\ Piece(all, n) /\ Len(all) = FrameLen
      /\ \A i \in 1 .. FrameLen : all[i] = <<n, c, i>>
  BY RequestIsPiece
<1> HIDE DEF all
<1>2. /\ e \in Seq(ByteOf(n)) /\ Len(e) \in Nat
      /\ \A k \in 1 .. Len(e) : j + k - 1 \in 1 .. FrameLen /\ e[k] = all[j + k - 1]
  BY <1>1, LastPart, LenProperties DEF Piece
<1> HIDE DEF e
<1>3. \A k \in 1 .. Len(e) : e[k][1] = n /\ e[k][3] = j + k - 1
  BY <1>1, <1>2
<1>4. \A i, k \in 1 .. Len(e) : i < k => j + i - 1 < j + k - 1
  BY <1>2
<1> QED BY <1>2, <1>3, <1>4 DEF Piece, e, all

(* What a cut leaves.                                                      *)
LEMMA RemainsArePiece ==
    ASSUME NEW n \in Nat \ {0}, NEW c \in Commands, NEW left \in Remains
    PROVE  Piece([k \in DOMAIN left |-> RequestBytes(n, c)[left[k]]], n)
<1> DEFINE all == RequestBytes(n, c)
           e == [k \in DOMAIN left |-> all[left[k]]]
<1>1. \A i \in 1 .. FrameLen : all[i] = <<n, c, i>> /\ all[i] \in ByteOf(n)
  BY RequestIsPiece
<1> HIDE DEF all
<1>2. /\ left \in Seq(1 .. FrameLen)
      /\ \A i, j \in DOMAIN left : i < j => left[i] < left[j]
  BY CommandAssumption
<1>3. DOMAIN left = 1 .. Len(left) /\ Len(left) \in Nat
  BY <1>2, LenProperties
<1>4. \A k \in 1 .. Len(left) : left[k] \in 1 .. FrameLen
  <2> DEFINE S == 1 .. FrameLen
  <2>1. left \in Seq(S)
    BY <1>2
  <2> HIDE DEF S
  <2>2. \A k \in 1 .. Len(left) : left[k] \in S
    BY <2>1, ElementOfSeq
  <2> QED BY <2>2 DEF S
<1>5. e = [k \in 1 .. Len(left) |-> all[left[k]]]
  BY <1>3
<1> HIDE DEF e
<1>6. e \in [1 .. Len(left) -> ByteOf(n)] /\ \A k \in 1 .. Len(left) : e[k] = <<n, c, left[k]>>
  BY <1>1, <1>4, <1>5
<1>7. e \in Seq(ByteOf(n))
  BY <1>3, <1>6, SeqDef
<1>8. DOMAIN e = 1 .. Len(left) /\ DOMAIN e = 1 .. Len(e) /\ Len(e) \in Nat
  BY <1>6, <1>7, LenProperties
<1>9. Len(e) = Len(left)
  BY <1>3, <1>8
<1>10. \A k \in 1 .. Len(e) : e[k][1] = n /\ e[k][3] = left[k]
  BY <1>6, <1>9
<1>11. \A i, k \in 1 .. Len(e) : i < k => left[i] < left[k]
  BY <1>2, <1>3, <1>9
<1>12. Piece(e, n)
  BY <1>7, <1>10, <1>11 DEF Piece
<1> QED BY <1>12 DEF e, all

(* The bytes of a new request come behind all others.                      *)
LEMMA PieceKeeps ==
    ASSUME NEW n \in Nat, NEW e, Piece(e, n + 1), NEW x \in Seq(ByteOf(n)),
           NEW f \in Seq(ByteOf(n)), NEW D \in SUBSET (1 .. n),
           Orders(f, <<>>, D, Elements(x)),
           \A i, j \in 1 .. Len(x) : i < j => Before(x[i], x[j])
    PROVE  LET y == x \o e IN
           /\ y \in Seq(ByteOf(n + 1))
           /\ Orders(f, <<>>, D, Elements(y))
           /\ \A i, j \in 1 .. Len(y) : i < j => Before(y[i], y[j])
<1> DEFINE y == x \o e
<1>1. x \in Seq(ByteOf(n + 1)) /\ e \in Seq(ByteOf(n + 1))
  <2>1. ByteOf(n) \subseteq ByteOf(n + 1)
    <3>1. 1 .. n \subseteq 1 .. n + 1
      OBVIOUS
    <3> QED BY <3>1 DEF ByteOf
  <2> QED BY <2>1, SeqMonotonic DEF Piece
<1>2. /\ y \in Seq(ByteOf(n + 1)) /\ Len(x) \in Nat /\ Len(y) \in Nat
      /\ \A k \in 1 .. Len(y) : \/ k \in 1 .. Len(x) /\ y[k] = x[k]
                                \/ /\ k > Len(x) /\ k - Len(x) \in 1 .. Len(e)
                                   /\ y[k] = e[k - Len(x)]
  BY <1>1, Joined, LenProperties
<1> HIDE DEF y
<1>3. /\ \A i \in 1 .. Len(x) : x[i][1] \in 1 .. n /\ x[i] \in Elements(x)
      /\ \A i \in 1 .. Len(f) : f[i][1] \in 1 .. n
  <2>1. \A b \in ByteOf(n) : b[1] \in 1 .. n
    BY DEF ByteOf
  <2> QED BY <2>1, ElementsOf
<1>4. /\ \A i \in 1 .. Len(e) : e[i][1] = n + 1
      /\ \A i, j \in 1 .. Len(e) : i < j => Before(e[i], e[j])
  BY DEF Piece, Before
<1>5. \A i, j \in 1 .. Len(y) : i < j => Before(y[i], y[j])
  <2> SUFFICES ASSUME NEW i \in 1 .. Len(y), NEW j \in 1 .. Len(y), i < j
               PROVE  Before(y[i], y[j])
    OBVIOUS
  <2>1. CASE j \in 1 .. Len(x) /\ y[j] = x[j]
    <3>1. i \in 1 .. Len(x) /\ y[i] = x[i]
      BY <1>2, <2>1
    <3> QED BY <2>1, <3>1
  <2>2. CASE /\ i \in 1 .. Len(x) /\ y[i] = x[i]
             /\ j - Len(x) \in 1 .. Len(e) /\ y[j] = e[j - Len(x)]
    <3>1. y[i][1] \in 1 .. n /\ y[j][1] = n + 1
      BY <1>3, <1>4, <2>2
    <3> QED BY <3>1 DEF Before
  <2>3. CASE /\ i - Len(x) \in 1 .. Len(e) /\ y[i] = e[i - Len(x)]
             /\ j - Len(x) \in 1 .. Len(e) /\ y[j] = e[j - Len(x)]
    <3>1. i - Len(x) < j - Len(x)
      BY <1>2
    <3> QED BY <1>4, <2>3, <3>1
  <2> QED BY <1>2, <2>1, <2>2, <2>3
<1>6. \A t \in Elements(y) : t \in Elements(x) \/ t[1] = n + 1
  <2>1. Elements(y) = {y[k] : k \in 1 .. Len(y)}
    BY <1>2, ElementsOf
  <2>2. \A k \in 1 .. Len(y) : y[k] \in Elements(x) \/ y[k][1] = n + 1
    BY <1>2, <1>3, <1>4
  <2> QED BY <2>1, <2>2
<1>7. \A i \in 1 .. Len(f), t \in Elements(y) : Before(f[i], t)
  <2> SUFFICES ASSUME NEW i \in 1 .. Len(f), NEW t \in Elements(y)
               PROVE  Before(f[i], t)
    OBVIOUS
  <2>1. CASE t \in Elements(x)
    BY <2>1 DEF Orders
  <2>2. CASE t[1] = n + 1
    BY <1>3, <2>2 DEF Before
  <2> QED BY <1>6, <2>1, <2>2
<1>8. \A t \in Elements(y), d \in D : d < t[1]
  <2> SUFFICES ASSUME NEW t \in Elements(y), NEW d \in D PROVE d < t[1]
    OBVIOUS
  <2>1. CASE t \in Elements(x)
    BY <2>1 DEF Orders
  <2>2. CASE t[1] = n + 1
    BY <2>2
  <2> QED BY <1>6, <2>1, <2>2
<1>9. 1 .. Len(<<>>) = {}
  OBVIOUS
<1>10. Orders(f, <<>>, D, Elements(y))
  BY <1>7, <1>8, <1>9 DEF Orders
<1> QED BY <1>2, <1>5, <1>10 DEF y

(* The host asks: the newest command is newer than all the bytes there     *)
(* are.                                                                    *)
LEMMA AskInv ==
    ASSUME CommandInv, NEW c \in Commands, Ask(c)
    PROVE  CommandInv'
<1> DEFINE all == RequestBytes(sent + 1, c)
           M == sent + 1
<1>1. /\ sent \in Nat /\ sent < MaxRequests /\ sent' = sent + 1 /\ awaited' = c
      /\ arrived' = <<>> /\ awaited = "nothing"
      /\ UNCHANGED <<fifo, matched, session, done, taken>>
  BY DEF CommandInv, Ask, Flushed, parser
<1>2. \E e : Piece(e, sent + 1) /\ line' = line \o e
  <2>1. sent + 1 \in Nat \ {0}
    BY <1>1
  <2>2. CASE line' = line \o all
    BY <2>1, <2>2, RequestIsPiece
  <2>3. ASSUME NEW j \in {4, FrameLen + 1}, line' = line \o SubSeq(all, j, FrameLen)
        PROVE  \E e : Piece(e, sent + 1) /\ line' = line \o e
    <3>1. j \in 1 .. FrameLen + 1
      BY DEF FrameLen
    <3> QED BY <2>1, <2>3, <3>1, EndIsPiece
  <2>4. ASSUME NEW left \in Remains, line' = line \o [k \in DOMAIN left |-> all[left[k]]]
        PROVE  \E e : Piece(e, sent + 1) /\ line' = line \o e
    BY <2>1, <2>4, RemainsArePiece
  <2>5. \/ line' = line \o all
        \/ \E j \in {4, FrameLen + 1} : line' = line \o SubSeq(all, j, FrameLen)
        \/ \E left \in Remains : line' = line \o [k \in DOMAIN left |-> all[left[k]]]
    BY <1>1 DEF Ask
  <2> HIDE DEF all
  <2> QED BY <2>2, <2>3, <2>4, <2>5
<1>3. PICK e : Piece(e, sent + 1) /\ line' = line \o e
  BY <1>2
<1>4. Elements(done) \subseteq 1 .. sent /\ Elements(taken) \subseteq 1 .. sent
  <2> DEFINE N == 1 .. sent
  <2>1. done \in Seq(N) /\ taken \in Seq(N)
    BY DEF CommandInv
  <2> HIDE DEF N
  <2>2. Elements(done) \subseteq N /\ Elements(taken) \subseteq N
    BY <2>1, ElementsOf
  <2> QED BY <2>2 DEF N
<1>5. /\ line' \in Seq(ByteOf(sent'))
      /\ Orders(fifo', <<>>, Elements(done'), Elements(line'))
      /\ \A i, j \in 1 .. Len(line') : i < j => Before(line'[i], line'[j])
  <2>1. /\ line \in Seq(ByteOf(sent)) /\ fifo \in Seq(ByteOf(sent))
        /\ Orders(fifo, <<>>, Elements(done), Elements(line))
        /\ \A i, j \in 1 .. Len(line) : i < j => Before(line[i], line[j])
    BY DEF CommandInv
  <2>2. Elements(done) \in SUBSET (1 .. sent)
    BY <1>4
  <2>3. LET y == line \o e IN
        /\ y \in Seq(ByteOf(sent + 1))
        /\ Orders(fifo, <<>>, Elements(done), Elements(y))
        /\ \A i, j \in 1 .. Len(y) : i < j => Before(y[i], y[j])
    BY <1>1, <1>3, <2>1, <2>2, PieceKeeps
  <2> QED BY <1>1, <1>3, <2>3
<1>6. /\ fifo \in Seq(ByteOf(M)) /\ sending \in Seq(FrameOf(M))
      /\ done \in Seq(1 .. M) /\ taken \in Seq(1 .. M)
  <2> DEFINE N == 1 .. sent
             R == 1 .. M
  <2>1. N \subseteq R
    BY <1>1
  <2>2. ByteOf(sent) \subseteq ByteOf(M) /\ FrameOf(sent) \subseteq FrameOf(M)
    BY <2>1 DEF ByteOf, FrameOf
  <2>3. /\ fifo \in Seq(ByteOf(sent)) /\ sending \in Seq(FrameOf(sent))
        /\ done \in Seq(N) /\ taken \in Seq(N)
    BY DEF CommandInv
  <2> HIDE DEF N, R, M
  <2>4. done \in Seq(R) /\ taken \in Seq(R)
    BY <2>1, <2>3, SeqMonotonic
  <2>5. fifo \in Seq(ByteOf(M)) /\ sending \in Seq(FrameOf(M))
    BY <2>2, <2>3, SeqMonotonic
  <2> QED BY <2>4, <2>5 DEF R
<1>7. /\ sending' \in Seq(FrameOf(M)) /\ Rising(sending')
      /\ Numbers(sending') \subseteq Numbers(sending)
  <2>1. CASE sending' = sending
    BY <1>6, <2>1 DEF CommandInv
  <2>2. CASE sending # <<>> /\ sending' = Tail(sending)
    <3> HIDE DEF M
    <3>1. M \in Nat
      BY <1>1 DEF M
    <3>2. Rising(sending)
      BY DEF CommandInv
    <3> QED BY <1>6, <2>2, <3>1, <3>2, BehindHead
  <2>3. sending' = sending \/ (sending # <<>> /\ sending' = Tail(sending))
    BY DEF Ask
  <2> QED BY <2>1, <2>2, <2>3
<1>8. arrived' \in Seq(FrameOf(M)) /\ Rising(arrived') /\ Numbers(arrived') = {}
  <2>1. 1 .. Len(<<>>) = {}
    OBVIOUS
  <2>2. <<>> \in Seq(FrameOf(M))
    OBVIOUS
  <2> QED BY <1>1, <2>1, <2>2 DEF Rising, Numbers
<1>9. /\ AllBelow(Numbers(arrived'), Numbers(sending'))
      /\ AllBelow(Elements(taken), Numbers(arrived') \cup Numbers(sending'))
      /\ Numbers(sending') \cup Numbers(arrived') \cup Elements(taken) \subseteq Elements(done)
  BY <1>7, <1>8 DEF CommandInv, AllBelow
<1>10. /\ failed' \in Nat /\ failed' + (IF awaited' = "nothing" THEN 0 ELSE 1) <= sent'
       /\ faults' \in 0 .. MaxFaults
  <2>1. failed \in Nat /\ failed <= sent /\ faults \in 0 .. MaxFaults /\ MaxFaults \in Nat
    BY <1>1, CommandAssumption DEF CommandInv
  <2>2. \/ UNCHANGED <<faults, failed>>
        \/ faults < MaxFaults /\ faults' = faults + 1 /\ failed' = 0
    BY DEF Ask
  <2> QED BY <1>1, <2>1, <2>2
<1>11. /\ sent' \in 0 .. MaxRequests /\ awaited' \in Commands \cup {"nothing"}
       /\ sent' = M /\ session \in BOOLEAN /\ matched \in BOOLEAN
       /\ Increasing(done) /\ Increasing(taken)
  BY <1>1, CommandAssumption DEF CommandInv
<1> HIDE DEF M
<1> QED BY <1>1, <1>5, <1>6, <1>7, <1>8, <1>9, <1>10, <1>11 DEF CommandInv

(* The end of a session and standing still.                                *)
LEMMA SessionEndsInv == CommandInv /\ SessionEnds => CommandInv'
BY DEF CommandInv, SessionEnds, parser, host

LEMMA CommandStutterInv == CommandInv /\ UNCHANGED commandVars => CommandInv'
BY DEF CommandInv, commandVars, device, host, parser

(* Every step keeps the invariant.                                         *)
LEMMA CommandNextInv == CommandInv /\ [CommandNext]_commandVars => CommandInv'
<1> SUFFICES ASSUME CommandInv, [CommandNext]_commandVars PROVE CommandInv'
  OBVIOUS
<1>1. ASSUME NEW c \in Commands, Ask(c) PROVE CommandInv'
  BY <1>1, AskInv
<1>2. CASE Read
  BY <1>2, ReadInv
<1>3. CASE GiveUp
  BY <1>3, GiveUpInv
<1>4. CASE HostRests
  BY <1>4, CommandStutterInv DEF HostRests
<1>5. CASE Service
  BY <1>5, ServiceInv
<1>6. CASE Transmit
  BY <1>6, TransmitInv
<1>7. CASE SessionEnds
  BY <1>7, SessionEndsInv
<1>8. CASE UNCHANGED commandVars
  BY <1>8, CommandStutterInv
<1> QED BY <1>1, <1>2, <1>3, <1>4, <1>5, <1>6, <1>7, <1>8 DEF CommandNext

(* The parser, the queues and the host's record of them, together.         *)
THEOREM CommandInvariant == CommandSpec => []CommandInv
BY CommandInitInv, CommandNextInv, PTL DEF CommandSpec

(* What the invariant says of types.                                       *)
LEMMA InvCommandTypes == CommandInv => CommandTypeOK
<1> SUFFICES ASSUME CommandInv PROVE CommandTypeOK
  OBVIOUS
<1>1. Bytes = ByteOf(sent) /\ Pairs = FrameOf(sent) /\ sent \in Nat
  BY DEF Bytes, Pairs, ByteOf, FrameOf, CommandInv
<1>2. Elements(line) \cup Elements(fifo) \subseteq Bytes
  BY <1>1, ElementsOf DEF CommandInv
<1>3. Elements(sending) \cup Elements(arrived) \subseteq Pairs
  BY <1>1, ElementsOf DEF CommandInv
<1>4. Elements(done) \cup Elements(taken) \subseteq 1 .. sent
  <2> DEFINE N == 1 .. sent
  <2>1. done \in Seq(N) /\ taken \in Seq(N)
    BY DEF CommandInv
  <2> HIDE DEF N
  <2>2. Elements(done) \subseteq N /\ Elements(taken) \subseteq N
    BY <2>1, ElementsOf
  <2> QED BY <2>2 DEF N
<1>5. failed \in 0 .. sent
  BY <1>1 DEF CommandInv
<1>6. {matched, session} \subseteq BOOLEAN
  BY DEF CommandInv
<1> QED BY <1>2, <1>3, <1>4, <1>5, <1>6 DEF CommandInv, CommandTypeOK

(* Whatever bytes are lost and however the stream is cut into reads, every *)
(* byte, frame and answer is of a request that was sent.                   *)
THEOREM CommandTypes == CommandSpec => []CommandTypeOK
BY InvCommandTypes, CommandInvariant, PTL

(* The board executes each request at most once and in the order in which  *)
(* they were sent, and the answers that the host takes never go back.      *)
THEOREM ExecutedInOrder == CommandSpec => []InOrder
<1>1. CommandInv => InOrder
  BY DEF CommandInv, InOrder
<1> QED BY <1>1, CommandInvariant, PTL

-----------------------------------------------------------------------------
(* Without a fault, host and board take turns.  The parser has the first k *)
(* bytes of request n for command c, the z already taken out once three    *)
(* bytes were there.                                                       *)
Begun(f, m, k, n, c) ==
    /\ m = (k >= 3) /\ Len(f) = (IF k >= 3 THEN k - 1 ELSE k)
    /\ \A i \in 1 .. Len(f) : f[i] = <<n, c, IF k >= 3 THEN i + 1 ELSE i>>
Nothing == fifo = <<>> /\ ~matched
(* The host is at rest, its request is under way, or its answer, or the    *)
(* request is swallowed by a session.                                      *)
AtRest == awaited = "nothing" /\ line = <<>> /\ Nothing /\ sending = <<>> /\ arrived = <<>>
Swallowed == session /\ Nothing /\ sending = <<>> /\ arrived = <<>>
Requested ==
    /\ ~session /\ sending = <<>> /\ arrived = <<>>
    /\ \E k \in 0 .. 5 : /\ Begun(fifo, matched, k, sent, awaited)
                         /\ Len(line) = 6 - k
                         /\ \A i \in 1 .. 6 - k : line[i] = <<sent, awaited, k + i>>
Answered ==
    /\ line = <<>> /\ Nothing
    /\ \/ sending = <<<<sent, awaited>>>> /\ arrived = <<>>
       \/ sending = <<>> /\ arrived = <<<<sent, awaited>>>>
TakingTurns ==
    faults = 0 =>
        /\ failed = 0
        /\ AtRest \/ (awaited # "nothing" /\ (Swallowed \/ Requested \/ Answered))

(* What the first round makes of the first t bytes of a request, and every *)
(* further round leaves.                                                   *)
Fits(s, t, n, c) ==
    /\ s \in Parser(n)
    /\ t < 6 => Begun(s.fifo, s.matched, t, n, c) /\ s.out = <<>> /\ s.stop
    /\ t = 6 => s.fifo = <<>> /\ ~s.matched /\ s.out = <<<<n, c>>>>

LEMMA FitsStay ==
    ASSUME NEW n \in Nat, NEW c, NEW t \in 1 .. 6, NEW s, Fits(s, t, n, c)
    PROVE  Fits(Round(s), t, n, c)
<1>1. CASE s.stop
  BY <1>1 DEF Round
<1>2. CASE ~s.stop
  <2> DEFINE r == [s EXCEPT !.stop = TRUE]
  <2>1. t = 6 /\ s \in Parser(n) /\ s.fifo = <<>> /\ ~s.matched /\ s.out = <<<<n, c>>>>
    BY <1>2 DEF Fits
  <2>2. Len(s.fifo) = 0
    BY <2>1
  <2>3. Round(s) = r
    BY <1>2, <2>1, <2>2 DEF Round, Parse
  <2>4. r \in Parser(n) /\ r.fifo = s.fifo /\ r.matched = s.matched /\ r.out = s.out
    BY <2>1 DEF Parser
  <2> HIDE DEF r
  <2> QED BY <2>1, <2>3, <2>4 DEF Fits
<1> QED BY <1>1, <1>2

(* The parser's place in a frame once it has the header.                   *)
LEMMA HeaderFits ==
    ASSUME NEW n \in Nat, NEW c, NEW t \in 3 .. 6, NEW s \in Parser(n), s.out = <<>>, ~s.stop,
           \/ Begun(s.fifo, s.matched, t, n, c)
           \/ /\ ~s.matched /\ Len(s.fifo) = t
              /\ \A i \in 1 .. t : s.fifo[i] = <<n, c, i>>
    PROVE  LET h == Header(s) IN
           /\ h \in Parser(n) /\ h.out = <<>> /\ ~h.stop /\ Begun(h.fifo, h.matched, t, n, c)
<1>1. CASE s.matched
  <2>1. Header(s) = s
    BY <1>1 DEF Header
  <2> QED BY <1>1, <2>1
<1>2. CASE ~s.matched
  <2> DEFINE f == s.fifo
             g == SubSeq(f, 2, Len(f))
             r == [s EXCEPT !.matched = TRUE, !.fifo = g]
  <2>1. Len(f) = t /\ f \in Seq(ByteOf(n)) /\ \A i \in 1 .. t : f[i] = <<n, c, i>>
    BY <1>2 DEF Begun, Parser
  <2>2. Headers(f) = {1}
    <3>1. DOMAIN f = 1 .. t
      BY <2>1, LenProperties
    <3>2. \A i \in 1 .. t : f[i][3] = i
      BY <2>1
    <3>3. 1 \in 1 .. t
      OBVIOUS
    <3> HIDE DEF f
    <3> QED BY <3>1, <3>2, <3>3 DEF Headers
  <2>3. Min(Headers(f)) = 1
    BY <2>2, LeastOf
  <2>4. Header(s) = r
    <3>1. Header(s) = [s EXCEPT !.matched = TRUE,
                   !.fifo = SubSeq(@, Min(Headers(s.fifo)) + 1, Len(@))]
      BY <1>2, <2>2 DEF Header
    <3> QED BY <2>3, <3>1
  <2>5. /\ g \in Seq(ByteOf(n)) /\ Len(g) = t - 1
        /\ \A i \in 1 .. Len(g) : g[i] = <<n, c, i + 1>>
    <3>1. 2 \in 1 .. Len(f) + 1
      BY <2>1
    <3>2. /\ g \in Seq(ByteOf(n)) /\ Len(g) = Len(f) - 2 + 1
          /\ \A i \in 1 .. Len(g) : 2 + i - 1 \in 1 .. Len(f) /\ g[i] = f[2 + i - 1]
      <4> HIDE DEF f
      <4> QED BY <2>1, <3>1, LastPart
    <3> HIDE DEF g, f
    <3>3. Len(g) = t - 1
      BY <2>1, <3>2
    <3>4. ASSUME NEW i \in 1 .. Len(g) PROVE g[i] = <<n, c, i + 1>>
      <4>1. 2 + i - 1 = i + 1 /\ 2 + i - 1 \in 1 .. t
        BY <2>1, <3>2, <3>3
      <4> QED BY <2>1, <3>2, <4>1
    <3> QED BY <3>2, <3>3, <3>4
  <2> HIDE DEF g
  <2>6. r \in Parser(n) /\ r.fifo = g /\ r.matched = TRUE /\ r.out = <<>> /\ ~r.stop
    BY <2>5 DEF Parser
  <2> HIDE DEF r
  <2>7. (TRUE = (t >= 3)) /\ t - 1 = (IF t >= 3 THEN t - 1 ELSE t) /\ t >= 3
    OBVIOUS
  <2>8. Begun(g, TRUE, t, n, c)
    BY <2>5, <2>7 DEF Begun
  <2> QED BY <2>4, <2>6, <2>8
<1> QED BY <1>1, <1>2

(* The first round of a feed.                                              *)
LEMMA ParseFits ==
    ASSUME NEW n \in Nat, NEW c \in Commands, NEW t \in 1 .. 6, NEW s \in Parser(n),
           n \in 1 .. n, s.out = <<>>, ~s.stop,
           \/ t < 6 /\ Begun(s.fifo, s.matched, t, n, c)
           \/ /\ ~s.matched /\ Len(s.fifo) = t
              /\ \A i \in 1 .. t : s.fifo[i] = <<n, c, i>>
           \/ t = 6 /\ Begun(s.fifo, s.matched, t, n, c)
    PROVE  Fits(Parse(s), t, n, c)
<1> DEFINE h == Header(s)
           f == h.fifo
           len == Length(f)
<1>1. CASE t < 3
  <2> DEFINE r == [s EXCEPT !.stop = TRUE]
  <2>1. ~s.matched /\ Len(s.fifo) = t /\ Begun(s.fifo, s.matched, t, n, c)
    <3>1. ~(t >= 3) /\ t # 6 /\ s.matched \in BOOLEAN
      BY <1>1 DEF Parser
    <3>2. CASE Begun(s.fifo, s.matched, t, n, c)
      BY <3>1, <3>2 DEF Begun
    <3>3. CASE ~s.matched /\ Len(s.fifo) = t /\ \A i \in 1 .. t : s.fifo[i] = <<n, c, i>>
      BY <3>1, <3>3 DEF Begun
    <3> QED BY <3>1, <3>2, <3>3
  <2>2. Parse(s) = r
    BY <1>1, <2>1 DEF Parse
  <2>3. r \in Parser(n) /\ r.fifo = s.fifo /\ r.matched = s.matched /\ r.out = s.out /\ r.stop
    BY DEF Parser
  <2> HIDE DEF r
  <2> QED BY <1>1, <2>1, <2>2, <2>3 DEF Fits
<1>2. CASE t >= 3
  <2>1. t \in 3 .. 6
    BY <1>2
  <2>2. h \in Parser(n) /\ h.out = <<>> /\ ~h.stop /\ Begun(f, h.matched, t, n, c)
    BY <2>1, HeaderFits
  <2> HIDE DEF h
  <2>3. /\ f \in Seq(ByteOf(n)) /\ Len(f) = t - 1 /\ h.matched
        /\ \A i \in 1 .. t - 1 : f[i] = <<n, c, i + 1>>
    BY <2>1, <2>2, SMTT(30) DEF Begun, Parser
  <2> HIDE DEF f
  <2>4. len = 5
    <3>1. ~(Len(f) < 2) /\ 2 \in 1 .. t - 1
      BY <2>1, <2>3
    <3>2. f[2] = <<n, c, 3>>
      BY <2>3, <3>1
    <3>3. f[2][3] = 3 /\ Value[3] = 1
      BY <3>2, CommandAssumption
    <3> QED BY <3>1, <3>3 DEF Length, FrameLen
  <2> HIDE DEF len
  <2>5. ~(~s.matched /\ Len(s.fifo) < 3)
    <3>1. CASE Begun(s.fifo, s.matched, t, n, c)
      BY <1>2, <3>1 DEF Begun
    <3>2. CASE Len(s.fifo) = t
      BY <2>1, <3>2
    <3> QED BY <3>1, <3>2
  <2>6. CASE t < 6
    <3> DEFINE r == [h EXCEPT !.stop = TRUE]
    <3>1. Len(f) < len
      BY <2>3, <2>4, <2>6
    <3>2. Parse(s) = r
      BY <2>3, <2>5, <3>1 DEF Parse, h, f, len
    <3>3. r \in Parser(n) /\ r.fifo = f /\ r.matched = h.matched /\ r.out = <<>> /\ r.stop
      BY <2>2 DEF Parser, f
    <3> HIDE DEF r
    <3> QED BY <2>2, <2>6, <3>2, <3>3 DEF Fits
  <2>7. CASE t = 6
    <3>1. len # 0 /\ ~(Len(f) < len) /\ 5 \in 1 .. t - 1 /\ 1 \in 1 .. t - 1
      BY <2>3, <2>4, <2>7
    <3>2. f[5] = <<n, c, 6>> /\ f[1] = <<n, c, 2>> /\ f[len][3] = FrameLen
      <4>1. f[5] = <<n, c, 5 + 1>> /\ f[1] = <<n, c, 1 + 1>>
        BY <2>3, <3>1
      <4> QED BY <2>4, <4>1 DEF FrameLen
    <3>3. Intact(f, len)
      BY <2>3, <2>4, <2>7, <3>2 DEF Intact, FrameLen
    <3>4. SubSeq(f, len + 1, Len(f)) = <<>>
      BY <2>3, <2>4, <2>7, SubSeqEmpty
    <3> DEFINE r == [Unmatched(h) EXCEPT !.fifo = <<>>, !.out = <<<<n, c>>>>]
    <3>5. Parse(s) = r
      <4>1. Parse(s) = [Unmatched(h) EXCEPT
                !.fifo = SubSeq(@, len + 1, Len(@)),
                !.out = IF Intact(f, len) THEN Append(@, <<f[1][1], f[1][2]>>) ELSE @]
        BY <2>3, <2>5, <3>1, <3>2 DEF Parse, h, f, len
      <4>2. Unmatched(h).fifo = f /\ Unmatched(h).out = <<>>
        BY <2>2 DEF Unmatched, Parser, f
      <4>3. Append(<<>>, <<f[1][1], f[1][2]>>) = <<<<n, c>>>>
        BY <3>2
      <4> QED BY <3>3, <3>4, <4>1, <4>2, <4>3
    <3>6. <<<<n, c>>>> \in Seq(FrameOf(n)) /\ <<>> \in Seq(ByteOf(n))
      <4>1. <<n, c>> \in FrameOf(n)
        BY DEF FrameOf
      <4> QED BY <4>1
    <3>7. r \in Parser(n) /\ r.fifo = <<>> /\ ~r.matched /\ r.out = <<<<n, c>>>>
      BY <2>2, <3>6 DEF Parser, Unmatched
    <3> HIDE DEF r
    <3> QED BY <2>7, <3>5, <3>7 DEF Fits
  <2> QED BY <2>1, <2>6, <2>7
<1> QED BY <1>1, <1>2

(* The bytes of a read go behind those that the parser has.                *)
LEMMA LoadedFits ==
    ASSUME NEW n \in Nat, NEW c \in Commands, n \in 1 .. n, NEW k \in 0 .. 5, NEW j \in 1 .. 6 - k,
           fifo \in Seq(ByteOf(n)), matched \in BOOLEAN, Begun(fifo, matched, k, n, c),
           NEW b \in Seq(ByteOf(n)), Len(b) = j, \A i \in 1 .. j : b[i] = <<n, c, k + i>>
    PROVE  LET s == Loaded(b) IN
           /\ s \in Parser(n) /\ s.out = <<>> /\ ~s.stop
           /\ \/ Begun(s.fifo, s.matched, k + j, n, c)
              \/ /\ ~s.matched /\ Len(s.fifo) = k + j
                 /\ \A i \in 1 .. k + j : s.fifo[i] = <<n, c, i>>
<1> DEFINE s == Loaded(b)
           f == fifo \o b
<1>1. /\ f \in Seq(ByteOf(n)) /\ Len(f) = Len(fifo) + Len(b) /\ Len(fifo) \in Nat
      /\ \A i \in 1 .. Len(f) : \/ i \in 1 .. Len(fifo) /\ f[i] = fifo[i]
                                \/ /\ i > Len(fifo) /\ i - Len(fifo) \in 1 .. Len(b)
                                   /\ f[i] = b[i - Len(fifo)]
  BY Joined, LenProperties
<1> HIDE DEF f
<1>2. s = [fifo |-> f, matched |-> matched, out |-> <<>>, stop |-> FALSE]
  BY DEF Loaded, f
<1>3. <<>> \in Seq(FrameOf(n))
  OBVIOUS
<1>4. s \in Parser(n) /\ s.fifo = f /\ s.matched = matched /\ s.out = <<>> /\ ~s.stop
  BY <1>1, <1>2, <1>3 DEF Parser
<1> HIDE DEF s
<1>5. ASSUME k >= 3 PROVE Begun(s.fifo, s.matched, k + j, n, c)
  <2>1. /\ matched = TRUE /\ Len(fifo) = k - 1
        /\ \A i \in 1 .. k - 1 : fifo[i] = <<n, c, i + 1>>
    BY <1>5 DEF Begun
  <2>2. Len(f) = k + j - 1 /\ k + j >= 3
    BY <1>1, <1>5, <2>1
  <2>3. ASSUME NEW i \in 1 .. Len(f) PROVE f[i] = <<n, c, i + 1>>
    <3>1. CASE i \in 1 .. Len(fifo) /\ f[i] = fifo[i]
      BY <2>1, <3>1
    <3>2. CASE i - Len(fifo) \in 1 .. Len(b) /\ f[i] = b[i - Len(fifo)]
      <4>1. i - Len(fifo) \in 1 .. j /\ k + (i - Len(fifo)) = i + 1
        BY <2>1, <2>2, <3>2
      <4>2. b[i - Len(fifo)] = <<n, c, k + (i - Len(fifo))>>
        BY <4>1
      <4> QED BY <3>2, <4>1, <4>2
    <3> QED BY <1>1, <3>1, <3>2
  <2>4. Begun(f, TRUE, k + j, n, c)
    BY <2>2, <2>3 DEF Begun
  <2> QED BY <1>4, <2>1, <2>4
<1>6. ASSUME ~(k >= 3)
      PROVE  ~s.matched /\ Len(s.fifo) = k + j /\ \A i \in 1 .. k + j : s.fifo[i] = <<n, c, i>>
  <2>1. /\ matched = FALSE /\ Len(fifo) = k
        /\ \A i \in 1 .. k : fifo[i] = <<n, c, i>>
    BY <1>6 DEF Begun
  <2>2. Len(f) = k + j
    BY <1>1, <2>1
  <2>3. ASSUME NEW i \in 1 .. k + j PROVE f[i] = <<n, c, i>>
    <3>1. CASE i \in 1 .. Len(fifo) /\ f[i] = fifo[i]
      BY <2>1, <3>1
    <3>2. CASE i - Len(fifo) \in 1 .. Len(b) /\ f[i] = b[i - Len(fifo)]
      <4>1. i - Len(fifo) \in 1 .. j /\ k + (i - Len(fifo)) = i
        BY <2>1, <2>2, <3>2
      <4>2. b[i - Len(fifo)] = <<n, c, k + (i - Len(fifo))>>
        BY <4>1
      <4> QED BY <3>2, <4>1, <4>2
    <3> QED BY <1>1, <2>2, <3>1, <3>2
  <2> QED BY <1>4, <2>1, <2>2, <2>3
<1>7. \/ Begun(s.fifo, s.matched, k + j, n, c)
      \/ /\ ~s.matched /\ Len(s.fifo) = k + j
         /\ \A i \in 1 .. k + j : s.fifo[i] = <<n, c, i>>
  BY <1>5, <1>6
<1> QED BY <1>4, <1>7 DEF s

(* A feed parses a request as soon as its last byte is there.              *)
LEMMA FedFits ==
    ASSUME NEW n \in Nat, NEW c \in Commands, n \in 1 .. n, NEW k \in 0 .. 5, NEW j \in 1 .. 6 - k,
           fifo \in Seq(ByteOf(n)), matched \in BOOLEAN, Begun(fifo, matched, k, n, c),
           NEW b \in Seq(ByteOf(n)), Len(b) = j, \A i \in 1 .. j : b[i] = <<n, c, k + i>>
    PROVE  Fits(Fed(b), k + j, n, c)
<1> DEFINE after == CHOOSE r :
             r = [i \in 0 .. MaxParse |-> IF i = 0 THEN Loaded(b) ELSE Round(r[i - 1])]
           t == k + j
<1>1. Fed(b) = after[MaxParse] /\ MaxParse \in Nat \ {0}
  BY CommandAssumption DEF Fed
<1>2. after = [i \in 0 .. MaxParse |-> IF i = 0 THEN Loaded(b) ELSE Round(after[i - 1])]
  BY <1>1, RoundsExist, ZenonT(30)
<1> HIDE DEF after
<1>3. t \in 1 .. 6
  OBVIOUS
<1>4. Fits(Round(Loaded(b)), t, n, c)
  <2> DEFINE s == Loaded(b)
  <2>1. /\ s \in Parser(n) /\ s.out = <<>> /\ ~s.stop
        /\ \/ Begun(s.fifo, s.matched, t, n, c)
           \/ /\ ~s.matched /\ Len(s.fifo) = t
              /\ \A i \in 1 .. t : s.fifo[i] = <<n, c, i>>
    BY LoadedFits, ZenonT(30)
  <2> HIDE DEF s, t
  <2>2. t < 6 \/ t = 6
    BY <1>3
  <2>3. Fits(Parse(s), t, n, c)
    BY <1>3, <2>1, <2>2, ParseFits
  <2> QED BY <2>1, <2>3 DEF Round, s
<1> DEFINE S == {i \in Nat : i + 1 <= MaxParse => Fits(after[i + 1], t, n, c)}
<1> HIDE DEF t
<1>5. 0 \in S
  <2>1. 1 \in 0 .. MaxParse /\ 0 \in 0 .. MaxParse /\ 1 # 0 /\ 1 - 1 = 0 /\ 0 + 1 = 1
    BY <1>1
  <2>2. after[1] = Round(after[0]) /\ after[0] = Loaded(b)
    BY <1>2, <2>1
  <2> QED BY <1>4, <2>1, <2>2
<1>6. ASSUME NEW i \in Nat, i \in S PROVE i + 1 \in S
  <2> SUFFICES ASSUME i + 2 <= MaxParse PROVE Fits(after[(i + 1) + 1], t, n, c)
    BY <1>1
  <2>1. i + 1 <= MaxParse /\ (i + 1) + 1 \in 0 .. MaxParse /\ (i + 1) + 1 # 0
        /\ ((i + 1) + 1) - 1 = i + 1
    BY <1>1
  <2>2. Fits(after[i + 1], t, n, c) /\ after[(i + 1) + 1] = Round(after[i + 1])
    BY <1>2, <1>6, <2>1
  <2> QED BY <1>3, <2>2, FitsStay
<1> HIDE DEF S
<1>7. MaxParse - 1 \in Nat /\ (MaxParse - 1) + 1 = MaxParse
  BY <1>1
<1>8. MaxParse - 1 \in S
  BY <1>5, <1>6, <1>7, SetInduction
<1> QED BY <1>1, <1>7, <1>8 DEF S, t

(* A read of the main loop, while the request is on the line.              *)
LEMMA ServiceTurns ==
    ASSUME CommandInv, Service, Requested, awaited # "nothing", failed = 0
    PROVE  failed' = 0 /\ awaited' # "nothing" /\ (Requested' \/ Answered')
<1>1. PICK j \in {Min({r, Len(line)}) : r \in Reads} :
        /\ line' = SubSeq(line, j + 1, Len(line))
        /\ IF session THEN UNCHANGED <<parser, session, sending, done>>
           ELSE Feed(SubSeq(line, 1, j))
  BY DEF Service
<1>2. PICK k \in 0 .. 5 : /\ Begun(fifo, matched, k, sent, awaited)
                          /\ Len(line) = 6 - k
                          /\ \A i \in 1 .. 6 - k : line[i] = <<sent, awaited, k + i>>
  BY DEF Requested
<1>3. j \in 1 .. 6 - k
  <2>1. PICK r \in Reads : j = Min({r, Len(line)})
    OBVIOUS
  <2>2. r \in Nat \ {0} /\ Len(line) \in 1 .. 6
    BY <1>2, CommandAssumption
  <2>3. j \in {r, Len(line)} /\ j <= Len(line)
    <3>1. \E x \in {r, Len(line)} : \A y \in {r, Len(line)} : x <= y
      BY <2>2
    <3>2. j \in {r, Len(line)} /\ \A y \in {r, Len(line)} : j <= y
      BY <2>1, <3>1 DEF Min
    <3> QED BY <3>2
  <2> QED BY <1>2, <2>2, <2>3
<1>4. /\ sent \in Nat /\ sent \in 1 .. sent /\ awaited \in Commands
      /\ line \in Seq(ByteOf(sent)) /\ fifo \in Seq(ByteOf(sent)) /\ matched \in BOOLEAN
  BY DEF CommandInv
<1> DEFINE b == SubSeq(line, 1, j)
           rest == SubSeq(line, j + 1, Len(line))
           s == Fed(b)
           t == k + j
<1>5. /\ b \in Seq(ByteOf(sent)) /\ Len(b) = j
      /\ \A i \in 1 .. j : b[i] = <<sent, awaited, k + i>>
  <2>1. j \in 0 .. Len(line)
    BY <1>2, <1>3
  <2>2. b \in Seq(ByteOf(sent)) /\ Len(b) = j /\ \A i \in 1 .. j : b[i] = line[i]
    BY <1>4, <2>1, FirstPart
  <2> HIDE DEF b
  <2> QED BY <1>2, <1>3, <2>2
<1>6. /\ Len(rest) = 6 - t /\ rest \in Seq(ByteOf(sent))
      /\ \A i \in 1 .. 6 - t : rest[i] = <<sent, awaited, t + i>>
  <2>1. j + 1 \in 1 .. Len(line) + 1
    BY <1>2, <1>3
  <2>2. /\ rest \in Seq(ByteOf(sent)) /\ Len(rest) = Len(line) - (j + 1) + 1
        /\ \A i \in 1 .. Len(rest) : j + 1 + i - 1 \in 1 .. Len(line) /\ rest[i] = line[j + 1 + i - 1]
    BY <1>4, <2>1, LastPart
  <2> HIDE DEF rest
  <2>3. Len(rest) = 6 - t
    BY <1>2, <1>3, <2>2
  <2>4. ASSUME NEW i \in 1 .. 6 - t PROVE rest[i] = <<sent, awaited, t + i>>
    <3>1. j + 1 + i - 1 \in 1 .. 6 - k /\ k + (j + 1 + i - 1) = t + i /\ i \in 1 .. Len(rest)
      BY <1>2, <1>3, <2>2, <2>3
    <3>2. line[j + 1 + i - 1] = <<sent, awaited, k + (j + 1 + i - 1)>>
      BY <1>2, <3>1
    <3> QED BY <2>2, <3>1, <3>2
  <2> QED BY <2>2, <2>3, <2>4
<1> HIDE DEF b, rest
<1>7. Fits(s, t, sent, awaited)
  BY <1>2, <1>3, <1>4, <1>5, FedFits
<1>8. /\ ~session /\ sending = <<>> /\ arrived = <<>> /\ line' = rest
      /\ UNCHANGED <<sent, awaited, arrived>> /\ failed' = 0
  BY <1>1 DEF Service, Requested, rest
<1>9. /\ fifo' = s.fifo /\ matched' = s.matched /\ sending' = sending \o s.out
      /\ session' \in IF \E i \in DOMAIN s.out : s.out[i][2] = "upgrade" THEN BOOLEAN ELSE {FALSE}
  BY <1>1, <1>8 DEF Feed, b
<1>10. t \in 1 .. 6
  BY <1>3
<1> HIDE DEF s, t
<1>11. CASE t < 6
  <2>1. Begun(s.fifo, s.matched, t, sent, awaited) /\ s.out = <<>>
    BY <1>7, <1>11 DEF Fits
  <2>2. ~session' /\ sending' = <<>>
    BY <1>8, <1>9, <2>1
  <2>3. t \in 0 .. 5 /\ Begun(fifo', matched', t, sent', awaited')
    BY <1>8, <1>9, <1>10, <1>11, <2>1
  <2>4. Len(line') = 6 - t /\ \A i \in 1 .. 6 - t : line'[i] = <<sent', awaited', t + i>>
    BY <1>6, <1>8
  <2> QED BY <1>8, <2>2, <2>3, <2>4 DEF Requested
<1>12. CASE t = 6
  <2>1. s.fifo = <<>> /\ ~s.matched /\ s.out = <<<<sent, awaited>>>>
    BY <1>7, <1>12 DEF Fits
  <2>2. line' = <<>>
    BY <1>6, <1>8, <1>12, EmptySeq
  <2>3. sending' = <<<<sent, awaited>>>>
    BY <1>8, <1>9, <2>1
  <2> QED BY <1>8, <1>9, <2>1, <2>2, <2>3 DEF Answered, Nothing
<1> QED BY <1>10, <1>11, <1>12

(* Every step without a fault hands the turn on.                           *)
LEMMA TurnsNext ==
    ASSUME CommandInv, TakingTurns, [CommandNext]_commandVars
    PROVE  TakingTurns'
<1> SUFFICES ASSUME faults' = 0
             PROVE  /\ failed' = 0
                    /\ AtRest' \/ (awaited' # "nothing" /\ (Swallowed' \/ Requested' \/ Answered'))
  BY DEF TakingTurns
<1>1. faults \in Nat /\ faults + 1 # 0 /\ sent \in Nat
  BY CommandAssumption DEF CommandInv
<1>2. faults = 0
  BY <1>1 DEF CommandNext, Ask, Read, GiveUp, HostRests, Service, Transmit, SessionEnds,
              commandVars, host, device, parser
<1>3. /\ failed = 0
      /\ AtRest \/ (awaited # "nothing" /\ (Swallowed \/ Requested \/ Answered))
  BY <1>2 DEF TakingTurns
<1>4. Requested => line # <<>>
  BY DEF Requested
<1>5. ASSUME UNCHANGED commandVars
      PROVE  /\ failed' = 0
             /\ AtRest' \/ (awaited' # "nothing" /\ (Swallowed' \/ Requested' \/ Answered'))
  BY <1>3, <1>5 DEF commandVars, host, device, parser, AtRest, Swallowed, Requested, Answered,
                    Nothing, Begun
<1>6. ASSUME NEW c \in Commands, Ask(c)
      PROVE  failed' = 0 /\ awaited' # "nothing" /\ (Swallowed' \/ Requested')
  <2>1. /\ AtRest /\ sent' = sent + 1 /\ awaited' = c /\ c # "nothing" /\ arrived' = <<>>
        /\ UNCHANGED <<fifo, matched, session>>
    BY <1>3, <1>6, CommandAssumption DEF Ask, Flushed, parser
  <2>2. line' = line \o RequestBytes(sent', c) /\ sending' = <<>> /\ failed' = 0
    BY <1>1, <1>2, <1>3, <1>6, <2>1 DEF Ask, AtRest
  <2>3. CASE session
    BY <2>1, <2>2, <2>3 DEF Swallowed, AtRest, Nothing
  <2>4. CASE ~session
    <3> DEFINE all == RequestBytes(sent', c)
    <3>1. /\ all \in Seq(ByteOf(sent')) /\ Len(all) = 6
          /\ \A i \in 1 .. 6 : all[i] = <<sent', c, i>>
      <4>1. all = [i \in 1 .. 6 |-> <<sent', c, i>>]
        BY DEF RequestBytes, FrameLen
      <4>2. sent' \in 1 .. sent'
        BY <1>1, <2>1
      <4> HIDE DEF all
      <4>3. \A i \in 1 .. 6 : all[i] = <<sent', c, i>> /\ all[i] \in ByteOf(sent')
        BY <4>1, <4>2 DEF ByteOf, FrameLen
      <4>4. all \in Seq(ByteOf(sent')) /\ Len(all) = 6
        BY <4>1, <4>3
      <4> QED BY <4>3, <4>4
    <3> HIDE DEF all
    <3>2. line' = all
      BY <2>1, <2>2, <3>1 DEF AtRest, all
    <3>3. Begun(fifo', matched', 0, sent', awaited')
      <4>1. matched' = FALSE /\ fifo' = <<>>
        BY <2>1 DEF AtRest, Nothing, CommandInv
      <4>2. ~(0 >= 3) /\ Len(<<>>) = 0 /\ 1 .. 0 = {}
        OBVIOUS
      <4>3. matched' = (0 >= 3) /\ Len(fifo') = (IF 0 >= 3 THEN 0 - 1 ELSE 0)
        <5>1. FALSE = (0 >= 3)
          OBVIOUS
        <5>2. matched' = (0 >= 3)
          BY <4>1, <5>1, Zenon
        <5>3. Len(fifo') = (IF 0 >= 3 THEN 0 - 1 ELSE 0)
          BY <4>1, <4>2
        <5> QED BY <5>2, <5>3
      <4>4. \A i \in 1 .. Len(fifo') :
              fifo'[i] = <<sent', awaited', IF 0 >= 3 THEN i + 1 ELSE i>>
        BY <4>1, <4>2
      <4> QED BY <4>3, <4>4, Zenon DEF Begun
    <3>4. /\ Len(line') = 6 - 0
          /\ \A i \in 1 .. 6 - 0 : line'[i] = <<sent', awaited', 0 + i>>
      BY <2>1, <3>1, <3>2
    <3>5. 0 \in 0 .. 5 /\ ~session' /\ sending' = <<>> /\ arrived' = <<>>
      BY <2>1, <2>2, <2>4
    <3>6. Requested'
      BY <3>3, <3>4, <3>5 DEF Requested
    <3> QED BY <2>1, <2>2, <3>6
  <2> QED BY <2>1, <2>2, <2>3, <2>4
<1>7. ASSUME Read PROVE failed' = 0 /\ AtRest'
  <2>1. Answered /\ awaited # "nothing" /\ arrived = <<<<sent, awaited>>>>
    BY <1>3, <1>7 DEF Read, AtRest, Swallowed, Requested, Answered
  <2>2. Head(arrived)[1] = sent /\ Tail(arrived) = <<>>
    BY <2>1
  <2>3. failed' = 0
    BY <1>7, <2>2 DEF Read, Ended
  <2> QED BY <1>7, <2>1, <2>2, <2>3 DEF Read, Answered, AtRest, Nothing, device, parser
<1>8. ASSUME GiveUp PROVE failed' = 0 /\ AtRest'
  <2>1. awaited # "nothing" /\ line = <<>> /\ sending = <<>> /\ arrived = <<>> /\ Ended(FALSE)
    BY <1>1, <1>2, <1>8 DEF GiveUp
  <2>2. Swallowed
    <3>1. <<<<sent, awaited>>>> # <<>>
      OBVIOUS
    <3> QED BY <1>3, <1>4, <2>1, <3>1 DEF AtRest, Answered
  <2> QED BY <1>8, <2>1, <2>2 DEF GiveUp, Ended, Swallowed, AtRest, Nothing, device, parser
<1>9. ASSUME Service
      PROVE  failed' = 0 /\ awaited' # "nothing" /\ (Swallowed' \/ Requested' \/ Answered')
  <2>1. line # <<>> /\ awaited # "nothing" /\ (Swallowed \/ Requested)
    BY <1>3, <1>9 DEF Service, AtRest, Answered
  <2>2. CASE Requested
    BY <1>3, <1>9, <2>1, <2>2, ServiceTurns
  <2>3. CASE Swallowed
    <3>1. session /\ UNCHANGED <<parser, session, sending, awaited, arrived>> /\ failed' = 0
      BY <1>9, <2>3 DEF Service, Swallowed
    <3> QED BY <2>1, <2>3, <3>1 DEF Swallowed, Nothing, parser
  <2> QED BY <2>1, <2>2, <2>3
<1>10. ASSUME Transmit PROVE failed' = 0 /\ awaited' # "nothing" /\ Answered'
  <2>1. Answered /\ awaited # "nothing" /\ sending = <<<<sent, awaited>>>> /\ arrived = <<>>
    BY <1>3, <1>10 DEF Transmit, AtRest, Swallowed, Requested, Answered
  <2>2. Tail(sending) = <<>> /\ Append(arrived, Head(sending)) = <<<<sent, awaited>>>>
    BY <2>1
  <2>3. sending' = <<>> /\ arrived' = <<<<sent, awaited>>>> /\ failed' = 0
    BY <1>1, <1>2, <1>3, <1>10, <2>2 DEF Transmit
  <2> QED BY <1>10, <2>1, <2>3 DEF Transmit, Answered, Nothing, parser
<1>11. ASSUME SessionEnds PROVE failed' = 0 /\ AtRest'
  BY <1>3, <1>11 DEF SessionEnds, AtRest, Nothing, parser, host
<1>12. ASSUME HostRests PROVE UNCHANGED commandVars
  BY <1>12 DEF HostRests
<1> QED BY <1>5, <1>6, <1>7, <1>8, <1>9, <1>10, <1>11, <1>12, Zenon DEF CommandNext

(* Host and board take turns until the line is disturbed.                  *)
LEMMA TurnsInit == CommandInit => TakingTurns
BY DEF CommandInit, TakingTurns, AtRest, Nothing

(* Undisturbed: without a fault, every request outside of a session ends   *)
(* with its own answer, whatever the commands, the values of bytes, the    *)
(* sizes of reads and the bound of the parse loop.                         *)
THEOREM UndisturbedAnswers == CommandSpec => []Undisturbed
<1>1. CommandInv /\ TakingTurns /\ [CommandNext]_commandVars => TakingTurns'
  BY TurnsNext
<1>2. TakingTurns => Undisturbed
  BY DEF TakingTurns, Undisturbed
<1> QED BY <1>1, <1>2, TurnsInit, CommandInvariant, PTL DEF CommandSpec

-----------------------------------------------------------------------------
(***************************************************************************)
(* After a fault.  What is left of it: beginnings of frames, in the parser *)
(* or on the line (Left), to which no whole request belongs; bytes that    *)
(* the longest frame which the parser may wait for still lacks (Short);    *)
(* and answers to requests that the host has given up (Answers).  A        *)
(* request that fails uses up some of it.  With its six bytes a frame      *)
(* lacks less; a round of the parse loop deals with one beginning, by      *)
(* dropping it or by handing a frame out, which costs an answer; and a     *)
(* read of another answer leaves one answer fewer.  With two rounds to a   *)
(* feed, a request that is whole is parsed, or two beginnings before it    *)
(* are dealt with.  Nothing of this comes from anywhere but faults, of     *)
(* which there are MaxFaults, and requests that are open.                  *)
(***************************************************************************)

(* The longest frame that the parser may wait for, without its z.          *)
Longest == Max({Value[i] : i \in 1 .. FrameLen}) + FrameLen - 2

(* Requests that make up for the bytes which the longest frame lacks.      *)
MostShort == (Longest + FrameLen - 1) \div FrameLen

(* A bound of Patience.                                                    *)
Most == Longest + MaxFaults + 1
Recovery == 3 * MostShort + 2 * Most + 1

(* The bytes f in the parser and, behind them, those on the line x.        *)
All(f, x) == Len(f) + Len(x)
At(f, x, k) == IF k <= Len(f) THEN f[k] ELSE x[k - Len(f)]

(* A frame begins behind k bytes of them, or with a z that has been taken  *)
(* out (k is 0).                                                           *)
Starts(f, x, m, k) == IF k = 0 THEN m ELSE k \in 1 .. All(f, x) /\ At(f, x, k)[3] = 1

(* It is a request of which nothing is missing.                            *)
Complete(f, x, k, n, c) ==
    /\ k + FrameLen - 1 <= All(f, x)
    /\ \A i \in 1 .. FrameLen : k + i - 1 >= 1 => At(f, x, k + i - 1) = <<n, c, i>>

(* With the bytes of s more requests every other frame is as long as any   *)
(* length says.                                                            *)
Short(f, x, m, s) ==
    \A k \in 0 .. All(f, x) :
        Starts(f, x, m, k) =>
            \/ \E n \in Nat, c \in Commands : Complete(f, x, k, n, c)
            \/ All(f, x) - k + FrameLen * s >= Longest

(* Request n waits for the parser, with command c.                         *)
Pending(f, x, m, n, c) ==
    \E k \in 0 .. All(f, x) : Starts(f, x, m, k) /\ Complete(f, x, k, n, c)

(* Requests whose z is among the bytes S; beginnings of frames that the    *)
(* parser has still to deal with.                                          *)
Firsts(S) == {b[1] : b \in {e \in S : e[3] = 1}}
One(p) == IF p THEN 1 ELSE 0
Begins(f, m, T) == Cardinality(Firsts(Elements(f) \cup T)) + One(m)

(* The requests whose z is on the line; the beginnings on the line and in  *)
(* the parser; whether the host has a request open, and its z is on the    *)
(* line; the answers that are under way.                                   *)
OnLine == Firsts(Elements(line))
Left == Begins(fifo, matched, Elements(line))
Open == awaited # "nothing"
Fresh == One(Open /\ sent \in OnLine)
Answers == Len(sending) + (IF Open THEN Len(arrived) ELSE 0)

(* What requests may still cost that have nothing to do with them.         *)
Cost(s) == 3 * s + 2 * Left + Answers

(* Nothing of the latest request may be left: that it fails is accounted   *)
(* for (an answer that is under way ends it, too).                         *)
Paid ==
    \E s \in 0 .. MostShort :
        /\ Short(fifo, line, matched, s)
        /\ failed + Cost(s) + 1 <= Recovery + One(Answers >= 1)

(* It is whole and will be parsed if nothing is dealt with before it.      *)
Unpaid ==
    /\ Short(fifo, line, matched, 0) /\ line # <<>>
    /\ Pending(fifo, line, matched, sent, awaited)
    /\ failed + Cost(0) <= Recovery + 2 - One(Answers >= 1)

(* The next answer that the host reads is its own.                         *)
Own ==
    \/ arrived # <<>> /\ arrived[1][1] = sent
    \/ arrived = <<>> /\ sending # <<>> /\ sending[1][1] = sent

(* No request is open: what is left behind fits in the bound.              *)
Rested ==
    \E s \in 0 .. MostShort :
        Short(fifo, line, matched, s) /\ failed + Cost(s) <= Recovery

-----------------------------------------------------------------------------
(* The stream of bytes.                                                    *)

(* The stream behind g and y is that behind f and x without d bytes; if    *)
(* it is said to begin inside a frame, the frame begins there.             *)
Behind(f, x, p, g, y, q, d) ==
    /\ d \in Nat /\ All(f, x) \in Nat /\ All(g, y) = All(f, x) - d /\ All(g, y) \in Nat
    /\ \A k \in 1 .. All(g, y) : At(g, y, k) = At(f, x, k + d)
    /\ q => Starts(f, x, p, d)

(* A frame that begins in what is left began before.                       *)
LEMMA ShiftStarts ==
    ASSUME NEW f, NEW x, NEW p, NEW g, NEW y, NEW q, NEW d, Behind(f, x, p, g, y, q, d),
           NEW k \in 0 .. All(g, y), Starts(g, y, q, k)
    PROVE  k + d \in 0 .. All(f, x) /\ Starts(f, x, p, k + d)
<1>1. /\ d \in Nat /\ All(f, x) \in Nat /\ All(g, y) = All(f, x) - d
      /\ k \in Nat /\ k + d \in 0 .. All(f, x)
  BY DEF Behind
<1>2. CASE k = 0
  BY <1>1, <1>2 DEF Behind, Starts
<1>3. CASE k # 0
  <2>1. k \in 1 .. All(g, y) /\ k + d # 0 /\ k + d \in 1 .. All(f, x)
    BY <1>1, <1>3
  <2> QED BY <1>3, <2>1 DEF Behind, Starts
<1> QED BY <1>2, <1>3

(* A request is as whole as it was.                                        *)
LEMMA ShiftComplete ==
    ASSUME NEW f, NEW x, NEW p, NEW g, NEW y, NEW q, NEW d, Behind(f, x, p, g, y, q, d),
           NEW k \in 0 .. All(g, y), NEW n, NEW c, Complete(f, x, k + d, n, c)
    PROVE  Complete(g, y, k, n, c)
<1>1. /\ d \in Nat /\ All(f, x) \in Nat /\ All(g, y) = All(f, x) - d /\ All(g, y) \in Nat
      /\ k \in Nat
  BY DEF Behind
<1>2. k + FrameLen - 1 <= All(g, y)
  BY <1>1 DEF Complete, FrameLen
<1>3. ASSUME NEW i \in 1 .. FrameLen, k + i - 1 >= 1
      PROVE  At(g, y, k + i - 1) = <<n, c, i>>
  <2>1. k + i - 1 \in 1 .. All(g, y) /\ k + d + i - 1 >= 1 /\ (k + i - 1) + d = k + d + i - 1
    BY <1>1, <1>2, <1>3 DEF FrameLen
  <2>2. At(g, y, k + i - 1) = At(f, x, k + d + i - 1)
    BY <2>1 DEF Behind
  <2> QED BY <2>1, <2>2 DEF Complete
<1> QED BY <1>2, <1>3 DEF Complete

(* No frame is shorter for what was taken from the front.                  *)
LEMMA ShiftShort ==
    ASSUME NEW f, NEW x, NEW p, NEW g, NEW y, NEW q, NEW d, Behind(f, x, p, g, y, q, d),
           NEW s, Short(f, x, p, s)
    PROVE  Short(g, y, q, s)
<1> SUFFICES ASSUME NEW k \in 0 .. All(g, y), Starts(g, y, q, k)
             PROVE  \/ \E n \in Nat, c \in Commands : Complete(g, y, k, n, c)
                    \/ All(g, y) - k + FrameLen * s >= Longest
  BY DEF Short
<1>1. k + d \in 0 .. All(f, x) /\ Starts(f, x, p, k + d)
  BY ShiftStarts
<1>2. CASE \E n \in Nat, c \in Commands : Complete(f, x, k + d, n, c)
  BY <1>2, ShiftComplete
<1>3. CASE All(f, x) - (k + d) + FrameLen * s >= Longest
  <2>1. /\ d \in Nat /\ All(f, x) \in Nat /\ All(g, y) = All(f, x) - d /\ k \in Nat
    BY DEF Behind
  <2>2. All(f, x) - (k + d) = All(g, y) - k
    BY <2>1
  <2> QED BY <1>3, <2>2
<1> QED BY <1>1, <1>2, <1>3 DEF Short

(* A request behind what was taken is still pending.                       *)
LEMMA ShiftPending ==
    ASSUME NEW f, NEW x, NEW p, NEW g, NEW y, NEW q, NEW d, Behind(f, x, p, g, y, q, d),
           NEW k \in 0 .. All(f, x), Starts(f, x, p, k), NEW n, NEW c, Complete(f, x, k, n, c),
           k > d \/ (k = d /\ q)
    PROVE  Pending(g, y, q, n, c)
<1>1. /\ d \in Nat /\ All(f, x) \in Nat /\ All(g, y) = All(f, x) - d /\ All(g, y) \in Nat
      /\ k \in Nat /\ k - d \in 0 .. All(g, y) /\ (k - d) + d = k
  BY DEF Behind
<1>2. Starts(g, y, q, k - d)
  <2>1. CASE k = d
    BY <1>1, <2>1 DEF Starts
  <2>2. CASE k > d
    <3>1. k - d \in 1 .. All(g, y) /\ k # 0 /\ k - d # 0
      BY <1>1, <2>2
    <3>2. At(g, y, k - d) = At(f, x, k)
      BY <1>1, <3>1 DEF Behind
    <3> QED BY <3>1, <3>2 DEF Starts
  <2> QED BY <2>1, <2>2
<1>3. Complete(g, y, k - d, n, c)
  <2>1. Complete(f, x, (k - d) + d, n, c)
    BY <1>1
  <2> QED BY <1>1, <2>1, ShiftComplete
<1> QED BY <1>1, <1>2, <1>3 DEF Pending

(* A read takes bytes from the line to the parser: the same stream.        *)
LEMMA ReadBehind ==
    ASSUME NEW S, NEW f \in Seq(S), NEW x \in Seq(S), NEW p \in BOOLEAN, NEW k \in 0 .. Len(x)
    PROVE  Behind(f, x, p, f \o SubSeq(x, 1, k), SubSeq(x, k + 1, Len(x)), p, 0)
<1> DEFINE a == SubSeq(x, 1, k)
           b == SubSeq(x, k + 1, Len(x))
           g == f \o a
<1>1. Len(x) \in Nat /\ k \in Nat /\ k + 1 \in 1 .. Len(x) + 1 /\ Len(f) \in Nat
  BY LenProperties
<1>2. a \in Seq(S) /\ Len(a) = k /\ \A i \in 1 .. k : i \in 1 .. Len(x) /\ a[i] = x[i]
  BY FirstPart
<1>3. /\ b \in Seq(S) /\ Len(b) = Len(x) - (k + 1) + 1
      /\ \A i \in 1 .. Len(b) : k + 1 + i - 1 \in 1 .. Len(x) /\ b[i] = x[k + 1 + i - 1]
  BY <1>1, LastPart
<1>4. /\ Len(g) = Len(f) + Len(a)
      /\ \A i \in 1 .. Len(g) : \/ i \in 1 .. Len(f) /\ g[i] = f[i]
                                \/ /\ i > Len(f) /\ i - Len(f) \in 1 .. Len(a)
                                   /\ g[i] = a[i - Len(f)]
  BY <1>2, Joined
<1> HIDE DEF a, b, g
<1>5. All(g, b) = All(f, x) /\ All(f, x) = Len(f) + Len(x) /\ All(f, x) \in Nat
  BY <1>1, <1>2, <1>3, <1>4 DEF All
<1>6. ASSUME NEW i \in 1 .. All(g, b) PROVE At(g, b, i) = At(f, x, i)
  <2>1. CASE i <= Len(f)
    <3>1. i \in 1 .. Len(g) /\ ~(i > Len(f))
      BY <1>1, <1>2, <1>4, <1>5, <2>1
    <3>2. g[i] = f[i] /\ i <= Len(g)
      BY <1>4, <3>1
    <3> QED BY <2>1, <3>2 DEF At
  <2>2. CASE i > Len(f) /\ i <= Len(g)
    <3>1. i \in 1 .. Len(g) /\ i \notin 1 .. Len(f) /\ ~(i <= Len(f))
      BY <1>1, <1>2, <1>4, <1>5, <2>2
    <3>2. i - Len(f) \in 1 .. k /\ g[i] = a[i - Len(f)]
      BY <1>2, <1>4, <3>1
    <3>3. g[i] = x[i - Len(f)]
      BY <1>2, <3>2
    <3> QED BY <2>2, <3>1, <3>3 DEF At
  <2>3. CASE i > Len(g)
    <3>1. /\ ~(i <= Len(g)) /\ ~(i <= Len(f)) /\ i - Len(g) \in 1 .. Len(b)
          /\ k + 1 + (i - Len(g)) - 1 = i - Len(f)
      BY <1>1, <1>2, <1>3, <1>4, <1>5, <2>3
    <3>2. b[i - Len(g)] = x[i - Len(f)]
      BY <1>3, <3>1
    <3> QED BY <3>1, <3>2 DEF At
  <2> QED BY <1>1, <1>2, <1>4, <1>5, <2>1, <2>2, <2>3
<1>7. p => Starts(f, x, p, 0)
  BY DEF Starts
<1>8. \A i \in 1 .. All(g, b) : i + 0 = i
  BY <1>5
<1> QED BY <1>5, <1>6, <1>7, <1>8 DEF Behind, a, b, g

(* The parser takes m bytes out of its FIFO.                               *)
LEMMA DropBehind ==
    ASSUME NEW S, NEW f \in Seq(S), NEW x \in Seq(S), NEW p \in BOOLEAN, NEW q \in BOOLEAN,
           NEW m \in 0 .. Len(f), q => Starts(f, x, p, m)
    PROVE  Behind(f, x, p, SubSeq(f, m + 1, Len(f)), x, q, m)
<1> DEFINE g == SubSeq(f, m + 1, Len(f))
<1>1. Len(x) \in Nat /\ m \in Nat /\ m + 1 \in 1 .. Len(f) + 1 /\ Len(f) \in Nat
  BY LenProperties
<1>2. /\ g \in Seq(S) /\ Len(g) = Len(f) - (m + 1) + 1
      /\ \A i \in 1 .. Len(g) : m + 1 + i - 1 \in 1 .. Len(f) /\ g[i] = f[m + 1 + i - 1]
  BY <1>1, LastPart
<1> HIDE DEF g
<1>3. /\ All(g, x) = All(f, x) - m /\ All(f, x) = Len(f) + Len(x) /\ All(f, x) \in Nat
      /\ All(g, x) \in Nat
  BY <1>1, <1>2 DEF All
<1>4. ASSUME NEW i \in 1 .. All(g, x) PROVE At(g, x, i) = At(f, x, i + m)
  <2>1. CASE i <= Len(g)
    <3>1. i \in 1 .. Len(g) /\ m + 1 + i - 1 = i + m /\ i + m <= Len(f)
      BY <1>1, <1>2, <1>3, <2>1
    <3>2. g[i] = f[i + m]
      BY <1>2, <3>1
    <3> QED BY <2>1, <3>1, <3>2 DEF At
  <2>2. CASE ~(i <= Len(g))
    <3>1. ~(i + m <= Len(f)) /\ (i + m) - Len(f) = i - Len(g)
      BY <1>1, <1>2, <1>3, <2>2
    <3> QED BY <2>2, <3>1 DEF At
  <2> QED BY <2>1, <2>2
<1> QED BY <1>1, <1>3, <1>4 DEF Behind, g

(* Positions in the FIFO.                                                  *)
LEMMA AtFifo ==
    ASSUME NEW S, NEW f \in Seq(S), NEW x \in Seq(S), NEW k \in 1 .. Len(f)
    PROVE  k \in 1 .. All(f, x) /\ At(f, x, k) = f[k]
<1>1. Len(f) \in Nat /\ Len(x) \in Nat
  BY LenProperties
<1> QED BY <1>1 DEF All, At

-----------------------------------------------------------------------------
(* The number of beginnings.                                               *)

(* The requests that begin are finitely many.                              *)
LEMMA FirstsOf ==
    ASSUME NEW n \in Nat, NEW S \in SUBSET ByteOf(n)
    PROVE  /\ Firsts(S) \in SUBSET (1 .. n) /\ IsFiniteSet(Firsts(S))
           /\ Cardinality(Firsts(S)) \in Nat
<1>1. \A b \in S : b[1] \in 1 .. n
  BY DEF ByteOf
<1>2. Firsts(S) \in SUBSET (1 .. n)
  BY <1>1 DEF Firsts
<1>3. IsFiniteSet(1 .. n)
  BY FS_Interval
<1> QED BY <1>2, <1>3, FS_Subset, FS_CardinalityType

(* Those of two sets of bytes.                                             *)
LEMMA FirstsJoin ==
    ASSUME NEW S, NEW T
    PROVE  /\ Firsts(S \cup T) = Firsts(S) \cup Firsts(T)
           /\ S \subseteq T => Firsts(S) \subseteq Firsts(T)
BY DEF Firsts

(* With fewer beginnings there are fewer to count.                         *)
LEMMA FirstsFewer ==
    ASSUME NEW n \in Nat, NEW S \in SUBSET ByteOf(n), NEW T \in SUBSET ByteOf(n),
           Firsts(S) \subseteq Firsts(T)
    PROVE  /\ Cardinality(Firsts(S)) <= Cardinality(Firsts(T))
           /\ \A e \in Firsts(T) : e \notin Firsts(S) =>
                 Cardinality(Firsts(S)) + 1 <= Cardinality(Firsts(T))
<1>1. /\ IsFiniteSet(Firsts(T)) /\ IsFiniteSet(Firsts(S))
      /\ Cardinality(Firsts(T)) \in Nat /\ Cardinality(Firsts(S)) \in Nat
  BY FirstsOf
<1>2. Cardinality(Firsts(S)) <= Cardinality(Firsts(T))
  BY <1>1, FS_Subset
<1>3. ASSUME NEW e \in Firsts(T), e \notin Firsts(S)
      PROVE  Cardinality(Firsts(S)) + 1 <= Cardinality(Firsts(T))
  <2>1. /\ Cardinality(Firsts(S)) = Cardinality(Firsts(T)) => Firsts(T) = Firsts(S)
    BY <1>1, FS_Subset
  <2>2. Firsts(T) # Firsts(S)
    BY <1>3
  <2> QED BY <1>1, <1>2, <2>1, <2>2
<1> QED BY <1>2, <1>3

(* A sequence has at most as many as it has bytes.                         *)
LEMMA FirstsBounded ==
    ASSUME NEW n \in Nat, NEW f \in Seq(ByteOf(n))
    PROVE  Cardinality(Firsts(Elements(f))) <= Len(f)
<1> DEFINE R == {f[k][1] : k \in 1 .. Len(f)}
           h == [k \in 1 .. Len(f) |-> f[k][1]]
<1>1. Len(f) \in Nat
  BY LenProperties
<1>2. IsFiniteSet(1 .. Len(f)) /\ Cardinality(1 .. Len(f)) = Len(f)
  <2>1. \A l \in Nat : IsFiniteSet(1 .. l) /\ Cardinality(1 .. l) = l
    <3> TAKE l \in Nat
    <3>1. l \in Int /\ 1 \in Int
      OBVIOUS
    <3>2. IsFiniteSet(1 .. l) /\ Cardinality(1 .. l) = IF 1 > l THEN 0 ELSE l - 1 + 1
      BY <3>1, FS_Interval
    <3> QED BY <3>2
  <2> QED BY <1>1, <2>1
<1>3. h \in Surjection(1 .. Len(f), R)
  BY DEF Surjection
<1> HIDE DEF h
<1>4. IsFiniteSet(R) /\ Cardinality(R) <= Len(f)
  BY <1>2, <1>3, FS_Surjection
<1>5. Elements(f) = {f[k] : k \in 1 .. Len(f)}
  BY ElementsOf
<1>6. Firsts(Elements(f)) \subseteq R
  BY <1>5 DEF Firsts
<1> HIDE DEF R
<1>7. Cardinality(Firsts(Elements(f))) <= Cardinality(R) /\ Cardinality(R) \in Nat
  BY <1>4, <1>6, FS_Subset, FS_CardinalityType
<1>8. Elements(f) \in SUBSET ByteOf(n)
  BY ElementsOf
<1>9. Cardinality(Firsts(Elements(f))) \in Nat
  BY <1>8, FirstsOf
<1> QED BY <1>1, <1>4, <1>7, <1>9

(* What is dropped from the FIFO with a z in it is one beginning less.     *)
LEMMA DropFirsts ==
    ASSUME NEW n \in Nat, NEW f \in Seq(ByteOf(n)), NEW o, NEW D, NEW T \in SUBSET ByteOf(n),
           Orders(f, o, D, T), NEW m \in 0 .. Len(f)
    PROVE  LET g == SubSeq(f, m + 1, Len(f)) IN
           /\ g \in Seq(ByteOf(n))
           /\ Elements(g) \cup T \in SUBSET ByteOf(n) /\ Elements(f) \cup T \in SUBSET ByteOf(n)
           /\ Firsts(Elements(g) \cup T) \subseteq Firsts(Elements(f) \cup T)
           /\ \A k \in 1 .. m : f[k][3] = 1 => /\ f[k][1] \in Firsts(Elements(f) \cup T)
                                               /\ f[k][1] \notin Firsts(Elements(g) \cup T)
<1> DEFINE g == SubSeq(f, m + 1, Len(f))
<1>1. m \in Nat /\ m + 1 \in 1 .. Len(f) + 1 /\ Len(f) \in Nat
  BY LenProperties
<1>2. /\ g \in Seq(ByteOf(n)) /\ Len(g) = Len(f) - (m + 1) + 1
      /\ \A i \in 1 .. Len(g) : m + 1 + i - 1 \in 1 .. Len(f) /\ g[i] = f[m + 1 + i - 1]
  BY <1>1, LastPart
<1> HIDE DEF g
<1>3. /\ Elements(g) = {g[k] : k \in 1 .. Len(g)} /\ Elements(g) \subseteq ByteOf(n)
      /\ Elements(f) = {f[k] : k \in 1 .. Len(f)} /\ Elements(f) \subseteq ByteOf(n)
  BY <1>2, ElementsOf
<1>4. Elements(g) \subseteq Elements(f)
  BY <1>2, <1>3
<1>5. \A i \in 1 .. Len(g) : m + 1 + i - 1 > m
  BY <1>1, <1>2
<1>6. ASSUME NEW k \in 1 .. m, f[k][3] = 1
      PROVE  /\ f[k][1] \in Firsts(Elements(f) \cup T)
             /\ f[k][1] \notin Firsts(Elements(g) \cup T)
  <2>1. k \in 1 .. Len(f) /\ f[k] \in Elements(f)
    <3>1. k \in 1 .. Len(f)
      BY <1>1
    <3> QED BY <1>3, <3>1
  <2>2. f[k][1] \in Firsts(Elements(f) \cup T)
    BY <1>6, <2>1 DEF Firsts
  <2>3. ASSUME NEW b \in Elements(g) \cup T, b[3] = 1, b[1] = f[k][1]
        PROVE  FALSE
    <3>1. Before(f[k], b)
      <4>1. CASE b \in Elements(g)
        <5>1. PICK i \in 1 .. Len(g) : b = g[i]
          BY <1>3, <4>1
        <5>2. PICK w \in 1 .. Len(f) : w = m + 1 + i - 1 /\ b = f[w]
          BY <1>2, <5>1, Zenon
        <5>3. w > m
          BY <1>5, <5>2
        <5>4. k < w
          BY <1>1, <5>2, <5>3
        <5> QED BY <2>1, <5>2, <5>4 DEF Orders
      <4>2. CASE b \in T
        BY <2>1, <4>2 DEF Orders
      <4> QED BY <4>1, <4>2
    <3>2. f[k] \in ByteOf(n)
      BY <1>3, <2>1
    <3>3. f[k][1] \in Nat
      BY <3>2 DEF ByteOf
    <3> QED BY <1>6, <2>3, <3>1, <3>3 DEF Before
  <2> QED BY <2>2, <2>3 DEF Firsts
<1>7. Firsts(Elements(g) \cup T) \subseteq Firsts(Elements(f) \cup T)
  <2>1. Elements(g) \cup T \subseteq Elements(f) \cup T
    BY <1>4
  <2> QED BY <2>1, FirstsJoin
<1>8. Elements(g) \cup T \in SUBSET ByteOf(n) /\ Elements(f) \cup T \in SUBSET ByteOf(n)
  BY <1>3
<1> QED BY <1>2, <1>6, <1>7, <1>8 DEF g

-----------------------------------------------------------------------------
(* The branches of the parser.                                             *)

(* What a record of the parser holds.                                      *)
Fields(r, f, m, o, p) == r.fifo = f /\ r.matched = m /\ r.out = o /\ r.stop = p

(* Looking for z.                                                          *)
LEMMA HeaderCases ==
    ASSUME NEW n \in Nat, NEW s \in Parser(n)
    PROVE  LET h == Header(s)
               f == s.fifo
           IN  \/ s.matched /\ h = s
               \/ ~s.matched /\ Headers(f) = {} /\ Fields(h, <<>>, FALSE, s.out, s.stop)
               \/ /\ ~s.matched /\ Headers(f) # {}
                  /\ Fields(h, SubSeq(f, Min(Headers(f)) + 1, Len(f)), TRUE, s.out, s.stop)
<1> DEFINE f == s.fifo
           g == SubSeq(f, Min(Headers(f)) + 1, Len(f))
           e == [s EXCEPT !.fifo = <<>>]
           r == [s EXCEPT !.matched = TRUE, !.fifo = g]
<1>1. Header(s) = IF s.matched THEN s ELSE IF Headers(f) = {} THEN e ELSE r
  BY DEF Header
<1>2. Fields(e, <<>>, s.matched, s.out, s.stop)
  BY DEF Parser, Fields
<1>3. \A x : Fields([s EXCEPT !.matched = TRUE, !.fifo = x], x, TRUE, s.out, s.stop)
  BY DEF Parser, Fields
<1>4. Fields(r, g, TRUE, s.out, s.stop)
  BY <1>3
<1>5. s.matched \in BOOLEAN
  BY DEF Parser
<1> HIDE DEF g, r, e
<1>6. CASE s.matched
  BY <1>1, <1>6
<1>7. CASE ~s.matched /\ Headers(f) = {}
  <2>1. Header(s) = e /\ s.matched = FALSE
    BY <1>1, <1>5, <1>7
  <2> QED BY <1>2, <1>7, <2>1
<1>8. CASE ~s.matched /\ Headers(f) # {}
  <2>1. Header(s) = r
    BY <1>1, <1>8
  <2> QED BY <1>4, <1>8, <2>1 DEF g
<1> QED BY <1>6, <1>7, <1>8

(* One call of the parser.                                                 *)
LEMMA ParseCases ==
    ASSUME NEW n \in Nat, NEW s \in Parser(n), Header(s) \in Parser(n)
    PROVE  LET h == Header(s)
               f == h.fifo
               len == Length(f)
               o == h.out
               r == Parse(s)
           IN  \/ /\ ~s.matched /\ Len(s.fifo) < 3
                  /\ Fields(r, s.fifo, s.matched, s.out, TRUE)
               \/ ~h.matched /\ Fields(r, f, FALSE, o, h.stop)
               \/ /\ h.matched /\ (len = 0 \/ Len(f) < len)
                  /\ Fields(r, f, h.matched, o, TRUE)
               \/ /\ h.matched /\ ~(len = 0 \/ Len(f) < len) /\ f[len][3] # FrameLen
                  /\ Fields(r, f, FALSE, o, h.stop)
               \/ /\ h.matched /\ ~(len = 0 \/ Len(f) < len) /\ f[len][3] = FrameLen
                  /\ Fields(r, SubSeq(f, len + 1, Len(f)), FALSE,
                            IF Intact(f, len) THEN Append(o, <<f[1][1], f[1][2]>>) ELSE o,
                            h.stop)
<1> DEFINE h == Header(s)
           f == h.fifo
           len == Length(f)
           o == h.out
           g == SubSeq(f, len + 1, Len(f))
           q == IF Intact(f, len) THEN Append(o, <<f[1][1], f[1][2]>>) ELSE o
           error == [h EXCEPT !.matched = FALSE]
           wait == [h EXCEPT !.stop = TRUE]
           few == [s EXCEPT !.stop = TRUE]
           frame == [error EXCEPT !.fifo = g, !.out = q]
<1>1. Fields(few, s.fifo, s.matched, s.out, TRUE)
  BY DEF Parser, Fields
<1>2. /\ Fields(error, f, FALSE, o, h.stop) /\ Fields(wait, f, h.matched, o, TRUE)
      /\ \A x, y : Fields([error EXCEPT !.fifo = x, !.out = y], x, FALSE, y, h.stop)
  <2> HIDE DEF h
  <2> QED BY DEF Parser, Fields
<1>3. Fields(frame, g, FALSE, q, h.stop)
  <2> HIDE DEF g, q, error
  <2> QED BY <1>2
<1>4. [error EXCEPT !.fifo = SubSeq(@, len + 1, Len(@)),
                    !.out = IF Intact(f, len) THEN Append(@, <<f[1][1], f[1][2]>>) ELSE @]
        = frame
  <2>1. error.fifo = f /\ error.out = o
    BY <1>2 DEF Fields
  <2>2. SubSeq(error.fifo, len + 1, Len(error.fifo)) = g
    <3> HIDE DEF f, error, len
    <3> QED BY <2>1
  <2>3. (IF Intact(f, len) THEN Append(error.out, <<f[1][1], f[1][2]>>) ELSE error.out) = q
    <3> HIDE DEF f, error, len, o
    <3> QED BY <2>1
  <2> HIDE DEF f, error, len, g, q, o
  <2> QED BY <2>2, <2>3
<1>5. Parse(s) = IF ~s.matched /\ Len(s.fifo) < 3 THEN few
                 ELSE IF ~h.matched THEN error
                 ELSE IF len = 0 \/ Len(f) < len THEN wait
                 ELSE IF f[len][3] # FrameLen THEN error
                 ELSE frame
  BY <1>4 DEF Parse, Unmatched
<1> HIDE DEF few, error, wait, frame, g, q, len, o, f, h
<1>6. CASE ~s.matched /\ Len(s.fifo) < 3
  BY <1>1, <1>5, <1>6
<1>7. CASE ~(~s.matched /\ Len(s.fifo) < 3) /\ ~h.matched
  <2>1. Parse(s) = error
    BY <1>5, <1>7
  <2> QED BY <1>2, <1>7, <2>1 DEF f, h, o
<1>8. CASE ~(~s.matched /\ Len(s.fifo) < 3) /\ h.matched /\ (len = 0 \/ Len(f) < len)
  <2>1. Parse(s) = wait
    BY <1>5, <1>8
  <2> QED BY <1>2, <1>8, <2>1 DEF f, h, o, len
<1>9. CASE ~(~s.matched /\ Len(s.fifo) < 3) /\ h.matched /\ ~(len = 0 \/ Len(f) < len)
           /\ f[len][3] # FrameLen
  <2>1. Parse(s) = error
    BY <1>5, <1>9
  <2> QED BY <1>2, <1>9, <2>1 DEF f, h, o, len
<1>10. CASE ~(~s.matched /\ Len(s.fifo) < 3) /\ h.matched /\ ~(len = 0 \/ Len(f) < len)
            /\ f[len][3] = FrameLen
  <2>1. Parse(s) = frame
    BY <1>5, <1>10
  <2> QED BY <1>3, <1>10, <2>1 DEF f, h, o, len, g, q
<1> QED BY <1>6, <1>7, <1>8, <1>9, <1>10

(* A length is a number, and never more than the longest.                  *)
LEMMA LongestOf ==
    /\ Longest \in Nat /\ Longest >= FrameLen - 1
    /\ \A i \in 1 .. FrameLen : Value[i] + FrameLen - 2 <= Longest
<1> DEFINE V == {Value[i] : i \in 1 .. FrameLen}
<1>1. /\ \A i \in 1 .. FrameLen : Value[i] \in Nat
      /\ Value[3] = 1
  BY CommandAssumption
<1>2. FrameLen = 6 /\ 1 .. FrameLen = {1, 2, 3, 4, 5, 6}
  BY DEF FrameLen
<1>3. V = {Value[1], Value[2], Value[3], Value[4], Value[5], Value[6]}
  BY <1>2
<1>4. \E x \in V : \A y \in V : x >= y
  <2>1. \A a, b, c, d, e, g \in Nat :
           \E x \in {a, b, c, d, e, g} : \A y \in {a, b, c, d, e, g} : x >= y
    OBVIOUS
  <2> HIDE DEF V
  <2> QED BY <1>1, <1>2, <1>3, <2>1
<1>5. Max(V) \in V /\ \A y \in V : Max(V) >= y
  BY <1>4 DEF Max
<1>6. Max(V) \in Nat /\ \A i \in 1 .. FrameLen : Max(V) >= Value[i]
  BY <1>1, <1>5
<1>7. Longest = Max(V) + FrameLen - 2
  BY DEF Longest
<1> HIDE DEF V
<1>8. Max(V) >= 1
  BY <1>1, <1>2, <1>6
<1> QED BY <1>1, <1>2, <1>6, <1>7, <1>8

(* What Length says: nothing of a frame without its second byte, no more   *)
(* than the longest frame, and five bytes behind the z of a request.       *)
LEMMA LengthOf ==
    ASSUME NEW n \in Nat, NEW f \in Seq(ByteOf(n))
    PROVE  /\ Length(f) \in Nat /\ Length(f) <= Longest
           /\ Len(f) < 2 => Length(f) = 0
           /\ ~(Len(f) < 2) => Length(f) >= FrameLen - 2
           /\ ~(Len(f) < 2) /\ f[2][3] = 3 => Length(f) = FrameLen - 1
<1>1. Len(f) \in Nat /\ FrameLen = 6 /\ Longest \in Nat
  BY LenProperties, LongestOf DEF FrameLen
<1>2. CASE Len(f) < 2
  BY <1>1, <1>2 DEF Length
<1>3. CASE ~(Len(f) < 2)
  <2>1. 2 \in 1 .. Len(f)
    BY <1>1, <1>3
  <2>2. f[2] \in ByteOf(n)
    BY <2>1, ElementOfSeq
  <2>3. f[2][3] \in 1 .. FrameLen
    BY <2>2 DEF ByteOf
  <2>4. Value[f[2][3]] \in Nat /\ Value[f[2][3]] + FrameLen - 2 <= Longest /\ Value[3] = 1
    BY <2>3, CommandAssumption, LongestOf
  <2>5. Length(f) = Value[f[2][3]] + FrameLen - 2
    BY <1>3 DEF Length
  <2> QED BY <1>1, <1>3, <2>4, <2>5
<1> QED BY <1>2, <1>3

-----------------------------------------------------------------------------
(* What the rounds of a feed do to the frames that have begun.             *)

(* Of z beginnings j have been dealt with, each by a round of its own; a   *)
(* frame that was handed out is one of them.                               *)
Rounds(s, b, z, j) == Begins(s.fifo, s.matched, Elements(b)) + j <= z /\ Len(s.out) <= j

(* Request n is pending yet, or executed, or was skipped with a frame      *)
(* before it.                                                              *)
Served(s, b, z, j, n, c) ==
    \/ Pending(s.fifo, b, s.matched, n, c)
    \/ \E i \in 1 .. Len(s.out) : s.out[i] = <<n, c>>
    \/ j >= 1 /\ Begins(s.fifo, s.matched, Elements(b)) + j + 1 <= z

(* Of z beginnings j are dealt with, d requests complete the rest, and     *)
(* the latest request, when it was pending (p), is Served.                 *)
Follows(s, b, z, j, d, p, c) ==
    /\ Rounds(s, b, z, j)
    /\ Short(s.fifo, b, s.matched, d)
    /\ p => Served(s, b, z, j, sent, c)

(* The parser has nothing left; it waits for more bytes.                   *)
Idle(s) == s.fifo = <<>> /\ ~s.matched
Stuck(s) ==
    IF s.matched THEN Length(s.fifo) = 0 \/ Len(s.fifo) < Length(s.fifo)
    ELSE Len(s.fifo) < 3

(* Begins counts.                                                          *)
LEMMA BeginsOf ==
    ASSUME NEW n \in Nat, NEW f \in Seq(ByteOf(n)), NEW T \in SUBSET ByteOf(n)
    PROVE  /\ Elements(f) \cup T \in SUBSET ByteOf(n)
           /\ Cardinality(Firsts(Elements(f) \cup T)) \in Nat
           /\ Begins(f, FALSE, T) = Cardinality(Firsts(Elements(f) \cup T))
           /\ Begins(f, TRUE, T) = Cardinality(Firsts(Elements(f) \cup T)) + 1
           /\ \A m : Begins(f, m, T) \in Nat
<1>1. Elements(f) \cup T \in SUBSET ByteOf(n)
  BY ElementsOf
<1>2. Cardinality(Firsts(Elements(f) \cup T)) \in Nat
  BY <1>1, FirstsOf
<1>3. /\ Begins(f, FALSE, T) = Cardinality(Firsts(Elements(f) \cup T))
      /\ Begins(f, TRUE, T) = Cardinality(Firsts(Elements(f) \cup T)) + 1
  BY <1>2 DEF Begins, One
<1>4. \A m : Begins(f, m, T) \in Nat
  BY <1>2 DEF Begins, One
<1> QED BY <1>1, <1>2, <1>3, <1>4

(* A z that has been taken out is one more.                                *)
LEMMA BeginsMore ==
    ASSUME NEW n \in Nat, NEW f \in Seq(ByteOf(n)), NEW T \in SUBSET ByteOf(n)
    PROVE  Begins(f, TRUE, T) = Begins(f, FALSE, T) + 1
BY BeginsOf

(* Bytes dropped before a z, or with the z that begins the next frame, are *)
(* no beginning less; with a z among them, the z is one less.              *)
LEMMA DropBegins ==
    ASSUME NEW n \in Nat, NEW f \in Seq(ByteOf(n)), NEW o, NEW D, NEW T \in SUBSET ByteOf(n),
           Orders(f, o, D, T), NEW m \in 0 .. Len(f)
    PROVE  LET g == SubSeq(f, m + 1, Len(f)) IN
           /\ g \in Seq(ByteOf(n)) /\ Begins(g, FALSE, T) <= Begins(f, FALSE, T)
           /\ \A k \in 1 .. m : f[k][3] = 1 =>
                 Begins(g, FALSE, T) + 1 <= Begins(f, FALSE, T)
<1> DEFINE g == SubSeq(f, m + 1, Len(f))
<1>1. /\ g \in Seq(ByteOf(n))
      /\ Elements(g) \cup T \in SUBSET ByteOf(n) /\ Elements(f) \cup T \in SUBSET ByteOf(n)
      /\ Firsts(Elements(g) \cup T) \subseteq Firsts(Elements(f) \cup T)
      /\ \A k \in 1 .. m : f[k][3] = 1 => /\ f[k][1] \in Firsts(Elements(f) \cup T)
                                          /\ f[k][1] \notin Firsts(Elements(g) \cup T)
  BY DropFirsts
<1> HIDE DEF g
<1>2. /\ Begins(f, FALSE, T) = Cardinality(Firsts(Elements(f) \cup T))
      /\ Begins(g, FALSE, T) = Cardinality(Firsts(Elements(g) \cup T))
  BY <1>1, BeginsOf
<1>3. Begins(g, FALSE, T) <= Begins(f, FALSE, T)
  BY <1>1, <1>2, FirstsFewer
<1>4. ASSUME NEW k \in 1 .. m, f[k][3] = 1
      PROVE  Begins(g, FALSE, T) + 1 <= Begins(f, FALSE, T)
  <2>1. /\ f[k][1] \in Firsts(Elements(f) \cup T) /\ f[k][1] \notin Firsts(Elements(g) \cup T)
    BY <1>1, <1>4
  <2> QED BY <1>1, <1>2, <2>1, FirstsFewer
<1> QED BY <1>1, <1>3, <1>4 DEF g

(* Looking for z deals with nothing.                                       *)
LEMMA HeaderFollows ==
    ASSUME sent \in Nat, NEW s, NEW b \in Seq(ByteOf(sent)), NEW D,
           Keeps(s, sent, D, Elements(b)), NEW z \in Nat, NEW j \in Nat, NEW d \in Nat,
           NEW p \in BOOLEAN, NEW c, Follows(s, b, z, j, d, p, c)
    PROVE  LET h == Header(s) IN
           /\ Follows(h, b, z, j, d, p, c) /\ h.stop = s.stop
           /\ h.matched \/ Idle(h)
<1> DEFINE h == Header(s)
           f == s.fifo
           m == Min(Headers(f))
           g == SubSeq(f, m + 1, Len(f))
           T == Elements(b)
<1>1. /\ s \in Parser(sent) /\ f \in Seq(ByteOf(sent)) /\ s.matched \in BOOLEAN
      /\ Orders(f, s.out, D, T) /\ T \in SUBSET ByteOf(sent) /\ Len(f) \in Nat
  <2>1. s \in Parser(sent) /\ f \in Seq(ByteOf(sent)) /\ s.matched \in BOOLEAN
        /\ Orders(f, s.out, D, T)
    BY DEF Keeps, Parser
  <2>2. T \subseteq ByteOf(sent) /\ Len(f) \in Nat
    BY <2>1, ElementsOf, LenProperties
  <2> QED BY <2>1, <2>2
<1>2. Headers(f) = {k \in 1 .. Len(f) : f[k][3] = 1}
  <2>1. DOMAIN f = 1 .. Len(f)
    BY <1>1, LenProperties
  <2> QED BY <2>1 DEF Headers
<1>3. CASE s.matched
  <2>1. h = s
    BY <1>1, <1>3, HeaderCases
  <2> QED BY <1>3, <2>1
<1>4. ASSUME ~s.matched, NEW e, NEW q \in BOOLEAN, NEW l \in 0 .. Len(f),
             e = SubSeq(f, l + 1, Len(f)), q => l \in Headers(f),
             \A k \in Headers(f) : k > l \/ (k = l /\ q)
      PROVE  /\ e \in Seq(ByteOf(sent)) /\ Begins(e, q, T) <= Begins(f, FALSE, T)
             /\ Short(e, b, q, d)
             /\ p /\ Pending(f, b, FALSE, sent, c) => Pending(e, b, q, sent, c)
  <2>1. q => Starts(f, b, FALSE, l)
    <3> SUFFICES ASSUME q PROVE Starts(f, b, FALSE, l)
      OBVIOUS
    <3>1. l \in 1 .. Len(f) /\ l # 0 /\ f[l][3] = 1
      BY <1>2, <1>4
    <3> QED BY <1>1, <3>1, AtFifo DEF Starts
  <2>2. Behind(f, b, FALSE, e, b, q, l)
    BY <1>1, <1>4, <2>1, DropBehind
  <2>3. Short(f, b, FALSE, d)
    <3>1. s.matched = FALSE
      BY <1>1, <1>4
    <3> QED BY <3>1 DEF Follows
  <2>4. Short(e, b, q, d)
    BY <2>2, <2>3, ShiftShort
  <2>5. ASSUME p, Pending(f, b, FALSE, sent, c)
        PROVE  Pending(e, b, q, sent, c)
    <3>1. PICK k \in 0 .. All(f, b) :
            Starts(f, b, FALSE, k) /\ Complete(f, b, k, sent, c)
      BY <2>5 DEF Pending
    <3>2. k > l \/ (k = l /\ q)
      <4>1. k # 0 /\ k \in 1 .. All(f, b) /\ At(f, b, k)[3] = 1
        BY <3>1 DEF Starts
      <4>2. CASE k \in 1 .. Len(f)
        <5>1. f[k][3] = 1
          BY <1>1, <4>1, <4>2, AtFifo
        <5> QED BY <1>2, <1>4, <4>2, <5>1
      <4>3. CASE k \notin 1 .. Len(f)
        BY <1>1, <4>1, <4>3 DEF All
      <4> QED BY <4>2, <4>3
    <3> QED BY <2>2, <3>1, <3>2, ShiftPending
  <2>6. /\ e \in Seq(ByteOf(sent)) /\ Begins(e, FALSE, T) <= Begins(f, FALSE, T)
        /\ \A k \in 1 .. l : f[k][3] = 1 => Begins(e, FALSE, T) + 1 <= Begins(f, FALSE, T)
    <3> HIDE DEF f, T
    <3> QED BY <1>1, <1>4, DropBegins
  <2>7. Begins(e, q, T) <= Begins(f, FALSE, T)
    <3>1. CASE q = FALSE
      BY <2>6, <3>1
    <3>2. CASE q = TRUE
      <4>1. l \in 1 .. l /\ f[l][3] = 1
        BY <1>2, <1>4, <3>2
      <4>2. Begins(e, FALSE, T) + 1 <= Begins(f, FALSE, T)
        BY <2>6, <4>1
      <4>3. Begins(e, TRUE, T) = Begins(e, FALSE, T) + 1
        <5> HIDE DEF T
        <5>1. /\ Begins(e, FALSE, T) = Cardinality(Firsts(Elements(e) \cup T))
              /\ Begins(e, TRUE, T) = Cardinality(Firsts(Elements(e) \cup T)) + 1
          BY <1>1, <2>6, BeginsOf, ZenonT(30)
        <5> QED BY <5>1
      <4> QED BY <3>2, <4>2, <4>3
    <3> QED BY <3>1, <3>2
  <2> HIDE DEF f, T
  <2> QED BY <2>4, <2>5, <2>6, <2>7
<1>5. ASSUME ~s.matched, NEW e, NEW q \in BOOLEAN, Fields(h, e, q, s.out, s.stop),
             NEW l \in 0 .. Len(f),
             e = SubSeq(f, l + 1, Len(f)), q => l \in Headers(f),
             \A k \in Headers(f) : k > l \/ (k = l /\ q)
      PROVE  Follows(h, b, z, j, d, p, c) /\ h.stop = s.stop
  <2>1. s.matched = FALSE
    BY <1>1, <1>5
  <2>2. /\ e \in Seq(ByteOf(sent)) /\ Begins(e, q, T) <= Begins(f, FALSE, T)
        /\ Short(e, b, q, d)
        /\ p /\ Pending(f, b, FALSE, sent, c) => Pending(e, b, q, sent, c)
    BY <1>4, <1>5
  <2>3. Begins(e, q, T) \in Nat /\ Begins(f, FALSE, T) \in Nat
    <3> HIDE DEF f, T
    <3> QED BY <1>1, <2>2, BeginsOf
  <2>4. h.fifo = e /\ h.matched = q /\ h.out = s.out /\ h.stop = s.stop
    BY <1>5 DEF Fields
  <2>5. Len(s.out) <= j /\ Begins(f, FALSE, T) + j <= z
    BY <2>1 DEF Follows, Rounds
  <2>6. /\ Begins(h.fifo, h.matched, T) = Begins(e, q, T)
        /\ Pending(h.fifo, b, h.matched, sent, c) <=> Pending(e, b, q, sent, c)
        /\ Short(h.fifo, b, h.matched, d) <=> Short(e, b, q, d)
    <3> HIDE DEF h, T
    <3> QED BY <2>4, Zenon
  <2> HIDE DEF h
  <2> DEFINE u == Begins(h.fifo, h.matched, T)
             v == Begins(f, FALSE, T)
  <2>9. u <= v /\ u \in Nat /\ v \in Nat
    <3>1. u = Begins(e, q, T)
      BY <2>6
    <3> HIDE DEF T, f, u
    <3> QED BY <2>2, <2>3, <3>1, Zenon
  <2>10. v + j <= z /\ Len(h.out) <= j
    BY <2>4, <2>5
  <2>8. Rounds(h, b, z, j)
    <3>1. u + j <= z
      <4> HIDE DEF u, v
      <4> QED BY <2>9, <2>10
    <3> QED BY <2>10, <3>1 DEF Rounds
  <2>7. p => Served(h, b, z, j, sent, c)
    <3> SUFFICES ASSUME p PROVE Served(h, b, z, j, sent, c)
      OBVIOUS
    <3>1. Served(s, b, z, j, sent, c)
      BY DEF Follows
    <3>2. CASE Pending(f, b, FALSE, sent, c)
      BY <2>2, <2>6, <3>2 DEF Served
    <3>3. CASE \E i \in 1 .. Len(s.out) : s.out[i] = <<sent, c>>
      BY <2>4, <3>3 DEF Served
    <3>4. CASE j >= 1 /\ Begins(f, FALSE, T) + j + 1 <= z
      <4>1. v + j + 1 <= z
        BY <3>4
      <4>2. u + j + 1 <= z
        <5> HIDE DEF u, v
        <5> QED BY <2>9, <4>1
      <4> QED BY <3>4, <4>2 DEF Served
    <3> QED BY <2>1, <3>1, <3>2, <3>3, <3>4 DEF Served
  <2> QED BY <2>2, <2>4, <2>6, <2>7, <2>8 DEF Follows
<1>6. CASE ~s.matched /\ Headers(f) = {}
  <2>1. Fields(h, <<>>, FALSE, s.out, s.stop)
    BY <1>1, <1>6, HeaderCases
  <2>2. <<>> = SubSeq(f, Len(f) + 1, Len(f)) /\ Len(f) \in 0 .. Len(f)
    <3> HIDE DEF f
    <3>1. Len(f) + 1 \in 1 .. Len(f) + 1 /\ Len(f) \in 0 .. Len(f)
      BY <1>1
    <3>2. LET t == SubSeq(f, Len(f) + 1, Len(f)) IN
          t \in Seq(ByteOf(sent)) /\ Len(t) = Len(f) - (Len(f) + 1) + 1
      BY <1>1, <3>1, LastPart
    <3> QED BY <1>1, <3>1, <3>2, EmptySeq
  <2>3. Follows(h, b, z, j, d, p, c) /\ h.stop = s.stop
    <3> HIDE DEF h, f
    <3> QED BY <1>5, <1>6, <2>1, <2>2
  <2>4. Idle(h)
    BY <2>1 DEF Fields, Idle
  <2> QED BY <2>3, <2>4
<1>7. CASE ~s.matched /\ Headers(f) # {}
  <2>1. Fields(h, g, TRUE, s.out, s.stop)
    BY <1>1, <1>7, HeaderCases
  <2>2. m \in Headers(f) /\ \A k \in Headers(f) : m <= k
    <3>1. Headers(f) \subseteq Nat
      BY <1>2
    <3> HIDE DEF f
    <3> QED BY <1>7, <3>1, LeastOf
  <2>3. m \in 0 .. Len(f) /\ m \in Nat /\ \A k \in Headers(f) : k \in Nat
    BY <1>2, <2>2
  <2> HIDE DEF m
  <2>4. \A k \in Headers(f) : k > m \/ (k = m /\ TRUE)
    BY <2>2, <2>3
  <2>5. Follows(h, b, z, j, d, p, c) /\ h.stop = s.stop
    <3> HIDE DEF h, f
    <3> QED BY <1>5, <1>7, <2>1, <2>2, <2>3, <2>4
  <2>6. h.matched
    BY <2>1 DEF Fields
  <2> QED BY <2>5, <2>6
<1> QED BY <1>3, <1>6, <1>7

-----------------------------------------------------------------------------
(* Follows speaks of three fields only.                                    *)
LEMMA SameFollows ==
    ASSUME NEW s, NEW r, NEW b, NEW z, NEW j, NEW d, NEW p, NEW c,
           Follows(s, b, z, j, d, p, c),
           r.fifo = s.fifo, r.matched = s.matched, r.out = s.out
    PROVE  Follows(r, b, z, j, d, p, c)
BY Zenon DEF Follows, Rounds, Served

(* A request that is whole behind the z that has been taken out.           *)
LEMMA CompleteFrame ==
    ASSUME NEW n \in Nat, NEW f \in Seq(ByteOf(n)), NEW b \in Seq(ByteOf(n)), NEW e, NEW c,
           Complete(f, b, 0, e, c), ~(Length(f) = 0 \/ Len(f) < Length(f))
    PROVE  /\ Length(f) = FrameLen - 1 /\ f[Length(f)][3] = FrameLen
           /\ Intact(f, Length(f)) /\ <<f[1][1], f[1][2]>> = <<e, c>>
<1>1. Len(f) \in Nat /\ FrameLen = 6
  BY LenProperties DEF FrameLen
<1>2. ~(Len(f) < 2) /\ Length(f) \in Nat /\ Length(f) >= 4
  BY <1>1, LengthOf
<1>3. \A i \in 2 .. FrameLen : At(f, b, 0 + i - 1) = <<e, c, i>>
  BY <1>1 DEF Complete
<1>4. \A i \in 2 .. 6 : At(f, b, i - 1) = <<e, c, i>>
  BY <1>1, <1>3
<1>5. \A i \in 1 .. 5 : i <= Len(f) => f[i] = <<e, c, i + 1>>
  <2> TAKE i \in 1 .. 5
  <2>1. i + 1 \in 2 .. 6 /\ (i + 1) - 1 = i
    OBVIOUS
  <2>2. At(f, b, i) = <<e, c, i + 1>>
    BY <1>4, <2>1
  <2> QED BY <2>2 DEF At
<1>6. f[2] = <<e, c, 3>>
  BY <1>1, <1>2, <1>5
<1>7. Length(f) = 5 /\ Len(f) >= 5
  BY <1>1, <1>2, <1>6, LengthOf
<1>8. \A i \in 1 .. 5 : f[i] = <<e, c, i + 1>>
  BY <1>1, <1>5, <1>7
<1>9. f[1] = <<e, c, 2>> /\ f[5] = <<e, c, 6>>
  BY <1>8
<1>10. f[1][1] = e /\ f[1][2] = c /\ f[5][3] = 6
  BY <1>9
<1>11. Intact(f, 5)
  BY <1>1, <1>8, <1>10 DEF Intact
<1> QED BY <1>1, <1>7, <1>10, <1>11

(* A frame ends, with m bytes behind its z.                                *)
LEMMA EndFollows ==
    ASSUME sent \in Nat, NEW h, NEW r, NEW b \in Seq(ByteOf(sent)), NEW D,
           h.fifo \in Seq(ByteOf(sent)), h.matched = TRUE,
           Orders(h.fifo, h.out, D, Elements(b)),
           NEW z \in Nat, NEW j \in Nat, NEW d \in Nat, NEW p \in BOOLEAN, NEW c,
           Follows(h, b, z, j, d, p, c),
           NEW m \in 0 .. Len(h.fifo), r.fifo = SubSeq(h.fifo, m + 1, Len(h.fifo)),
           r.matched = FALSE, Len(h.out) \in Nat, Len(r.out) \in Nat,
           Len(r.out) \in Len(h.out) .. Len(h.out) + 1,
           \A i \in 1 .. Len(h.out) : r.out[i] = h.out[i],
           Complete(h.fifo, b, 0, sent, c) =>
               \E i \in 1 .. Len(r.out) : r.out[i] = <<sent, c>>
    PROVE  Follows(r, b, z, j + 1, d, p, c)
<1> DEFINE f == h.fifo
           e == r.fifo
           T == Elements(b)
           u == Begins(e, FALSE, T)
           v == Begins(f, FALSE, T)
<1>1. /\ T \in SUBSET ByteOf(sent) /\ Len(f) \in Nat /\ f \in Seq(ByteOf(sent))
      /\ Orders(f, h.out, D, T) /\ e = SubSeq(f, m + 1, Len(f)) /\ m \in 0 .. Len(f)
  BY ElementsOf, LenProperties
<1>2. Short(f, b, TRUE, d) /\ Rounds(h, b, z, j) /\ (p => Served(h, b, z, j, sent, c))
  BY DEF Follows
<1>3. Begins(f, TRUE, T) + j <= z /\ Len(h.out) <= j
  BY <1>2 DEF Rounds
<1>4. Begins(r.fifo, r.matched, T) = u
  BY Zenon
<1>5. p => \/ Pending(f, b, TRUE, sent, c)
           \/ \E i \in 1 .. Len(h.out) : h.out[i] = <<sent, c>>
           \/ Begins(f, TRUE, T) + j + 1 <= z
  BY <1>2 DEF Served
<1>6. /\ Complete(f, b, 0, sent, c) => \E i \in 1 .. Len(r.out) : r.out[i] = <<sent, c>>
      /\ Pending(e, b, FALSE, sent, c) => Pending(r.fifo, b, r.matched, sent, c)
      /\ Short(e, b, FALSE, d) => Short(r.fifo, b, r.matched, d)
  BY Zenon
<1> HIDE DEF f, e, T
<1>7. Behind(f, b, TRUE, e, b, FALSE, m)
  BY <1>1, DropBehind
<1>8. Short(e, b, FALSE, d)
  BY <1>2, <1>7, ShiftShort
<1>9. /\ e \in Seq(ByteOf(sent)) /\ u <= v
      /\ \A k \in 1 .. m : f[k][3] = 1 => u + 1 <= v
  BY <1>1, DropBegins
<1>10. u \in Nat /\ v \in Nat /\ Begins(f, TRUE, T) = v + 1
  <2>1. u \in Nat /\ v \in Nat
    BY <1>1, <1>9, BeginsOf
  <2>2. Begins(f, TRUE, T) = Begins(f, FALSE, T) + 1
    BY <1>1, BeginsMore
  <2> QED BY <2>1, <2>2
<1> HIDE DEF u, v
<1>11. v + 1 + j <= z
  BY <1>3, <1>10
<1>12. Rounds(r, b, z, j + 1)
  <2>1. u + (j + 1) <= z
    BY <1>9, <1>10, <1>11
  <2>2. Len(r.out) <= j + 1
    BY <1>3
  <2>3. Begins(r.fifo, r.matched, Elements(b)) = u
    BY <1>4 DEF T
  <2> QED BY <2>1, <2>2, <2>3 DEF Rounds
<1>13. ASSUME j + 1 >= 1, u + (j + 1) + 1 <= z PROVE Served(r, b, z, j + 1, sent, c)
  <2>1. Begins(r.fifo, r.matched, Elements(b)) = u
    BY <1>4 DEF T
  <2> QED BY <1>13, <2>1 DEF Served
<1>14. \A i \in 1 .. Len(h.out) : i \in 1 .. Len(r.out)
  <2>1. \A x, y \in Nat : x <= y => \A i \in 1 .. x : i \in 1 .. y
    OBVIOUS
  <2>2. Len(h.out) <= Len(r.out)
    OBVIOUS
  <2> QED BY <2>1, <2>2, Zenon
<1>15. ASSUME p PROVE Served(r, b, z, j + 1, sent, c)
  <2>1. CASE Pending(f, b, TRUE, sent, c)
    <3>1. PICK k \in 0 .. All(f, b) :
            Starts(f, b, TRUE, k) /\ Complete(f, b, k, sent, c)
      BY <2>1 DEF Pending
    <3>2. CASE k > m
      <4>1. Pending(e, b, FALSE, sent, c)
        BY <1>7, <3>1, <3>2, ShiftPending
      <4> QED BY <1>6, <4>1 DEF Served
    <3>3. CASE k = 0
      <4>1. \E i \in 1 .. Len(r.out) : r.out[i] = <<sent, c>>
        BY <1>6, <3>1, <3>3
      <4> QED BY <4>1 DEF Served
    <3>4. CASE k \in 1 .. m
      <4>1. k \in 1 .. Len(f) /\ k # 0
        BY <1>1, <3>4
      <4>2. f[k][3] = 1
        BY <1>1, <3>1, <4>1, AtFifo DEF Starts
      <4>3. u + 1 <= v
        BY <1>9, <3>4, <4>2
      <4>4. j + 1 >= 1 /\ u + (j + 1) + 1 <= z
        BY <1>10, <1>11, <4>3
      <4> QED BY <1>13, <4>4
    <3>5. k > m \/ k = 0 \/ k \in 1 .. m
      <4>1. k \in Nat /\ m \in Nat
        BY <1>1, <1>7 DEF Behind
      <4> QED BY <4>1
    <3> QED BY <3>2, <3>3, <3>4, <3>5
  <2>2. CASE \E i \in 1 .. Len(h.out) : h.out[i] = <<sent, c>>
    <3>1. PICK i \in 1 .. Len(h.out) : h.out[i] = <<sent, c>>
      BY <2>2
    <3>2. r.out[i] = <<sent, c>>
      BY <3>1, Zenon
    <3>3. i \in 1 .. Len(r.out)
      BY <1>14
    <3> QED BY <3>2, <3>3, Zenon DEF Served
  <2>3. CASE Begins(f, TRUE, T) + j + 1 <= z
    <3>1. v + 1 + j + 1 <= z
      BY <1>10, <2>3
    <3>2. j + 1 >= 1 /\ u + (j + 1) + 1 <= z
      BY <1>9, <1>10, <3>1
    <3> QED BY <1>13, <3>2
  <2> QED BY <1>5, <1>15, <2>1, <2>2, <2>3
<1> QED BY <1>6, <1>8, <1>12, <1>15 DEF Follows

(* A parser that has nothing waits.                                        *)
LEMMA IdleStops ==
    ASSUME NEW n \in Nat, NEW s \in Parser(n), Idle(s) PROVE Parse(s).stop
<1>1. ~s.matched /\ Len(s.fifo) < 3
  BY DEF Idle
<1>2. Parse(s) = [s EXCEPT !.stop = TRUE]
  BY <1>1 DEF Parse
<1>3. [s EXCEPT !.stop = TRUE].stop = TRUE
  BY DEF Parser
<1> QED BY <1>2, <1>3

(* One call of the parser: it waits, it has nothing left, or it has dealt  *)
(* with one beginning more.                                                *)
Goes(r, b, z, j, d, p, c) ==
    \/ Follows(r, b, z, j, d, p, c) /\ r.stop /\ Stuck(r)
    \/ Follows(r, b, z, j, d, p, c) /\ r.stop = FALSE /\ Idle(r)
    \/ Follows(r, b, z, j + 1, d, p, c) /\ r.stop = FALSE

LEMMA ParseFollows ==
    ASSUME sent \in Nat, NEW s, NEW b \in Seq(ByteOf(sent)), NEW D,
           Keeps(s, sent, D, Elements(b)), NEW z \in Nat, NEW j \in Nat, NEW d \in Nat,
           NEW p \in BOOLEAN, NEW c, Follows(s, b, z, j, d, p, c), s.stop = FALSE
    PROVE  Goes(Parse(s), b, z, j, d, p, c)
<1> DEFINE h == Header(s)
           f == h.fifo
           len == Length(f)
           o == h.out
           r == Parse(s)
           q == IF Intact(f, len) THEN Append(o, <<f[1][1], f[1][2]>>) ELSE o
<1>1. /\ s \in Parser(sent) /\ Keeps(h, sent, D, Elements(b)) /\ h \in Parser(sent)
  BY HeaderKeeps DEF Keeps
<1>2. /\ Follows(h, b, z, j, d, p, c) /\ h.stop = s.stop
      /\ h.matched \/ Idle(h)
  BY HeaderFollows
<1>3. \/ /\ ~s.matched /\ Len(s.fifo) < 3
         /\ Fields(r, s.fifo, s.matched, s.out, TRUE)
      \/ ~h.matched /\ Fields(r, f, FALSE, o, h.stop)
      \/ /\ h.matched /\ (len = 0 \/ Len(f) < len)
         /\ Fields(r, f, h.matched, o, TRUE)
      \/ /\ h.matched /\ ~(len = 0 \/ Len(f) < len) /\ f[len][3] # FrameLen
         /\ Fields(r, f, FALSE, o, h.stop)
      \/ /\ h.matched /\ ~(len = 0 \/ Len(f) < len) /\ f[len][3] = FrameLen
         /\ Fields(r, SubSeq(f, len + 1, Len(f)), FALSE, q, h.stop)
  BY <1>1, ParseCases
<1> HIDE DEF h, r
<1>5. /\ f \in Seq(ByteOf(sent)) /\ o \in Seq(FrameOf(sent)) /\ h.matched \in BOOLEAN
      /\ Orders(f, o, D, Elements(b)) /\ Len(f) \in Nat /\ Len(o) \in Nat
  <2>1. /\ f \in Seq(ByteOf(sent)) /\ o \in Seq(FrameOf(sent)) /\ h.matched \in BOOLEAN
        /\ Orders(f, o, D, Elements(b))
    BY <1>1 DEF Keeps, Parser
  <2> QED BY <2>1, LenProperties
<1>6. CASE ~s.matched /\ Len(s.fifo) < 3 /\ Fields(r, s.fifo, s.matched, s.out, TRUE)
  <2>1. Follows(r, b, z, j, d, p, c)
    BY <1>6, SameFollows DEF Fields
  <2>2. r.stop /\ Stuck(r)
    BY <1>6 DEF Fields, Stuck
  <2> QED BY <2>1, <2>2 DEF r, Goes
<1>7. CASE ~h.matched /\ Fields(r, f, FALSE, o, h.stop)
  <2>1. Follows(r, b, z, j, d, p, c)
    BY <1>2, <1>5, <1>7, SameFollows DEF Fields
  <2>2. r.stop = FALSE /\ Idle(r)
    BY <1>2, <1>7 DEF Fields, Idle
  <2> QED BY <2>1, <2>2 DEF r, Goes
<1>8. CASE h.matched /\ (len = 0 \/ Len(f) < len) /\ Fields(r, f, h.matched, o, TRUE)
  <2>1. Follows(r, b, z, j, d, p, c)
    BY <1>2, <1>8, SameFollows DEF Fields
  <2>2. r.stop /\ Stuck(r)
    BY <1>8 DEF Fields, Stuck
  <2> QED BY <2>1, <2>2 DEF r, Goes
<1>9. CASE /\ h.matched /\ ~(len = 0 \/ Len(f) < len) /\ f[len][3] # FrameLen
           /\ Fields(r, f, FALSE, o, h.stop)
  <2>1. ~Complete(f, b, 0, sent, c)
    BY <1>5, <1>9, CompleteFrame
  <2>2. 0 \in 0 .. Len(f) /\ f = SubSeq(f, 0 + 1, Len(f))
    <3> HIDE DEF f
    <3>1. /\ 1 \in 1 .. Len(f) + 1 /\ 0 \in 0 .. Len(f) /\ 0 + 1 = 1
      BY <1>5
    <3>2. LET t == SubSeq(f, 1, Len(f)) IN
          /\ t \in Seq(ByteOf(sent)) /\ Len(t) = Len(f) - 1 + 1
          /\ \A k \in 1 .. Len(t) : 1 + k - 1 \in 1 .. Len(f) /\ t[k] = f[1 + k - 1]
      BY <1>5, <3>1, LastPart
    <3>3. f = SubSeq(f, 1, Len(f))
      <4> DEFINE t == SubSeq(f, 1, Len(f))
      <4>1. t \in Seq(ByteOf(sent)) /\ Len(t) = Len(f) /\ \A k \in 1 .. Len(f) : t[k] = f[k]
        BY <1>5, <3>2
      <4> HIDE DEF t
      <4>2. f = t
        BY <1>5, <4>1, SeqEqual
      <4> QED BY <4>2 DEF t
    <3> QED BY <3>1, <3>3
  <2>3. /\ r.fifo = SubSeq(f, 0 + 1, Len(f)) /\ r.matched = FALSE /\ r.out = o
        /\ r.stop = FALSE /\ h.matched = TRUE
    BY <1>2, <1>5, <1>9, <2>2 DEF Fields
  <2>4. /\ Len(r.out) \in Nat /\ Len(r.out) \in Len(o) .. Len(o) + 1
        /\ \A i \in 1 .. Len(o) : r.out[i] = o[i]
    BY <1>5, <2>3
  <2>5. Follows(r, b, z, j + 1, d, p, c)
    <3>1. Len(r.out) \in Nat /\ Len(h.out) \in Nat /\ h.matched = TRUE /\ r.matched = FALSE
      BY <1>5, <2>3, <2>4
    <3>2. Complete(h.fifo, b, 0, sent, c) =>
            \E i \in 1 .. Len(r.out) : r.out[i] = <<sent, c>>
      BY <2>1
    <3>3. Follows(h, b, z, j, d, p, c)
      BY <1>2
    <3>4. /\ h.fifo \in Seq(ByteOf(sent)) /\ Orders(h.fifo, h.out, D, Elements(b))
          /\ 0 \in 0 .. Len(h.fifo) /\ r.fifo = SubSeq(h.fifo, 0 + 1, Len(h.fifo))
          /\ Len(r.out) \in Len(h.out) .. Len(h.out) + 1
          /\ \A i \in 1 .. Len(h.out) : r.out[i] = h.out[i]
      BY <1>5, <2>2, <2>3, <2>4
    <3> QED BY <3>1, <3>2, <3>3, <3>4, EndFollows, ZenonT(30)
  <2> QED BY <2>3, <2>5 DEF r, Goes
<1>10. CASE /\ h.matched /\ ~(len = 0 \/ Len(f) < len) /\ f[len][3] = FrameLen
            /\ Fields(r, SubSeq(f, len + 1, Len(f)), FALSE, q, h.stop)
  <2>1. len \in Nat /\ len \in 0 .. Len(f)
    <3>1. len \in Nat
      BY <1>5, LengthOf
    <3> HIDE DEF len
    <3> QED BY <1>5, <1>10, <3>1
  <2>2. /\ r.fifo = SubSeq(f, len + 1, Len(f)) /\ r.matched = FALSE /\ r.out = q
        /\ r.stop = FALSE /\ h.matched = TRUE
    <3> HIDE DEF len, q, f, o
    <3> QED BY <1>2, <1>5, <1>10 DEF Fields
  <2>3. \A x : LET t == Append(o, x) IN
          /\ Len(t) = Len(o) + 1 /\ t[Len(o) + 1] = x /\ \A i \in 1 .. Len(o) : t[i] = o[i]
    BY <1>5, AppendProperties
  <2>4. /\ Len(q) \in Nat /\ Len(q) \in Len(o) .. Len(o) + 1
        /\ \A i \in 1 .. Len(o) : q[i] = o[i]
    <3>1. CASE Intact(f, len)
      <4>1. q = Append(o, <<f[1][1], f[1][2]>>)
        BY <3>1
      <4> HIDE DEF q
      <4>2. Len(q) = Len(o) + 1 /\ \A i \in 1 .. Len(o) : q[i] = o[i]
        BY <2>3, <4>1
      <4> QED BY <1>5, <4>2
    <3>2. CASE ~Intact(f, len)
      <4>1. q = o
        BY <3>2
      <4> HIDE DEF q
      <4> QED BY <1>5, <4>1
    <3> QED BY <3>1, <3>2
  <2>5. ASSUME Complete(f, b, 0, sent, c)
        PROVE  \E i \in 1 .. Len(q) : q[i] = <<sent, c>>
    <3>1. Intact(f, len) /\ <<f[1][1], f[1][2]>> = <<sent, c>>
      BY <1>5, <1>10, <2>5, CompleteFrame
    <3>2. q = Append(o, <<sent, c>>)
      BY <3>1
    <3> HIDE DEF q
    <3>3. Len(q) = Len(o) + 1 /\ q[Len(o) + 1] = <<sent, c>>
      BY <2>3, <3>2
    <3>4. Len(o) + 1 \in 1 .. Len(q)
      BY <1>5, <3>3
    <3> QED BY <3>3, <3>4
  <2> HIDE DEF q, len
  <2>6. Follows(r, b, z, j + 1, d, p, c)
    <3>1. Len(r.out) \in Nat /\ Len(h.out) \in Nat /\ h.matched = TRUE /\ r.matched = FALSE
      BY <1>5, <2>2, <2>4
    <3>2. Complete(h.fifo, b, 0, sent, c) =>
            \E i \in 1 .. Len(r.out) : r.out[i] = <<sent, c>>
      BY <2>2, <2>5
    <3>3. Follows(h, b, z, j, d, p, c)
      BY <1>2
    <3>4. /\ h.fifo \in Seq(ByteOf(sent)) /\ Orders(h.fifo, h.out, D, Elements(b))
          /\ len \in 0 .. Len(h.fifo) /\ r.fifo = SubSeq(h.fifo, len + 1, Len(h.fifo))
          /\ Len(r.out) \in Len(h.out) .. Len(h.out) + 1
          /\ \A i \in 1 .. Len(h.out) : r.out[i] = h.out[i]
      BY <1>5, <2>1, <2>2, <2>4
    <3> QED BY <3>1, <3>2, <3>3, <3>4, EndFollows, ZenonT(30)
  <2> QED BY <2>2, <2>6 DEF r, Goes
<1> QED BY <1>3, <1>6, <1>7, <1>8, <1>9, <1>10 DEF r

-----------------------------------------------------------------------------
(* A feed goes on until it has nothing to deal with, or until it has dealt *)
(* with MaxParse beginnings.                                               *)
LEMMA FedFollows ==
    ASSUME sent \in Nat, NEW bytes, NEW b \in Seq(ByteOf(sent)), NEW D,
           Keeps(Loaded(bytes), sent, D, Elements(b)), NEW z \in Nat, NEW d \in Nat,
           NEW p \in BOOLEAN, NEW c, Follows(Loaded(bytes), b, z, 0, d, p, c)
    PROVE  \E j \in Nat : /\ Follows(Fed(bytes), b, z, j, d, p, c)
                          /\ Stuck(Fed(bytes)) \/ Idle(Fed(bytes)) \/ j >= MaxParse
<1> DEFINE after == CHOOSE r :
             r = [k \in 0 .. MaxParse |-> IF k = 0 THEN Loaded(bytes) ELSE Round(r[k - 1])]
           Ends(s, j) == \/ s.stop /\ Stuck(s)
                         \/ s.stop \in BOOLEAN /\ Idle(s)
                         \/ s.stop = FALSE /\ j
           T == Elements(b)
<1>1. Fed(bytes) = after[MaxParse] /\ MaxParse \in Nat
  BY CommandAssumption DEF Fed
<1>2. after = [k \in 0 .. MaxParse |-> IF k = 0 THEN Loaded(bytes) ELSE Round(after[k - 1])]
  BY <1>1, RoundsExist, ZenonT(30)
<1>3. T \in SUBSET ByteOf(sent)
  BY ElementsOf
<1> HIDE DEF after
<1> DEFINE S == {k \in Nat : k <= MaxParse =>
                   /\ Keeps(after[k], sent, D, T)
                   /\ \E j \in Nat : Follows(after[k], b, z, j, d, p, c) /\ Ends(after[k], j >= k)}
<1> HIDE DEF Ends, T
<1>4. 0 \in S
  <2>1. after[0] = Loaded(bytes)
    BY <1>1, <1>2
  <2>2. Loaded(bytes).stop = FALSE
    BY DEF Loaded
  <2>3. Follows(after[0], b, z, 0, d, p, c) /\ Ends(after[0], 0 >= 0)
    BY <2>1, <2>2 DEF Ends
  <2>4. Keeps(after[0], sent, D, T)
    BY <2>1 DEF T
  <2> QED BY <2>3, <2>4
<1>5. ASSUME NEW k \in Nat, k \in S PROVE k + 1 \in S
  <2> SUFFICES ASSUME k + 1 <= MaxParse
               PROVE  /\ Keeps(after[k + 1], sent, D, T)
                      /\ \E j \in Nat : /\ Follows(after[k + 1], b, z, j, d, p, c)
                                        /\ Ends(after[k + 1], j >= k + 1)
    OBVIOUS
  <2>1. k <= MaxParse /\ k + 1 \in 0 .. MaxParse /\ k + 1 # 0 /\ (k + 1) - 1 = k
    BY <1>1
  <2> DEFINE s == after[k]
             r == Parse(s)
  <2>2. after[k + 1] = Round(s)
    BY <1>2, <2>1
  <2>3. Keeps(s, sent, D, T)
    BY <1>5, <2>1
  <2>4. PICK j \in Nat : Follows(s, b, z, j, d, p, c) /\ Ends(s, j >= k)
    BY <1>5, <2>1
  <2>5. Keeps(Round(s), sent, D, T)
    <3> HIDE DEF s
    <3> QED BY <1>3, <2>3, ParseKeeps DEF Round
  <2>6. s.stop \in BOOLEAN
    <3> HIDE DEF s
    <3> QED BY <2>3 DEF Keeps, Parser
  <2>7. CASE s.stop
    <3>1. Round(s) = s
      BY <2>7 DEF Round
    <3>2. Follows(Round(s), b, z, j, d, p, c)
      BY <2>4, <3>1
    <3>3. Ends(s, j >= k + 1)
      <4> HIDE DEF s
      <4> QED BY <2>4, <2>7 DEF Ends
    <3>4. Ends(Round(s), j >= k + 1)
      <4> HIDE DEF s
      <4> QED BY <3>1, <3>3
    <3> HIDE DEF s
    <3> QED BY <2>2, <2>5, <3>2, <3>4
  <2>8. CASE s.stop = FALSE
    <3>1. Round(s) = r
      BY <2>8 DEF Round
    <3>2. Idle(s) => r.stop
      <4>1. s \in Parser(sent)
        BY <2>3 DEF Keeps
      <4> HIDE DEF s
      <4> QED BY <4>1, IdleStops
    <3>5. Goes(r, b, z, j, d, p, c)
      <4> HIDE DEF s
      <4>1. Keeps(s, sent, D, Elements(b)) /\ Follows(s, b, z, j, d, p, c)
        BY <2>3, <2>4 DEF T
      <4> QED BY <2>8, <4>1, ParseFollows
    <3>3. Idle(s) \/ j >= k
      <4> HIDE DEF s
      <4> QED BY <2>4, <2>8 DEF Ends
    <3> HIDE DEF r, s
    <3>4. \E i \in Nat : Follows(r, b, z, i, d, p, c) /\ Ends(r, i >= k + 1)
      <4>1. CASE Follows(r, b, z, j, d, p, c) /\ r.stop /\ Stuck(r)
        BY <4>1 DEF Ends
      <4>2. CASE Follows(r, b, z, j, d, p, c) /\ r.stop = FALSE /\ Idle(r)
        BY <4>2 DEF Ends
      <4>3. CASE Follows(r, b, z, j + 1, d, p, c) /\ r.stop = FALSE
        <5>1. j >= k
          BY <3>2, <3>3, <4>3
        <5>2. j + 1 \in Nat /\ j + 1 >= k + 1
          BY <5>1
        <5> QED BY <4>3, <5>2 DEF Ends
      <4> QED BY <3>5, <4>1, <4>2, <4>3 DEF Goes
    <3> QED BY <2>2, <2>5, <3>1, <3>4
  <2> QED BY <2>6, <2>7, <2>8
<1> HIDE DEF S
<1>6. MaxParse \in S
  BY <1>1, <1>4, <1>5, SetInduction
<1>7. \E j \in Nat : Follows(after[MaxParse], b, z, j, d, p, c) /\ Ends(after[MaxParse], j >= MaxParse)
  BY <1>1, <1>6 DEF S
<1> QED BY <1>1, <1>7 DEF Ends

(* Enough requests fill up every frame.                                    *)
LEMMA ShortAtMost ==
    ASSUME NEW f, NEW x, All(f, x) \in Nat, NEW m
    PROVE  MostShort \in Nat /\ Short(f, x, m, MostShort)
<1>1. FrameLen = 6 /\ Longest \in Nat /\ MostShort = (Longest + 6 - 1) \div 6
  BY LongestOf DEF FrameLen, MostShort
<1>2. MostShort \in Nat /\ 6 * MostShort >= Longest
  BY <1>1
<1>3. \A k \in 0 .. All(f, x) : All(f, x) - k + FrameLen * MostShort >= Longest
  BY <1>1, <1>2
<1> QED BY <1>2, <1>3 DEF Short

(* What a read of k bytes is for the parser.                               *)
LEMMA LoadedFollows ==
    ASSUME CommandInv, NEW k \in 0 .. Len(line), NEW d \in Nat,
           Short(fifo, line, matched, d), NEW p \in BOOLEAN, NEW c,
           p => Pending(fifo, line, matched, sent, c)
    PROVE  LET a == SubSeq(line, 1, k)
               b == SubSeq(line, k + 1, Len(line))
           IN  /\ Elements(fifo \o a) \cup Elements(b) = Elements(fifo) \cup Elements(line)
               /\ b \in Seq(ByteOf(sent)) /\ Elements(b) \subseteq Elements(line)
               /\ Follows(Loaded(a), b, Left, 0, d, p, c)
<1> DEFINE a == SubSeq(line, 1, k)
           b == SubSeq(line, k + 1, Len(line))
           g == fifo \o a
           l == Loaded(a)
<1>1. /\ Len(line) \in Nat /\ k \in Nat /\ k + 1 \in 1 .. Len(line) + 1 /\ Len(fifo) \in Nat
      /\ sent \in Nat /\ line \in Seq(ByteOf(sent)) /\ fifo \in Seq(ByteOf(sent))
      /\ matched \in BOOLEAN
  BY LenProperties DEF CommandInv
<1>2. a \in Seq(ByteOf(sent)) /\ Len(a) = k
      /\ \A i \in 1 .. k : i \in 1 .. Len(line) /\ a[i] = line[i]
  BY <1>1, FirstPart
<1>3. /\ b \in Seq(ByteOf(sent)) /\ Len(b) = Len(line) - (k + 1) + 1
      /\ \A i \in 1 .. Len(b) : k + 1 + i - 1 \in 1 .. Len(line) /\ b[i] = line[k + 1 + i - 1]
  BY <1>1, LastPart
<1>4. Behind(fifo, line, matched, g, b, matched, 0)
  BY <1>1, ReadBehind
<1>5. /\ g \in Seq(ByteOf(sent)) /\ Len(g) = Len(fifo) + Len(a)
      /\ \A i \in 1 .. Len(fifo) : i \in 1 .. Len(g) /\ g[i] = fifo[i]
      /\ \A i \in 1 .. Len(g) : \/ i \in 1 .. Len(fifo) /\ g[i] = fifo[i]
                                \/ /\ i > Len(fifo) /\ i - Len(fifo) \in 1 .. Len(a)
                                   /\ g[i] = a[i - Len(fifo)]
  BY <1>1, <1>2, Joined
<1>6. l.fifo = g /\ l.matched = matched /\ l.out = <<>>
  BY DEF Loaded
<1> HIDE DEF a, b, g, l
<1>7. /\ Elements(g) = {g[i] : i \in 1 .. Len(g)} /\ Elements(b) = {b[i] : i \in 1 .. Len(b)}
      /\ Elements(fifo) = {fifo[i] : i \in 1 .. Len(fifo)}
      /\ Elements(line) = {line[i] : i \in 1 .. Len(line)}
  BY <1>1, <1>3, <1>5, ElementsOf
<1>8. Elements(b) \subseteq Elements(line)
  BY <1>3, <1>7
<1>9. Elements(g) \cup Elements(b) = Elements(fifo) \cup Elements(line)
  <2>1. Elements(g) \subseteq Elements(fifo) \cup Elements(line)
    <3> SUFFICES ASSUME NEW i \in 1 .. Len(g)
                 PROVE  g[i] \in Elements(fifo) \cup Elements(line)
      BY <1>7
    <3>1. CASE i \in 1 .. Len(fifo) /\ g[i] = fifo[i]
      BY <1>7, <3>1
    <3>2. CASE i - Len(fifo) \in 1 .. Len(a) /\ g[i] = a[i - Len(fifo)]
      BY <1>2, <1>7, <3>2
    <3> QED BY <1>5, <3>1, <3>2
  <2>2. Elements(fifo) \subseteq Elements(g)
    BY <1>5, <1>7
  <2>3. Elements(line) \subseteq Elements(g) \cup Elements(b)
    <3> SUFFICES ASSUME NEW i \in 1 .. Len(line)
                 PROVE  line[i] \in Elements(g) \cup Elements(b)
      BY <1>7
    <3>1. CASE i <= k
      <4> DEFINE e == i + Len(fifo)
      <4>1. e \in 1 .. Len(g) /\ e \notin 1 .. Len(fifo) /\ e - Len(fifo) = i /\ i \in 1 .. k
        BY <1>1, <1>2, <1>5, <3>1
      <4> HIDE DEF e
      <4>2. g[e] = line[i]
        BY <1>2, <1>5, <4>1
      <4> QED BY <1>7, <4>1, <4>2
    <3>2. CASE i > k
      <4> DEFINE e == i - k
      <4>1. e \in 1 .. Len(b) /\ k + 1 + e - 1 = i
        BY <1>1, <1>3, <3>2
      <4> HIDE DEF e
      <4>2. b[e] = line[i]
        BY <1>3, <4>1
      <4> QED BY <1>7, <4>1, <4>2
    <3> QED BY <1>1, <3>1, <3>2
  <2> QED BY <1>8, <2>1, <2>2, <2>3
<1>10. Rounds(l, b, Left, 0)
  <2>1. Begins(l.fifo, l.matched, Elements(b)) = Left
    BY <1>6, <1>9, Zenon DEF Begins, Left
  <2>2. Left \in Nat
    <3>1. Elements(line) \in SUBSET ByteOf(sent)
      BY <1>1, ElementsOf
    <3> QED BY <1>1, <3>1, BeginsOf DEF Left
  <2>3. Len(l.out) = 0
    BY <1>6
  <2> QED BY <2>1, <2>2, <2>3 DEF Rounds
<1>11. Short(l.fifo, b, l.matched, d)
  <2>1. Short(g, b, matched, d)
    BY <1>4, ShiftShort
  <2> QED BY <1>6, <2>1
<1>12. ASSUME p PROVE Pending(l.fifo, b, l.matched, sent, c)
  <2>1. PICK e \in 0 .. All(fifo, line) :
          Starts(fifo, line, matched, e) /\ Complete(fifo, line, e, sent, c)
    BY <1>12 DEF Pending
  <2>2. e > 0 \/ (e = 0 /\ matched)
    <3>1. All(fifo, line) \in Nat
      BY <1>4 DEF Behind
    <3> QED BY <2>1, <3>1 DEF Starts
  <2>3. Pending(g, b, matched, sent, c)
    BY <1>4, <2>1, <2>2, ShiftPending
  <2> QED BY <1>6, <2>3
<1>13. Follows(l, b, Left, 0, d, p, c)
  BY <1>10, <1>11, <1>12 DEF Follows, Served
<1> QED BY <1>3, <1>8, <1>9, <1>13 DEF a, b, g, l

-----------------------------------------------------------------------------
(* A parser that waits has few bytes.                                      *)
LEMMA StuckFew ==
    ASSUME NEW n \in Nat, NEW s, s.fifo \in Seq(ByteOf(n)), s.matched \in BOOLEAN,
           NEW T \in SUBSET ByteOf(n), Stuck(s) \/ Idle(s)
    PROVE  Begins(s.fifo, s.matched, T) <= Longest + Cardinality(Firsts(T))
<1> DEFINE f == s.fifo
<1>1. /\ f \in Seq(ByteOf(n)) /\ Len(f) \in Nat /\ Length(f) \in Nat /\ Length(f) <= Longest
      /\ Len(f) < 2 => Length(f) = 0
      /\ ~(Len(f) < 2) => Length(f) >= FrameLen - 2
      /\ FrameLen = 6 /\ Longest \in Nat /\ Longest >= FrameLen - 1
  BY LenProperties, LengthOf, LongestOf DEF FrameLen
<1>2. Len(f) + One(s.matched) <= Longest
  <2>1. CASE Stuck(s) /\ s.matched = TRUE
    <3>1. Length(f) = 0 \/ Len(f) < Length(f)
      BY <2>1 DEF Stuck
    <3>2. One(s.matched) = 1
      BY <2>1 DEF One
    <3> HIDE DEF f
    <3> QED BY <1>1, <3>1, <3>2
  <2>2. CASE Stuck(s) /\ s.matched = FALSE
    <3>1. Len(f) < 3
      BY <2>2 DEF Stuck
    <3>2. One(s.matched) = 0
      BY <2>2 DEF One
    <3> HIDE DEF f
    <3> QED BY <1>1, <3>1, <3>2
  <2>3. CASE Idle(s)
    <3>1. f = <<>> /\ One(s.matched) = 0
      BY <2>3 DEF Idle, One
    <3>2. Len(f) = 0
      BY <3>1
    <3> HIDE DEF f
    <3> QED BY <1>1, <3>1, <3>2
  <2> QED BY <2>1, <2>2, <2>3
<1> DEFINE F == Firsts(Elements(f))
           G == Firsts(T)
<1>3. Elements(f) \in SUBSET ByteOf(n)
  BY ElementsOf
<1>4. /\ IsFiniteSet(F) /\ IsFiniteSet(G) /\ Cardinality(F) \in Nat /\ Cardinality(G) \in Nat
      /\ Firsts(Elements(f) \cup T) = F \cup G
  BY <1>3, FirstsOf, FirstsJoin
<1>5. Cardinality(F) <= Len(f)
  BY <1>1, FirstsBounded
<1> HIDE DEF f, F, G
<1>6. Cardinality(F \cup G) <= Cardinality(F) + Cardinality(G) /\ Cardinality(F \cup G) \in Nat
  <2>1. /\ IsFiniteSet(F \cup G)
        /\ Cardinality(F \cup G) = Cardinality(F) + Cardinality(G) - Cardinality(F \cap G)
    BY <1>4, FS_Union
  <2>2. F \cap G \in SUBSET F
    OBVIOUS
  <2>3. IsFiniteSet(F \cap G)
    BY <1>4, <2>2, FS_Subset
  <2>4. Cardinality(F \cup G) \in Nat /\ Cardinality(F \cap G) \in Nat
    BY <2>1, <2>3, FS_CardinalityType
  <2> QED BY <1>4, <2>1, <2>4
<1>7. Begins(s.fifo, s.matched, T) = Cardinality(F \cup G) + One(s.matched)
  BY <1>4 DEF Begins, f
<1>8. One(s.matched) \in Nat
  BY DEF One
<1> QED BY <1>1, <1>2, <1>4, <1>5, <1>6, <1>7, <1>8 DEF G

(* A parser that waits, with no more bytes to come, has no whole request.  *)
LEMMA StuckNone ==
    ASSUME NEW n \in Nat, NEW s, s.fifo \in Seq(ByteOf(n)), s.matched \in BOOLEAN,
           Stuck(s) \/ Idle(s), Short(s.fifo, <<>>, s.matched, 0), NEW e, NEW c
    PROVE  ~Pending(s.fifo, <<>>, s.matched, e, c)
<1> DEFINE f == s.fifo
<1>1. /\ f \in Seq(ByteOf(n)) /\ Len(f) \in Nat /\ Length(f) \in Nat /\ Length(f) <= Longest
      /\ ~(Len(f) < 2) => Length(f) >= FrameLen - 2
      /\ FrameLen = 6 /\ Longest \in Nat /\ Longest >= FrameLen - 1
  BY LenProperties, LengthOf, LongestOf DEF FrameLen
<1>2. All(f, <<>>) = Len(f)
  <2>1. Len(<<>>) = 0
    OBVIOUS
  <2> QED BY <1>1, <2>1 DEF All
<1> SUFFICES ASSUME NEW k \in 0 .. Len(f), Starts(f, <<>>, s.matched, k),
                    Complete(f, <<>>, k, e, c)
             PROVE  FALSE
  BY <1>2 DEF Pending
<1>3. k + 5 <= Len(f)
  BY <1>1, <1>2 DEF Complete
<1>4. CASE s.matched
  <2>1. Stuck(s)
    BY <1>4 DEF Idle
  <2>2. Length(f) = 0 \/ Len(f) < Length(f)
    BY <1>4, <2>1 DEF Stuck
  <2>3. Starts(f, <<>>, s.matched, 0) /\ 0 \in 0 .. Len(f)
    BY <1>1, <1>4 DEF Starts
  <2>4. \/ \E i \in Nat, d \in Commands : Complete(f, <<>>, 0, i, d)
        \/ Len(f) - 0 + FrameLen * 0 >= Longest
    BY <1>2, <2>3 DEF Short
  <2>5. CASE Len(f) - 0 + FrameLen * 0 >= Longest
    BY <1>1, <2>2, <2>5
  <2>6. ASSUME NEW i \in Nat, NEW d \in Commands, Complete(f, <<>>, 0, i, d)
        PROVE  FALSE
    <3>1. 5 <= Len(f)
      BY <1>1, <1>2, <2>6 DEF Complete
    <3>2. \A x \in 1 .. FrameLen : 0 + x - 1 >= 1 => At(f, <<>>, 0 + x - 1) = <<i, d, x>>
      BY <2>6 DEF Complete
    <3>3. At(f, <<>>, 2) = <<i, d, 3>>
      <4>1. 3 \in 1 .. FrameLen /\ 0 + 3 - 1 = 2 /\ 2 >= 1
        BY <1>1
      <4> QED BY <3>2, <4>1
    <3>4. f[2] = <<i, d, 3>>
      <4>1. 2 <= Len(f)
        BY <1>1, <3>1
      <4> QED BY <3>3, <4>1 DEF At
    <3>5. f[2][3] = 3 /\ ~(Len(f) < 2)
      BY <1>1, <3>1, <3>4
    <3>6. Length(f) = FrameLen - 1
      BY <1>1, <3>5, LengthOf
    <3> QED BY <1>1, <2>2, <3>1, <3>6
  <2> QED BY <2>4, <2>5, <2>6
<1>5. CASE ~s.matched
  <2>1. Len(f) < 3
    <3>1. CASE Idle(s)
      BY <3>1 DEF Idle
    <3>2. CASE Stuck(s)
      BY <1>5, <3>2 DEF Stuck
    <3> QED BY <3>1, <3>2
  <2> QED BY <1>1, <1>3, <2>1
<1> QED BY <1>4, <1>5

(* The bytes that a read leaves on the line: as many requests begin there, *)
(* or the newest one no more.                                              *)
LEMMA LineFewer ==
    ASSUME CommandInv, NEW b \in Seq(ByteOf(sent)), Elements(b) \subseteq Elements(line),
           NEW p \in BOOLEAN
    PROVE  /\ Cardinality(Firsts(Elements(b))) \in Nat /\ Cardinality(OnLine) \in Nat
           /\ Cardinality(OnLine) <= faults + One(p /\ sent \in OnLine) =>
                 Cardinality(Firsts(Elements(b))) <= faults + One(p /\ sent \in Firsts(Elements(b)))
<1> DEFINE B == Elements(b)
           X == Elements(line)
<1>1. /\ B \in SUBSET ByteOf(sent) /\ X \in SUBSET ByteOf(sent) /\ sent \in Nat /\ faults \in Nat
  BY ElementsOf DEF CommandInv
<1>2. B \subseteq X
  OBVIOUS
<1> HIDE DEF B, X
<1>3. Firsts(B) \subseteq Firsts(X)
  BY <1>2, FirstsJoin
<1>4. /\ Cardinality(Firsts(B)) \in Nat /\ Cardinality(Firsts(X)) \in Nat
  BY <1>1, FirstsOf
<1>5. /\ Cardinality(Firsts(B)) <= Cardinality(Firsts(X))
      /\ \A e \in Firsts(X) : e \notin Firsts(B) =>
            Cardinality(Firsts(B)) + 1 <= Cardinality(Firsts(X))
  BY <1>1, <1>3, FirstsFewer
<1>6. ASSUME Cardinality(Firsts(X)) <= faults + One(p /\ sent \in Firsts(X))
      PROVE  Cardinality(Firsts(B)) <= faults + One(p /\ sent \in Firsts(B))
  <2>1. CASE ~p \/ sent \notin Firsts(X)
    <3>1. One(p /\ sent \in Firsts(X)) = 0 /\ One(p /\ sent \in Firsts(B)) \in Nat
      BY <2>1 DEF One
    <3> QED BY <1>1, <1>4, <1>5, <1>6, <3>1
  <2>2. CASE p /\ sent \in Firsts(X) /\ sent \notin Firsts(B)
    <3>1. One(p /\ sent \in Firsts(X)) = 1 /\ One(p /\ sent \in Firsts(B)) = 0
      BY <2>2 DEF One
    <3>2. Cardinality(Firsts(B)) + 1 <= Cardinality(Firsts(X))
      BY <1>5, <2>2
    <3> QED BY <1>1, <1>4, <1>6, <3>1, <3>2
  <2>3. CASE p /\ sent \in Firsts(X) /\ sent \in Firsts(B)
    <3>1. One(p /\ sent \in Firsts(X)) = 1 /\ One(p /\ sent \in Firsts(B)) = 1
      BY <2>3 DEF One
    <3> QED BY <1>1, <1>4, <1>5, <1>6, <3>1
  <2> QED BY <2>1, <2>2, <2>3
<1> QED BY <1>4, <1>6 DEF OnLine, B, X

-----------------------------------------------------------------------------
(* There is room for what may still fail.                                  *)
Room ==
    /\ Cardinality(OnLine) <= faults + Fresh
    /\ Left <= Longest + faults + Fresh
    /\ Left + Answers <= Longest + faults + 1

(* Recovers is inductive: within the bound, and what may still fail is     *)
(* accounted for, with a request open (Paid, Unpaid, Own) and without one  *)
(* (Rested). During a session nothing is parsed and nothing counts.        *)
Limits == Room /\ failed <= Recovery /\ (session => failed = 0)
Comes == IF Open THEN Paid \/ Unpaid \/ Own ELSE Rested
Recovers == Limits /\ (~session => Comes)

(* One counts.                                                             *)
LEMMA OneOf == \A p : One(p) \in {0, 1} /\ (p => One(p) = 1) /\ (~p => One(p) = 0)
BY DEF One

(* The bounds are naturals.                                                *)
LEMMA RecoveryOf ==
    /\ MostShort \in Nat /\ Most = Longest + MaxFaults + 1 /\ Most \in Nat
    /\ Recovery = 3 * MostShort + 2 * Most + 1 /\ Recovery \in Nat
    /\ Longest \in Nat /\ Longest >= 5 /\ MaxFaults \in Nat
<1>1. FrameLen = 6 /\ Longest \in Nat /\ Longest >= 5
  BY LongestOf DEF FrameLen
<1>2. MostShort = (Longest + 6 - 1) \div 6
  BY <1>1 DEF MostShort
<1>3. MostShort \in Nat
  BY <1>1, <1>2
<1>4. MaxFaults \in Nat
  BY CommandAssumption
<1>5. Most = Longest + MaxFaults + 1 /\ Recovery = 3 * MostShort + 2 * Most + 1
  BY DEF Most, Recovery
<1> QED BY <1>1, <1>3, <1>4, <1>5

(* What is counted, and its types.                                         *)
Amounts ==
    /\ Left \in Nat /\ Answers \in Nat /\ Fresh \in {0, 1} /\ Cardinality(OnLine) \in Nat
    /\ faults \in 0 .. MaxFaults /\ failed \in Nat /\ All(fifo, line) \in Nat
    /\ (~Open => Fresh = 0) /\ session \in BOOLEAN /\ sent \in Nat
    /\ Len(sending) \in Nat /\ Len(arrived) \in Nat /\ Len(line) \in Nat
Recapped == failed = 0

LEMMA AmountsOf == CommandInv => Amounts
<1> SUFFICES ASSUME CommandInv PROVE Amounts
  OBVIOUS
<1>1. /\ sent \in Nat /\ line \in Seq(ByteOf(sent)) /\ fifo \in Seq(ByteOf(sent))
      /\ sending \in Seq(FrameOf(sent)) /\ arrived \in Seq(FrameOf(sent))
      /\ faults \in 0 .. MaxFaults /\ failed \in Nat /\ session \in BOOLEAN
  BY DEF CommandInv
<1>2. Elements(line) \in SUBSET ByteOf(sent)
  BY <1>1, ElementsOf
<1>3. Left \in Nat
  BY <1>1, <1>2, BeginsOf DEF Left
<1>4. Len(sending) \in Nat /\ Len(arrived) \in Nat /\ Len(fifo) \in Nat /\ Len(line) \in Nat
  BY <1>1, LenProperties
<1>5. Answers \in Nat
  BY <1>4 DEF Answers
<1>6. Cardinality(OnLine) \in Nat
  BY <1>1, <1>2, FirstsOf DEF OnLine
<1>7. Fresh \in {0, 1} /\ (~Open => Fresh = 0)
  BY OneOf DEF Fresh
<1>8. All(fifo, line) \in Nat
  BY <1>4 DEF All
<1> QED BY <1>1, <1>3, <1>4, <1>5, <1>6, <1>7, <1>8 DEF Amounts

(* With no failure counted there is room for everything.                   *)
LEMMA Recap == CommandInv /\ Room /\ Recapped => Recovers
<1> SUFFICES ASSUME CommandInv, Room, failed = 0 PROVE Recovers
  BY DEF Recapped
<1>1. /\ Left \in Nat /\ Answers \in Nat /\ Fresh \in {0, 1}
      /\ faults \in 0 .. MaxFaults /\ All(fifo, line) \in Nat
  BY AmountsOf DEF Amounts
<1>2. /\ Left <= Longest + faults + Fresh /\ Left + Answers <= Longest + faults + 1
  BY DEF Room
<1>3. 2 * Left + Answers <= 2 * Most
  <2>1. Left <= Most /\ Left + Answers <= Most
    BY <1>1, <1>2, RecoveryOf
  <2> QED BY <1>1, <2>1, RecoveryOf
<1>4. Cost(MostShort) + 1 <= Recovery /\ Cost(MostShort) \in Nat
  <2>1. Cost(MostShort) = 3 * MostShort + 2 * Left + Answers
    BY DEF Cost
  <2> QED BY <1>1, <1>3, <2>1, RecoveryOf
<1>5. Short(fifo, line, matched, MostShort) /\ MostShort \in 0 .. MostShort
  BY <1>1, ShortAtMost
<1>6. Rested
  <2>1. failed + Cost(MostShort) <= Recovery
    BY <1>4, RecoveryOf
  <2> QED BY <1>5, <2>1 DEF Rested
<1>7. Paid
  <2>1. One(Answers >= 1) \in {0, 1}
    BY OneOf
  <2>2. failed + Cost(MostShort) + 1 <= Recovery + One(Answers >= 1)
    BY <1>4, <2>1, RecoveryOf
  <2> QED BY <1>5, <2>2 DEF Paid
<1> QED BY <1>6, <1>7, RecoveryOf DEF Recovers, Limits, Comes

(* The same of the next state.                                             *)
LEMMA NextAmounts == CommandInv' => Amounts'
BY AmountsOf, PTL

(* A next state without failures recovers.                                 *)
LEMMA NextRecap == ASSUME CommandInv', Room', failed' = 0 PROVE Recovers'
<1>1. (CommandInv /\ Room /\ Recapped => Recovers)'
  BY Recap, PTL
<1> QED BY <1>1 DEF Recapped

-----------------------------------------------------------------------------
(* What is to be shown of the next state.                                  *)
LEMMA NextPaid ==
    ASSUME NEW s \in 0 .. MostShort, Short(fifo', line', matched', s),
           failed' + (3 * s + 2 * Left' + Answers') + 1 <= Recovery + One(Answers' >= 1)
    PROVE  Paid'
<1>1. /\ s \in 0 .. MostShort /\ Short(fifo, line, matched, s)'
      /\ failed' + Cost(s)' + 1 <= Recovery + One(Answers >= 1)'
  BY DEF Cost
<1> QED BY <1>1 DEF Paid

LEMMA NextUnpaid ==
    ASSUME Short(fifo', line', matched', 0), line' # <<>>,
           Pending(fifo', line', matched', sent', awaited'),
           failed' + (3 * 0 + 2 * Left' + Answers') <= Recovery + 2 - One(Answers' >= 1)
    PROVE  Unpaid'
<1>1. failed' + Cost(0)' <= Recovery + 2 - One(Answers >= 1)'
  BY DEF Cost
<1> QED BY <1>1 DEF Unpaid

LEMMA NextRested ==
    ASSUME NEW s \in 0 .. MostShort, Short(fifo', line', matched', s),
           failed' + (3 * s + 2 * Left' + Answers') <= Recovery
    PROVE  Rested'
<1>1. /\ s \in 0 .. MostShort /\ Short(fifo, line, matched, s)'
      /\ failed' + Cost(s)' <= Recovery
  BY DEF Cost
<1> QED BY <1>1 DEF Rested

LEMMA NextRecovers ==
    ASSUME Room', failed' <= Recovery, session' => failed' = 0,
           ~session' => IF awaited' # "nothing" THEN Paid' \/ Unpaid' \/ Own' ELSE Rested'
    PROVE  Recovers'
<1>1. Open' <=> awaited' # "nothing"
  BY DEF Open
<1>2. Limits'
  BY DEF Limits
<1>3. ~session' => Comes'
  BY <1>1 DEF Comes
<1> QED BY <1>2, <1>3 DEF Recovers

LEMMA NextRoom ==
    ASSUME Cardinality(OnLine') <= faults' + Fresh', Left' <= Longest + faults' + Fresh',
           Left' + Answers' <= Longest + faults' + 1
    PROVE  Room'
BY DEF Room

-----------------------------------------------------------------------------
(* Bytes that come behind the others.                                      *)
Grows(f, x, e, y) ==
    /\ All(f, x) \in Nat /\ Len(e) \in Nat /\ All(f, y) = All(f, x) + Len(e)
    /\ \A k \in 1 .. All(f, x) : At(f, y, k) = At(f, x, k)
    /\ \A k \in 1 .. Len(e) : At(f, y, All(f, x) + k) = e[k]

(* What comes behind changes nothing before it.                            *)
LEMMA Grown ==
    ASSUME NEW S, NEW f \in Seq(S), NEW x \in Seq(S), NEW e \in Seq(S)
    PROVE  Grows(f, x, e, x \o e)
<1> DEFINE y == x \o e
<1>1. Len(f) \in Nat /\ Len(x) \in Nat /\ Len(e) \in Nat
  BY LenProperties
<1>2. /\ Len(y) = Len(x) + Len(e)
      /\ \A i \in 1 .. Len(x) + Len(e) : y[i] = IF i <= Len(x) THEN x[i] ELSE e[i - Len(x)]
  BY ConcatProperties
<1> HIDE DEF y
<1>3. All(f, x) = Len(f) + Len(x) /\ All(f, y) = All(f, x) + Len(e)
  BY <1>1, <1>2 DEF All
<1>4. ASSUME NEW k \in 1 .. All(f, x) PROVE At(f, y, k) = At(f, x, k)
  <2>1. CASE k <= Len(f)
    BY <2>1 DEF At
  <2>2. CASE ~(k <= Len(f))
    <3>1. k - Len(f) \in 1 .. Len(x) + Len(e) /\ k - Len(f) <= Len(x)
      BY <1>1, <1>3, <2>2
    <3>2. y[k - Len(f)] = x[k - Len(f)]
      BY <1>2, <3>1
    <3> QED BY <2>2, <3>2 DEF At
  <2> QED BY <2>1, <2>2
<1>5. ASSUME NEW k \in 1 .. Len(e) PROVE At(f, y, All(f, x) + k) = e[k]
  <2>1. /\ ~(All(f, x) + k <= Len(f)) /\ (All(f, x) + k) - Len(f) = Len(x) + k
        /\ Len(x) + k \in 1 .. Len(x) + Len(e) /\ ~(Len(x) + k <= Len(x))
        /\ (Len(x) + k) - Len(x) = k
    BY <1>1, <1>3
  <2>2. y[Len(x) + k] = e[k]
    BY <1>2, <2>1
  <2> QED BY <2>1, <2>2 DEF At
<1> QED BY <1>1, <1>3, <1>4, <1>5 DEF y, Grows

(* Bytes that came make up for what the longest frame lacks.               *)
LEMMA GrownShort ==
    ASSUME NEW S, NEW f \in Seq(S), NEW x \in Seq(S), NEW e \in Seq(S), NEW m,
           NEW s \in Nat, NEW t \in Nat, Short(f, x, m, s),
           Len(e) + FrameLen * t >= FrameLen * s,
           \A i \in 1 .. Len(e) : e[i][3] = 1 =>
               \E n \in Nat, c \in Commands : Complete(f, x \o e, All(f, x) + i, n, c)
    PROVE  Short(f, x \o e, m, t)
<1> DEFINE y == x \o e
<1>1. /\ All(f, x) \in Nat /\ Len(e) \in Nat /\ All(f, y) = All(f, x) + Len(e)
      /\ \A k \in 1 .. All(f, x) : At(f, y, k) = At(f, x, k)
      /\ \A k \in 1 .. Len(e) : At(f, y, All(f, x) + k) = e[k]
  <2>1. Grows(f, x, e, x \o e)
    BY Grown
  <2> QED BY <2>1 DEF Grows
<1>2. \A i \in 1 .. Len(e) : e[i][3] = 1 =>
         \E n \in Nat, c \in Commands : Complete(f, y, All(f, x) + i, n, c)
  OBVIOUS
<1> HIDE DEF y
<1> SUFFICES ASSUME NEW k \in 0 .. All(f, y), Starts(f, y, m, k)
             PROVE  \/ \E n \in Nat, c \in Commands : Complete(f, y, k, n, c)
                    \/ All(f, y) - k + FrameLen * t >= Longest
  BY DEF Short, y
<1>3. CASE k \in 0 .. All(f, x)
  <2>1. Starts(f, x, m, k)
    <3>1. CASE k = 0
      BY <3>1 DEF Starts
    <3>2. CASE k # 0
      <4>1. k \in 1 .. All(f, x)
        BY <1>1, <1>3, <3>2
      <4> QED BY <1>1, <3>2, <4>1 DEF Starts
    <3> QED BY <3>1, <3>2
  <2>2. ASSUME NEW n \in Nat, NEW c \in Commands, Complete(f, x, k, n, c)
        PROVE  Complete(f, y, k, n, c)
    <3>1. k + FrameLen - 1 <= All(f, x) /\ k + FrameLen - 1 <= All(f, y)
      BY <1>1, <2>2, SMTT(30) DEF Complete, FrameLen
    <3>2. ASSUME NEW i \in 1 .. FrameLen, k + i - 1 >= 1
          PROVE  At(f, y, k + i - 1) = <<n, c, i>>
      <4>1. k + i - 1 \in 1 .. All(f, x)
        BY <1>1, <3>1, <3>2 DEF FrameLen
      <4> QED BY <1>1, <2>2, <3>2, <4>1 DEF Complete
    <3> QED BY <3>1, <3>2 DEF Complete
  <2>3. CASE All(f, x) - k + FrameLen * s >= Longest
    <3>1. FrameLen = 6 /\ Longest \in Nat
      BY LongestOf DEF FrameLen
    <3>2. Len(e) + 6 * t >= 6 * s
      BY <3>1
    <3>3. All(f, y) - k + 6 * t >= Longest
      BY <1>1, <2>3, <3>1, <3>2
    <3> QED BY <3>1, <3>3
  <2>4. \/ \E n \in Nat, c \in Commands : Complete(f, x, k, n, c)
        \/ All(f, x) - k + FrameLen * s >= Longest
    BY <1>3, <2>1 DEF Short
  <2> QED BY <2>2, <2>3, <2>4
<1>4. CASE k \notin 0 .. All(f, x)
  <2> DEFINE i == k - All(f, x)
  <2>1. i \in 1 .. Len(e) /\ All(f, x) + i = k /\ k # 0
    BY <1>1, <1>4
  <2> HIDE DEF i
  <2>2. e[i][3] = 1
    BY <1>1, <2>1 DEF Starts
  <2> QED BY <1>2, <2>1, <2>2
<1> QED BY <1>3, <1>4

(* A whole request behind the others waits there.                          *)
Joins(f, x, m, e, n, c) ==
    /\ Complete(f, x \o e, All(f, x) + 1, n, c) /\ Pending(f, x \o e, m, n, c)
    /\ \A i \in 1 .. Len(e) : e[i][3] = 1 => i = 1

LEMMA GrownComplete ==
    ASSUME NEW S, NEW f \in Seq(S), NEW x \in Seq(S), NEW e \in Seq(S), NEW m, NEW n, NEW c,
           Len(e) = FrameLen, \A i \in 1 .. FrameLen : e[i] = <<n, c, i>>
    PROVE  Joins(f, x, m, e, n, c)
<1> DEFINE y == x \o e
<1>1. /\ All(f, x) \in Nat /\ Len(e) \in Nat /\ All(f, y) = All(f, x) + Len(e)
      /\ \A k \in 1 .. All(f, x) : At(f, y, k) = At(f, x, k)
      /\ \A k \in 1 .. Len(e) : At(f, y, All(f, x) + k) = e[k]
  <2>1. Grows(f, x, e, x \o e)
    BY Grown
  <2> QED BY <2>1 DEF Grows
<1> HIDE DEF y
<1>2. FrameLen = 6 /\ Len(e) = 6
  BY DEF FrameLen
<1>3. Complete(f, y, All(f, x) + 1, n, c)
  <2>1. (All(f, x) + 1) + FrameLen - 1 <= All(f, y)
    BY <1>1, <1>2
  <2>2. ASSUME NEW i \in 1 .. FrameLen
        PROVE  At(f, y, (All(f, x) + 1) + i - 1) = <<n, c, i>>
    <3>1. (All(f, x) + 1) + i - 1 = All(f, x) + i /\ i \in 1 .. Len(e)
      BY <1>1, <1>2
    <3> QED BY <1>1, <3>1
  <2> QED BY <2>1, <2>2 DEF Complete
<1>4. Starts(f, y, m, All(f, x) + 1)
  <2>1. All(f, x) + 1 # 0 /\ All(f, x) + 1 \in 1 .. All(f, y) /\ 1 \in 1 .. Len(e)
        /\ 1 \in 1 .. FrameLen
    BY <1>1, <1>2
  <2>2. At(f, y, All(f, x) + 1) = <<n, c, 1>>
    BY <1>1, <2>1
  <2> QED BY <2>1, <2>2 DEF Starts
<1>5. All(f, x) + 1 \in 0 .. All(f, y)
  BY <1>1, <1>2
<1>6. Pending(f, y, m, n, c)
  BY <1>3, <1>4, <1>5 DEF Pending
<1>7. \A i \in 1 .. Len(e) : e[i][3] = i
  BY <1>2
<1> QED BY <1>3, <1>6, <1>7 DEF y, Joins

(* A request, or what is left of it, adds one beginning at most.           *)
LEMMA GrownBegins ==
    ASSUME NEW n \in Nat, NEW f \in Seq(ByteOf(n)), NEW x \in Seq(ByteOf(n)), NEW e,
           Piece(e, n + 1), NEW m
    PROVE  LET X == Elements(x)
               Y == Elements(x \o e)
           IN  /\ Cardinality(Firsts(X)) \in Nat /\ Cardinality(Firsts(Y)) \in Nat
               /\ Begins(f, m, X) \in Nat /\ Begins(f, m, Y) \in Nat
               /\ Cardinality(Firsts(Y)) <= Cardinality(Firsts(X)) + 1
               /\ Begins(f, m, Y) <= Begins(f, m, X) + 1
               /\ (\A i \in 1 .. Len(e) : e[i][3] # 1) =>
                      /\ Cardinality(Firsts(Y)) = Cardinality(Firsts(X))
                      /\ Begins(f, m, Y) = Begins(f, m, X)
               /\ (\E i \in 1 .. Len(e) : e[i][3] = 1) => n + 1 \in Firsts(Y)
<1> DEFINE X == Elements(x)
           Y == Elements(x \o e)
           E == Elements(e)
           F == Elements(f)
<1>1. ByteOf(n) \subseteq ByteOf(n + 1) /\ n + 1 \in Nat
  <2>1. 1 .. n \subseteq 1 .. n + 1 /\ n + 1 \in Nat
    OBVIOUS
  <2> QED BY <2>1 DEF ByteOf
<1>2. /\ f \in Seq(ByteOf(n + 1)) /\ x \in Seq(ByteOf(n + 1)) /\ e \in Seq(ByteOf(n + 1))
  BY <1>1, SeqMonotonic DEF Piece
<1>3. LET u == x \o e IN
      /\ u \in Seq(ByteOf(n + 1)) /\ Len(u) = Len(x) + Len(e)
      /\ \A k \in 1 .. Len(x) : k \in 1 .. Len(u) /\ u[k] = x[k]
      /\ \A k \in 1 .. Len(u) : \/ k \in 1 .. Len(x) /\ u[k] = x[k]
                                \/ /\ k > Len(x) /\ k - Len(x) \in 1 .. Len(e)
                                   /\ u[k] = e[k - Len(x)]
  BY <1>2, Joined
<1>4. Y = X \cup E
  <2> DEFINE u == x \o e
  <2>1. /\ Elements(u) = {u[k] : k \in 1 .. Len(u)} /\ X = {x[k] : k \in 1 .. Len(x)}
        /\ E = {e[k] : k \in 1 .. Len(e)} /\ Len(x) \in Nat /\ Len(e) \in Nat
    BY <1>2, <1>3, ElementsOf, LenProperties
  <2>2. \A k \in 1 .. Len(e) : LET i == k + Len(x) IN
           i \in 1 .. Len(u) /\ i \notin 1 .. Len(x) /\ i - Len(x) = k
    BY <1>3, <2>1
  <2> HIDE DEF u, X, E
  <2>3. \A k \in 1 .. Len(u) : u[k] \in X \cup E
    <3> TAKE k \in 1 .. Len(u)
    <3>1. CASE k \in 1 .. Len(x) /\ u[k] = x[k]
      BY <2>1, <3>1
    <3>2. CASE k - Len(x) \in 1 .. Len(e) /\ u[k] = e[k - Len(x)]
      BY <2>1, <3>2
    <3> QED BY <1>3, <3>1, <3>2 DEF u
  <2>4. \A k \in 1 .. Len(e) : e[k] \in Elements(u)
    <3> TAKE k \in 1 .. Len(e)
    <3>1. PICK i \in 1 .. Len(u) : i \notin 1 .. Len(x) /\ i - Len(x) = k
      BY <2>2
    <3>2. u[i] = e[k]
      BY <1>3, <3>1 DEF u
    <3> QED BY <2>1, <3>2
  <2>5. \A k \in 1 .. Len(x) : x[k] \in Elements(u)
    BY <1>3, <2>1 DEF u
  <2> QED BY <2>1, <2>3, <2>4, <2>5 DEF u
<1>5. /\ F \in SUBSET ByteOf(n + 1) /\ X \in SUBSET ByteOf(n + 1) /\ E \in SUBSET ByteOf(n + 1)
      /\ E = {e[i] : i \in 1 .. Len(e)}
  BY <1>2, ElementsOf
<1>6. Firsts(E) \subseteq {n + 1}
  BY <1>5 DEF Piece, Firsts
<1>7. (\A i \in 1 .. Len(e) : e[i][3] # 1) => Firsts(E) = {}
  BY <1>5 DEF Firsts
<1>8. (\E i \in 1 .. Len(e) : e[i][3] = 1) => n + 1 \in Firsts(E)
  BY <1>5 DEF Piece, Firsts
<1> HIDE DEF X, Y, E, F
<1>9. ASSUME NEW V \in SUBSET ByteOf(n + 1)
      PROVE  /\ Cardinality(Firsts(V)) \in Nat /\ Cardinality(Firsts(V \cup E)) \in Nat
             /\ Cardinality(Firsts(V \cup E)) <= Cardinality(Firsts(V)) + 1
             /\ Firsts(V \cup E) = Firsts(V) \cup Firsts(E)
  <2>1. IsFiniteSet(Firsts(V)) /\ Cardinality(Firsts(V)) \in Nat
    BY <1>1, FirstsOf
  <2>2. V \cup E \in SUBSET ByteOf(n + 1)
    BY <1>5
  <2>3. Cardinality(Firsts(V \cup E)) \in Nat
    BY <1>1, <2>2, FirstsOf
  <2>4. Firsts(V \cup E) = Firsts(V) \cup Firsts(E)
    BY FirstsJoin
  <2>5. Firsts(V \cup E) = Firsts(V) \/ Firsts(V \cup E) = Firsts(V) \cup {n + 1}
    BY <1>6, <2>4
  <2>6. Cardinality(Firsts(V) \cup {n + 1}) <= Cardinality(Firsts(V)) + 1
    <3> DEFINE R == Firsts(V)
    <3>1. IsFiniteSet(R) /\ Cardinality(R) \in Nat
      BY <2>1
    <3> HIDE DEF R
    <3>2. Cardinality(R \cup {n + 1}) = IF n + 1 \in R THEN Cardinality(R) ELSE Cardinality(R) + 1
      BY <3>1, FS_AddElement
    <3>3. Cardinality(R \cup {n + 1}) <= Cardinality(R) + 1
      BY <3>1, <3>2
    <3> QED BY <3>3 DEF R
  <2>7. Cardinality(Firsts(V \cup E)) <= Cardinality(Firsts(V)) + 1
    <3>1. CASE Firsts(V \cup E) = Firsts(V)
      BY <2>1, <3>1
    <3>2. CASE Firsts(V \cup E) = Firsts(V) \cup {n + 1}
      BY <2>6, <3>2
    <3> QED BY <2>5, <3>1, <3>2
  <2> QED BY <2>1, <2>3, <2>4, <2>7
<1>10. /\ Begins(f, m, X) = Cardinality(Firsts(F \cup X)) + One(m)
       /\ Begins(f, m, Y) = Cardinality(Firsts((F \cup X) \cup E)) + One(m)
       /\ One(m) \in Nat
  <2>1. F \cup Y = (F \cup X) \cup E
    BY <1>4
  <2>2. /\ Begins(f, m, X) = Cardinality(Firsts(F \cup X)) + One(m)
        /\ Begins(f, m, Y) = Cardinality(Firsts(F \cup Y)) + One(m)
    BY DEF Begins, F
  <2>3. One(m) \in Nat
    BY OneOf
  <2> QED BY <2>1, <2>2, <2>3
<1>11. F \cup X \in SUBSET ByteOf(n + 1)
  BY <1>5
<1>12. /\ Cardinality(Firsts(X)) \in Nat /\ Cardinality(Firsts(Y)) \in Nat
       /\ Cardinality(Firsts(Y)) <= Cardinality(Firsts(X)) + 1
       /\ Firsts(Y) = Firsts(X) \cup Firsts(E)
  BY <1>4, <1>5, <1>9
<1>13. /\ Cardinality(Firsts(F \cup X)) \in Nat /\ Cardinality(Firsts((F \cup X) \cup E)) \in Nat
       /\ Cardinality(Firsts((F \cup X) \cup E)) <= Cardinality(Firsts(F \cup X)) + 1
       /\ Firsts((F \cup X) \cup E) = Firsts(F \cup X) \cup Firsts(E)
  BY <1>9, <1>11
<1>14. Begins(f, m, X) \in Nat /\ Begins(f, m, Y) \in Nat
       /\ Begins(f, m, Y) <= Begins(f, m, X) + 1
  BY <1>10, <1>13
<1>15. ASSUME \A i \in 1 .. Len(e) : e[i][3] # 1
       PROVE  /\ Cardinality(Firsts(Y)) = Cardinality(Firsts(X))
              /\ Begins(f, m, Y) = Begins(f, m, X)
  <2>1. Firsts(Y) = Firsts(X) /\ Firsts((F \cup X) \cup E) = Firsts(F \cup X)
    BY <1>7, <1>12, <1>13, <1>15
  <2> QED BY <1>10, <2>1
<1>16. (\E i \in 1 .. Len(e) : e[i][3] = 1) => n + 1 \in Firsts(Y)
  BY <1>8, <1>12
<1> QED BY <1>12, <1>14, <1>15, <1>16 DEF X, Y

-----------------------------------------------------------------------------
(* The sums in Room, Rested, Paid and Unpaid.                              *)
Holding(l, a, f, r) == l <= Longest + f + r /\ l + a <= Longest + f + 1
Spares(k, s, l, a) == k + (3 * s + 2 * l + a) <= Recovery
Pays(k, s, l, a) == k + (3 * s + 2 * l + a) + 1 <= Recovery + One(a >= 1)
Owes(k, l, a) == k + (3 * 0 + 2 * l + a) <= Recovery + 2 - One(a >= 1)

(* A beginning more needs room: a fault's, or that of the open request.    *)
LEMMA HoldingAfter ==
    ASSUME NEW l \in Nat, NEW a \in Nat, NEW f \in Nat, Holding(l, a, f, 0),
           NEW q \in Nat, NEW b \in Nat, NEW g \in Nat, NEW t \in Nat,
           q <= l + 1, b <= a, f <= g,
           q <= l \/ t >= 1 \/ g >= f + 1, q <= l \/ g >= f + 1 \/ b = 0
    PROVE  Holding(q, b, g, t)
BY RecoveryOf DEF Holding

(* A request that is asked with no answer under way: it makes up for six   *)
(* bytes that are lacking, or nothing is lacking and it is pending.        *)
LEMMA SparesOne ==
    ASSUME NEW k \in Nat, NEW s \in Nat, NEW l \in Nat, Spares(k, s, l, 0),
           NEW q \in Nat, q <= l + 1
    PROVE  (s >= 1 => Pays(k, s - 1, q, 0)) /\ (s = 0 => Owes(k, q, 0))
<1>1. One(0 >= 1) = 0
  BY DEF One
<1>2. k + (3 * s + 2 * l + 0) <= Recovery
  BY DEF Spares
<1>3. s >= 1 => k + (3 * (s - 1) + 2 * q + 0) + 1 <= Recovery + 0
  BY <1>2, RecoveryOf
<1>4. s = 0 => k + (3 * 0 + 2 * q + 0) <= Recovery + 2 - 0
  BY <1>2, RecoveryOf
<1> QED BY <1>1, <1>3, <1>4 DEF Pays, Owes

(* With an answer under way it is that answer which ends it.               *)
LEMMA SparesPays ==
    ASSUME NEW k \in Nat, NEW s \in Nat, NEW l \in Nat, NEW a \in Nat, Spares(k, s, l, a),
           a >= 1, NEW b \in Nat, b = a \/ b + 1 = a
    PROVE  Pays(k, s, l, b)
<1>1. k + (3 * s + 2 * l + a) <= Recovery
  BY DEF Spares
<1>2. CASE b >= 1
  <2>1. One(b >= 1) = 1
    BY <1>2 DEF One
  <2>2. k + (3 * s + 2 * l + b) + 1 <= Recovery + 1
    BY <1>1, RecoveryOf
  <2> QED BY <2>1, <2>2 DEF Pays
<1>3. CASE ~(b >= 1)
  <2>1. One(b >= 1) = 0
    BY <1>3 DEF One
  <2>2. k + (3 * s + 2 * l + b) + 1 <= Recovery + 0
    BY <1>1, <1>3, RecoveryOf
  <2> QED BY <2>1, <2>2 DEF Pays
<1> QED BY <1>2, <1>3

(* The line x, the bytes e of request n behind it.                         *)
GrowsBy(f, m, x, e, n) ==
    LET y == x \o e IN
    /\ Cardinality(Firsts(Elements(y))) <= Cardinality(Firsts(Elements(x))) + 1
    /\ Begins(f, m, Elements(y)) <= Begins(f, m, Elements(x)) + 1
    /\ (\A i \in 1 .. Len(e) : e[i][3] # 1) =>
          /\ Cardinality(Firsts(Elements(y))) = Cardinality(Firsts(Elements(x)))
          /\ Begins(f, m, Elements(y)) = Begins(f, m, Elements(x))
    /\ (\E i \in 1 .. Len(e) : e[i][3] = 1) => n + 1 \in Firsts(Elements(y))

(* Its bytes hold one beginning at most.                                   *)
LEMMA GrownBy ==
    ASSUME NEW n \in Nat, NEW f \in Seq(ByteOf(n)), NEW x \in Seq(ByteOf(n)), NEW m,
           NEW e, Piece(e, n + 1)
    PROVE  GrowsBy(f, m, x, e, n)
BY GrownBegins DEF GrowsBy

(* Room and Rested in these terms.                                         *)
LEMMA SumsOf ==
    /\ Room <=> Cardinality(OnLine) <= faults + Fresh /\ Holding(Left, Answers, faults, Fresh)
    /\ Rested <=> \E s \in 0 .. MostShort :
         Short(fifo, line, matched, s) /\ Spares(failed, s, Left, Answers)
BY DEF Room, Holding, Rested, Spares, Cost

-----------------------------------------------------------------------------
(* What is to be shown of the next state, in these terms.                  *)
LEMMA NextSums ==
    ASSUME Cardinality(OnLine') <= faults' + Fresh', Holding(Left', Answers', faults', Fresh')
    PROVE  Room'
BY SumsOf, NextRoom DEF Holding

LEMMA PaidNext ==
    ASSUME NEW s \in 0 .. MostShort, Short(fifo', line', matched', s),
           Pays(failed', s, Left', Answers')
    PROVE  Paid'
BY NextPaid DEF Pays

LEMMA UnpaidNext ==
    ASSUME Short(fifo', line', matched', 0), line' # <<>>,
           Pending(fifo', line', matched', sent', awaited'), Owes(failed', Left', Answers')
    PROVE  Unpaid'
BY NextUnpaid DEF Owes

LEMMA RestedNext ==
    ASSUME NEW s \in 0 .. MostShort, Short(fifo', line', matched', s),
           Spares(failed', s, Left', Answers')
    PROVE  Rested'
BY NextRested DEF Spares

(* What the next state counts.                                             *)
LEMMA NextCounts ==
    /\ OnLine' = Firsts(Elements(line'))
    /\ Left' = Begins(fifo', matched', Elements(line'))
    /\ Answers' = Len(sending') + (IF awaited' # "nothing" THEN Len(arrived') ELSE 0)
    /\ Fresh' = One(awaited' # "nothing" /\ sent' \in OnLine')
    /\ OnLine = Firsts(Elements(line))
    /\ Left = Begins(fifo, matched, Elements(line))
    /\ Answers = Len(sending) + (IF awaited # "nothing" THEN Len(arrived) ELSE 0)
    /\ Fresh = One(awaited # "nothing" /\ sent \in OnLine)
BY DEF OnLine, Left, Answers, Fresh, Open

(* The host asks.                                                          *)
LEMMA AskRecovers ==
    ASSUME CommandInv, CommandInv', Recovers, NEW c \in Commands, Ask(c)
    PROVE  Recovers'
<1> DEFINE all == RequestBytes(sent + 1, c)
           X == Elements(line)
           Y == Elements(line')
<1>1. /\ sent \in Nat /\ sent' = sent + 1 /\ awaited' = c /\ arrived' = <<>>
      /\ awaited = "nothing" /\ c # "nothing"
      /\ UNCHANGED <<fifo, matched, session>>
      /\ line \in Seq(ByteOf(sent)) /\ fifo \in Seq(ByteOf(sent)) /\ session \in BOOLEAN
      /\ sending \in Seq(FrameOf(sent))
  BY CommandAssumption DEF CommandInv, Ask, Flushed, parser
<1>2. /\ Left \in Nat /\ Answers \in Nat /\ Fresh = 0 /\ Cardinality(OnLine) \in Nat
      /\ faults \in Nat /\ failed \in Nat /\ Len(sending) \in Nat
  BY <1>1, AmountsOf DEF Amounts, Open
<1>3. /\ Left' \in Nat /\ Answers' \in Nat /\ Fresh' \in {0, 1} /\ Cardinality(OnLine') \in Nat
      /\ faults' \in Nat /\ failed' \in Nat /\ Len(sending') \in Nat
  BY NextAmounts DEF Amounts
<1>4. /\ Cardinality(OnLine) <= faults /\ Left <= Longest + faults
      /\ Left + Answers <= Longest + faults + 1 /\ failed <= Recovery
      /\ session => failed = 0
      /\ ~session => Rested
  BY <1>1, <1>2, RecoveryOf DEF Recovers, Limits, Room, Comes, Open
<1>13. Holding(Left, Answers, faults, 0)
  BY <1>1, <1>2, SumsOf DEF Recovers, Limits
<1>5. Answers = Len(sending) /\ Answers' = Len(sending')
  <2>1. Len(arrived') = 0
    BY <1>1
  <2> QED BY <1>1, <1>3, <2>1, NextCounts
<1>6. /\ OnLine' = Firsts(Y) /\ Left' = Begins(fifo, matched, Y)
      /\ OnLine = Firsts(X) /\ Left = Begins(fifo, matched, X)
      /\ Fresh' = One(sent + 1 \in Firsts(Y))
  <2>1. /\ OnLine' = Firsts(Y) /\ Left' = Begins(fifo', matched', Y)
        /\ OnLine = Firsts(X) /\ Left = Begins(fifo, matched, X)
        /\ Fresh' = One(awaited' # "nothing" /\ sent' \in Firsts(Y))
    BY NextCounts
  <2>2. (awaited' # "nothing" /\ sent' \in Firsts(Y)) <=> sent + 1 \in Firsts(Y)
    BY <1>1
  <2>3. Fresh' = One(sent + 1 \in Firsts(Y))
    BY <2>1, <2>2, OneOf
  <2> QED BY <1>1, <2>1, <2>3
<1>7. ASSUME NEW e, Piece(e, sent + 1), line' = line \o e
      PROVE  /\ Cardinality(OnLine') <= Cardinality(OnLine) + 1 /\ Left' <= Left + 1
             /\ (\A i \in 1 .. Len(e) : e[i][3] # 1) =>
                   Cardinality(OnLine') = Cardinality(OnLine) /\ Left' = Left
             /\ (\E i \in 1 .. Len(e) : e[i][3] = 1) => Fresh' = 1
  <2>1. /\ Cardinality(Firsts(Y)) <= Cardinality(Firsts(X)) + 1
        /\ Begins(fifo, matched, Y) <= Begins(fifo, matched, X) + 1
        /\ (\A i \in 1 .. Len(e) : e[i][3] # 1) =>
              /\ Cardinality(Firsts(Y)) = Cardinality(Firsts(X))
              /\ Begins(fifo, matched, Y) = Begins(fifo, matched, X)
        /\ (\E i \in 1 .. Len(e) : e[i][3] = 1) => sent + 1 \in Firsts(Y)
    <3>1. GrowsBy(fifo, matched, line, e, sent)
      BY <1>1, <1>7, GrownBy
    <3> QED BY <1>7, <3>1 DEF GrowsBy
  <2> HIDE DEF X, Y
  <2> QED BY <1>6, <2>1, OneOf
<1> HIDE DEF X, Y
<1>8. ASSUME Room', faults' = faults, failed' = failed,
             ~session => Paid' \/ Unpaid'
      PROVE  Recovers'
  <2>1. failed' <= Recovery /\ (session' => failed' = 0) /\ awaited' # "nothing"
    BY <1>1, <1>4, <1>8
  <2>2. ~session' => IF awaited' # "nothing" THEN Paid' \/ Unpaid' \/ Own' ELSE Rested'
    BY <1>1, <1>8, <2>1
  <2> QED BY <1>8, <2>1, <2>2, NextRecovers
(* The line is free.                                                       *)
<1>9. CASE sending = <<>> /\ line' = line \o all /\ UNCHANGED <<sending, faults, failed>>
  <2>1. /\ Piece(all, sent + 1) /\ Len(all) = FrameLen
        /\ \A i \in 1 .. FrameLen : all[i] = <<sent + 1, c, i>>
    <3>1. sent + 1 \in Nat \ {0}
      BY <1>1
    <3> QED BY <3>1, RequestIsPiece
  <2> HIDE DEF all
  <2>2. \E i \in 1 .. Len(all) : all[i][3] = 1
    <3>1. 1 \in 1 .. FrameLen
      BY DEF FrameLen
    <3> QED BY <2>1, <3>1
  <2>3. /\ Cardinality(OnLine') <= Cardinality(OnLine) + 1 /\ Left' <= Left + 1 /\ Fresh' = 1
    BY <1>7, <1>9, <2>1, <2>2
  <2>4. Answers = 0 /\ Answers' = 0
    <3>1. Len(sending) = 0
      BY <1>9
    <3> QED BY <1>5, <1>9, <3>1
  <2>5. Room'
    <3>1. Cardinality(OnLine') <= faults' + Fresh'
      BY <1>2, <1>3, <1>4, <1>9, <2>3
    <3>2. Holding(Left', Answers', faults', Fresh')
      <4>1. Fresh' \in Nat /\ Fresh' >= 1 /\ Answers' <= Answers /\ faults <= faults'
        BY <1>2, <1>9, <2>3, <2>4
      <4> QED BY <1>2, <1>3, <1>13, <2>3, <2>4, <4>1, HoldingAfter
    <3> QED BY <3>1, <3>2, NextSums
  <2>6. ASSUME ~session PROVE Paid' \/ Unpaid'
    <3>1. PICK s \in 0 .. MostShort :
             Short(fifo, line, matched, s) /\ Spares(failed, s, Left, Answers)
      BY <1>4, <2>6, SumsOf
    <3>2. s \in Nat /\ Spares(failed, s, Left, 0)
      BY <2>4, <3>1, RecoveryOf
    <3>3. /\ line \in Seq(ByteOf(sent + 1)) /\ fifo \in Seq(ByteOf(sent + 1))
          /\ all \in Seq(ByteOf(sent + 1))
      <4>1. ByteOf(sent) \subseteq ByteOf(sent + 1)
        <5>1. 1 .. sent \subseteq 1 .. sent + 1
          BY <1>1
        <5> QED BY <5>1 DEF ByteOf
      <4> QED BY <1>1, <2>1, <4>1, SeqMonotonic DEF Piece
    <3>4. /\ Complete(fifo, line \o all, All(fifo, line) + 1, sent + 1, c)
          /\ Pending(fifo, line \o all, matched, sent + 1, c)
          /\ \A i \in 1 .. Len(all) : all[i][3] = 1 => i = 1
      <4>1. Joins(fifo, line, matched, all, sent + 1, c)
        BY <2>1, <3>3, GrownComplete
      <4> QED BY <4>1, Zenon DEF Joins
    <3>5. \A i \in 1 .. Len(all) : all[i][3] = 1 =>
             \E n \in Nat, d \in Commands : Complete(fifo, line \o all, All(fifo, line) + i, n, d)
      <4>1. sent + 1 \in Nat
        BY <1>1
      <4> QED BY <3>4, <4>1
    <3>6. ASSUME NEW t \in 0 .. MostShort, 6 + 6 * t >= 6 * s
          PROVE  Short(fifo', line', matched', t)
      <4>1. Len(all) + FrameLen * t >= FrameLen * s /\ t \in Nat
        BY <2>1, <3>6, RecoveryOf DEF FrameLen
      <4>2. Short(fifo, line \o all, matched, t)
        BY <3>1, <3>2, <3>3, <3>5, <4>1, GrownShort
      <4> QED BY <1>1, <1>9, <4>2
    <3>7. CASE s >= 1
      <4>1. s - 1 \in 0 .. MostShort /\ 6 + 6 * (s - 1) >= 6 * s
        BY <3>2, <3>7, RecoveryOf
      <4>2. Short(fifo', line', matched', s - 1)
        BY <3>6, <4>1
      <4>3. Pays(failed', s - 1, Left', Answers')
        BY <1>2, <1>3, <1>9, <2>3, <2>4, <3>2, <3>7, SparesOne
      <4> QED BY <4>1, <4>2, <4>3, PaidNext
    <3>8. CASE s = 0
      <4>1. Short(fifo', line', matched', 0)
        <5>1. 0 \in 0 .. MostShort /\ 6 + 6 * 0 >= 6 * s
          BY <3>8, RecoveryOf
        <5> QED BY <3>6, <5>1
      <4>2. Pending(fifo', line', matched', sent', awaited')
        BY <1>1, <1>9, <3>4
      <4>3. Owes(failed', Left', Answers')
        BY <1>2, <1>3, <1>9, <2>3, <2>4, <3>2, <3>8, SparesOne
      <4>4. line' # <<>>
        <5>1. Len(line \o all) = Len(line) + Len(all) /\ Len(line) \in Nat /\ Len(all) = 6
          BY <2>1, <3>3, Joined, LenProperties DEF FrameLen
        <5>2. Len(line') # 0
          BY <1>9, <5>1
        <5> QED BY <5>2
      <4> QED BY <4>1, <4>2, <4>3, <4>4, UnpaidNext
    <3> QED BY <3>2, <3>7, <3>8
  <2> QED BY <1>8, <1>9, <2>5, <2>6
(* The board sends.                                                        *)
<1>10. ASSUME sending # <<>>, NEW j \in {4, FrameLen + 1},
              line' = line \o SubSeq(all, j, FrameLen),
              sending' \in {sending, Tail(sending)}, UNCHANGED <<faults, failed>>
       PROVE  Recovers'
  <2> DEFINE e == SubSeq(all, j, FrameLen)
  <2>1. sent + 1 \in Nat \ {0} /\ j \in 1 .. FrameLen + 1 /\ j >= 4 /\ j \in Nat /\ FrameLen = 6
    BY <1>1 DEF FrameLen
  <2>2. Piece(e, sent + 1)
    BY <2>1, EndIsPiece
  <2>3. \A i \in 1 .. Len(e) : e[i][3] # 1
    <3>1. /\ all \in Seq(ByteOf(sent + 1)) /\ Len(all) = FrameLen
          /\ \A i \in 1 .. FrameLen : all[i] = <<sent + 1, c, i>>
      BY <2>1, RequestIsPiece DEF Piece
    <3> HIDE DEF all
    <3>2. /\ e \in Seq(ByteOf(sent + 1)) /\ Len(e) \in Nat
          /\ \A k \in 1 .. Len(e) : j + k - 1 \in 1 .. FrameLen /\ e[k] = all[j + k - 1]
      <4>1. e = SubSeq(all, j, Len(all)) /\ j \in 1 .. Len(all) + 1
        BY <2>1, <3>1
      <4> QED BY <3>1, <4>1, LastPart, LenProperties
    <3> HIDE DEF e
    <3> SUFFICES ASSUME NEW i \in 1 .. Len(e) PROVE e[i][3] # 1
      OBVIOUS
    <3>3. PICK k \in 1 .. FrameLen : k = j + i - 1
      BY <3>2, Zenon
    <3>4. e[i] = <<sent + 1, c, k>>
      BY <3>1, <3>2, <3>3, Zenon
    <3>5. e[i][3] = k
      BY <3>4
    <3>6. i \in Nat \ {0}
      BY <3>2
    <3>7. k # 1
      BY <2>1, <3>3, <3>6
    <3> QED BY <3>5, <3>7
  <2>4. line' = line \o e
    BY <1>10
  <2> HIDE DEF e
  <2>5. Cardinality(OnLine') = Cardinality(OnLine) /\ Left' = Left
    BY <1>7, <2>2, <2>3, <2>4
  <2>6. Answers' <= Answers /\ Answers >= 1 /\ (Answers' = Answers \/ Answers' + 1 = Answers)
    <3>1. Len(sending) # 0
      BY <1>1, <1>10, EmptySeq
    <3>2. Len(Tail(sending)) = Len(sending) - 1
      BY <1>1, <1>10, HeadTailProperties
    <3>3. sending' = sending \/ sending' = Tail(sending)
      BY <1>10
    <3> QED BY <1>2, <1>3, <1>5, <3>1, <3>2, <3>3
  <2>7. Room'
    <3>1. Cardinality(OnLine') <= faults' + Fresh'
      BY <1>2, <1>3, <1>4, <1>10, <2>5
    <3>2. Holding(Left', Answers', faults', Fresh')
      <4>1. Fresh' \in Nat /\ faults <= faults' /\ Left' <= Left + 1 /\ Left' <= Left
        BY <1>2, <1>3, <1>10, <2>5
      <4> QED BY <1>2, <1>3, <1>13, <2>6, <4>1, HoldingAfter
    <3> QED BY <3>1, <3>2, NextSums
  <2>8. ASSUME ~session PROVE Paid'
    <3>1. PICK s \in 0 .. MostShort :
             Short(fifo, line, matched, s) /\ Spares(failed, s, Left, Answers)
      BY <1>4, <2>8, SumsOf
    <3>2. s \in Nat
      BY <3>1, RecoveryOf
    <3>3. Short(fifo', line', matched', s)
      <4>1. /\ line \in Seq(ByteOf(sent + 1)) /\ fifo \in Seq(ByteOf(sent + 1))
            /\ e \in Seq(ByteOf(sent + 1))
        <5>1. ByteOf(sent) \subseteq ByteOf(sent + 1)
          <6>1. 1 .. sent \subseteq 1 .. sent + 1
            BY <1>1
          <6> QED BY <6>1 DEF ByteOf
        <5> QED BY <1>1, <2>2, <5>1, SeqMonotonic DEF Piece
      <4>2. Len(e) + FrameLen * s >= FrameLen * s
        <5>1. Len(e) \in Nat
          BY <4>1, LenProperties
        <5> QED BY <2>1, <3>2, <5>1
      <4>3. \A i \in 1 .. Len(e) : e[i][3] = 1 =>
             \E n \in Nat, d \in Commands : Complete(fifo, line \o e, All(fifo, line) + i, n, d)
        BY <2>3
      <4>4. Short(fifo, line \o e, matched, s)
        BY <3>1, <3>2, <4>1, <4>2, <4>3, GrownShort
      <4> QED BY <1>1, <2>4, <4>4
    <3>4. Pays(failed', s, Left', Answers')
      BY <1>2, <1>3, <1>10, <2>5, <2>6, <3>1, <3>2, SparesPays
    <3> QED BY <3>3, <3>4, PaidNext
  <2> QED BY <1>8, <1>10, <2>7, <2>8
(* The line loses a part of it.                                            *)
<1>11. ASSUME sending = <<>>, faults' = faults + 1, failed' = 0, UNCHANGED sending,
              NEW left \in Remains, line' = line \o [k \in DOMAIN left |-> all[left[k]]]
       PROVE  Recovers'
  <2> DEFINE e == [k \in DOMAIN left |-> all[left[k]]]
  <2>1. Piece(e, sent + 1)
    <3>1. sent + 1 \in Nat \ {0}
      BY <1>1
    <3> QED BY <3>1, RemainsArePiece
  <2>2. line' = line \o e
    BY <1>11
  <2> HIDE DEF e
  <2>3. Cardinality(OnLine') <= Cardinality(OnLine) + 1 /\ Left' <= Left + 1
    BY <1>7, <2>1, <2>2
  <2>4. Answers' = Answers
    BY <1>5, <1>11
  <2>5. Room'
    <3>1. Cardinality(OnLine') <= faults' + Fresh'
      BY <1>2, <1>3, <1>4, <1>11, <2>3
    <3>2. Holding(Left', Answers', faults', Fresh')
      <4>1. Fresh' \in Nat /\ faults <= faults' /\ faults' >= faults + 1 /\ Answers' <= Answers
        BY <1>2, <1>3, <1>11, <2>4
      <4> QED BY <1>2, <1>3, <1>13, <2>3, <4>1, HoldingAfter
    <3> QED BY <3>1, <3>2, NextSums
  <2> QED BY <1>11, <2>5, NextRecap
<1>12. \/ sending = <<>> /\ line' = line \o all /\ UNCHANGED <<sending, faults, failed>>
       \/ /\ sending # <<>>
          /\ \E j \in {4, FrameLen + 1} : line' = line \o SubSeq(all, j, FrameLen)
          /\ sending' \in {sending, Tail(sending)}
          /\ UNCHANGED <<faults, failed>>
       \/ /\ sending = <<>> /\ faults' = faults + 1
          /\ \E left \in Remains : line' = line \o [k \in DOMAIN left |-> all[left[k]]]
          /\ failed' = 0 /\ UNCHANGED sending
  BY <1>1 DEF Ask
<1> HIDE DEF all
<1> QED BY <1>9, <1>10, <1>11, <1>12

-----------------------------------------------------------------------------
(* The steps of the host and of the line.                                  *)
LEMMA HoldingStill ==
    ASSUME NEW l \in Nat, NEW a \in Nat, NEW f \in Nat, NEW r \in Nat, Holding(l, a, f, r),
           NEW b \in Nat, NEW g \in Nat, NEW t \in Nat,
           b <= a, f <= g, r <= t \/ (f + 1 <= g /\ r <= t + 1)
    PROVE  Holding(l, b, g, t)
BY RecoveryOf DEF Holding

(* The request that failed was accounted for.                              *)
LEMMA PaysSpares ==
    ASSUME NEW k \in Nat, NEW s \in Nat, NEW l \in Nat, NEW a \in Nat, Pays(k, s, l, a),
           NEW b \in Nat, b + 1 <= a \/ (a = 0 /\ b = 0)
    PROVE  Spares(k + 1, s, l, b)
<1>1. k + (3 * s + 2 * l + a) + 1 <= Recovery + One(a >= 1)
  BY DEF Pays
<1>2. CASE a >= 1
  <2>1. One(a >= 1) = 1
    BY <1>2 DEF One
  <2>2. k + (3 * s + 2 * l + a) + 1 <= Recovery + 1
    BY <1>1, <2>1
  <2>3. k + 1 + (3 * s + 2 * l + b) <= Recovery
    BY <1>2, <2>2, RecoveryOf
  <2> QED BY <2>3 DEF Spares
<1>3. CASE ~(a >= 1)
  <2>1. One(a >= 1) = 0
    BY <1>3 DEF One
  <2>2. k + (3 * s + 2 * l + a) + 1 <= Recovery + 0
    BY <1>1, <2>1
  <2>3. k + 1 + (3 * s + 2 * l + b) <= Recovery
    BY <1>3, <2>2, RecoveryOf
  <2> QED BY <2>3 DEF Spares
<1> QED BY <1>2, <1>3

(* An answer fewer costs less.                                             *)
LEMMA SparesFewer ==
    ASSUME NEW k \in Nat, NEW s \in Nat, NEW l \in Nat, NEW a \in Nat, Spares(k, s, l, a),
           NEW b \in Nat, b <= a
    PROVE  Spares(k, s, l, b)
BY RecoveryOf DEF Spares

(* Paid and Unpaid in these terms.                                         *)
LEMMA PaidOf ==
    /\ Paid <=> \E s \in 0 .. MostShort :
         Short(fifo, line, matched, s) /\ Pays(failed, s, Left, Answers)
    /\ Unpaid <=> /\ Short(fifo, line, matched, 0) /\ line # <<>>
                  /\ Pending(fifo, line, matched, sent, awaited)
                  /\ Owes(failed, Left, Answers)
BY DEF Paid, Pays, Unpaid, Owes, Cost

(* The bytes stay where they are.                                          *)
LEMMA SameBytes ==
    ASSUME CommandInv, CommandInv', UNCHANGED <<line, fifo, matched, sent>>
    PROVE  /\ Left' = Left /\ OnLine' = OnLine
           /\ awaited' = awaited => Fresh' = Fresh
           /\ Left \in Nat /\ Answers \in Nat /\ Fresh \in {0, 1} /\ Cardinality(OnLine) \in Nat
           /\ faults \in Nat /\ failed \in Nat /\ Len(sending) \in Nat /\ Len(arrived) \in Nat
           /\ Answers' \in Nat /\ Fresh' \in {0, 1} /\ faults' \in Nat /\ failed' \in Nat
           /\ Len(sending') \in Nat /\ Len(arrived') \in Nat
<1>1. Left' = Left /\ OnLine' = OnLine
  BY NextCounts
<1>2. Amounts /\ Amounts'
  BY AmountsOf, NextAmounts
<1>3. awaited' = awaited => Fresh' = Fresh
  <2> SUFFICES ASSUME awaited' = awaited PROVE Fresh' = Fresh
    OBVIOUS
  <2> DEFINE p == awaited # "nothing" /\ sent \in OnLine
  <2>1. Fresh = One(p) /\ OnLine' = OnLine
    BY <1>1, NextCounts
  <2>2. Fresh' = One(awaited' # "nothing" /\ sent' \in OnLine')
    BY NextCounts
  <2>3. (awaited' # "nothing" /\ sent' \in OnLine') <=> p
    BY <2>1
  <2> HIDE DEF p
  <2>4. Fresh' = One(p)
    BY <2>2, <2>3 DEF One
  <2> QED BY <2>1, <2>4
<1> QED BY <1>1, <1>2, <1>3 DEF Amounts

(* Nothing is on the line.                                                 *)
LEMMA EmptyLine ==
    ASSUME CommandInv, line = <<>>
    PROVE  OnLine = {} /\ Fresh = 0 /\ Cardinality(OnLine) = 0
<1>1. Len(line) = 0
  OBVIOUS
<1>2. Elements(line) = {}
  <2>1. DOMAIN <<>> = {}
    OBVIOUS
  <2>2. Elements(<<>>) = {}
    BY <2>1 DEF Elements
  <2> QED BY <2>2
<1>3. OnLine = {}
  BY <1>2 DEF OnLine, Firsts
<1>4. Cardinality(OnLine) = 0
  BY <1>3, FS_EmptySet
<1>5. Fresh = 0
  BY <1>3 DEF Fresh, One
<1> QED BY <1>3, <1>4, <1>5

(* Pieces of Recovers.                                                     *)
LEMMA RecoversOf ==
    ASSUME Recovers
    PROVE  /\ Cardinality(OnLine) <= faults + Fresh /\ Holding(Left, Answers, faults, Fresh)
           /\ failed <= Recovery /\ (session => failed = 0)
           /\ ~session /\ awaited # "nothing" => Paid \/ Unpaid \/ Own
           /\ ~session /\ awaited = "nothing" => Rested
<1>1. Room /\ failed <= Recovery /\ (session => failed = 0) /\ (~session => Comes)
  BY DEF Recovers, Limits
<1>2. Cardinality(OnLine) <= faults + Fresh /\ Holding(Left, Answers, faults, Fresh)
  BY <1>1, SumsOf
<1>3. /\ ~session /\ awaited # "nothing" => Paid \/ Unpaid \/ Own
      /\ ~session /\ awaited = "nothing" => Rested
  BY <1>1 DEF Comes, Open
<1> QED BY <1>1, <1>2, <1>3

(* Without a byte there is no beginning more.                              *)
LEMMA RoomStays ==
    ASSUME CommandInv, CommandInv', Recovers, UNCHANGED <<line, fifo, matched, sent>>,
           Answers' <= Answers,
           /\ faults' = faults /\ Fresh' = Fresh
           \/ faults' = faults + 1
    PROVE  Room'
<1>1. /\ Left' = Left /\ OnLine' = OnLine
      /\ Left \in Nat /\ Answers \in Nat /\ Fresh \in {0, 1} /\ Cardinality(OnLine) \in Nat
      /\ faults \in Nat /\ Answers' \in Nat /\ Fresh' \in {0, 1} /\ faults' \in Nat
  BY SameBytes
<1>2. Cardinality(OnLine) <= faults + Fresh /\ Holding(Left, Answers, faults, Fresh)
  BY RecoversOf
<1>3. Cardinality(OnLine') <= faults' + Fresh'
  BY <1>1, <1>2
<1>4. faults <= faults' /\ (Fresh <= Fresh' \/ (faults + 1 <= faults' /\ Fresh <= Fresh' + 1))
  <2>1. CASE faults' = faults /\ Fresh' = Fresh
    BY <1>1, <2>1
  <2>2. CASE faults' = faults + 1
    <3>1. Fresh <= Fresh' + 1
      <4>1. \A a, b \in {0, 1} : a <= b + 1
        OBVIOUS
      <4> QED BY <1>1, <4>1
    <3>2. faults <= faults' /\ faults + 1 <= faults'
      BY <1>1, <2>2
    <3> QED BY <3>1, <3>2
  <2> QED BY <2>1, <2>2
<1>5. Holding(Left, Answers', faults', Fresh')
  <2>1. Fresh \in Nat /\ Fresh' \in Nat
    BY <1>1
  <2> QED BY <1>1, <1>2, <1>4, <2>1, HoldingStill
<1> QED BY <1>1, <1>3, <1>5, NextSums

(* The session ends with nothing counted.                                  *)
LEMMA SessionEndsRecovers == CommandInv /\ CommandInv' /\ Recovers /\ SessionEnds => Recovers'
<1> SUFFICES ASSUME CommandInv, CommandInv', Recovers, SessionEnds PROVE Recovers'
  OBVIOUS
<1>1. /\ UNCHANGED <<line, fifo, matched, sent, awaited, sending, arrived, faults, failed>>
      /\ session
  BY DEF SessionEnds, parser, host
<1>2. failed' = 0
  BY <1>1, RecoversOf
<1>3. Answers' = Answers /\ Fresh' = Fresh /\ Answers' <= Answers
  <2>1. Answers' = Answers
    BY <1>1, NextCounts
  <2> QED BY <1>1, <2>1, SameBytes
<1>4. Room'
  BY <1>1, <1>3, RoomStays
<1> QED BY <1>2, <1>4, NextRecap

(* Nothing happens.                                                        *)
LEMMA StutterRecovers == CommandInv /\ Recovers /\ UNCHANGED commandVars => Recovers'
BY DEF commandVars, device, host, parser, Recovers, Limits, Room, Comes, Open, Rested, Paid,
       Unpaid, Own, Cost, OnLine, Left, Fresh, Answers

(* An answer is sent, lost, or sent twice.                                 *)
LEMMA TransmitRecovers == CommandInv /\ CommandInv' /\ Recovers /\ Transmit => Recovers'
<1> SUFFICES ASSUME CommandInv, CommandInv', Recovers, Transmit PROVE Recovers'
  OBVIOUS
<1>1. /\ UNCHANGED <<line, fifo, matched, sent, awaited, session>>
      /\ sending # <<>> /\ sending' = Tail(sending)
      /\ sending \in Seq(FrameOf(sent)) /\ arrived \in Seq(FrameOf(sent))
      /\ session \in BOOLEAN
  BY DEF Transmit, parser, CommandInv
<1>2. /\ Left' = Left /\ OnLine' = OnLine /\ Fresh' = Fresh
      /\ Left \in Nat /\ Answers \in Nat /\ Fresh \in {0, 1} /\ Cardinality(OnLine) \in Nat
      /\ faults \in Nat /\ failed \in Nat /\ Len(sending) \in Nat /\ Len(arrived) \in Nat
      /\ Answers' \in Nat /\ faults' \in Nat /\ failed' \in Nat
      /\ Len(sending') \in Nat /\ Len(arrived') \in Nat
  BY <1>1, SameBytes
<1>3. Len(sending') + 1 = Len(sending) /\ sending[1] = Head(sending)
  <2>1. Len(sending') = Len(sending) - 1 /\ sending[1] = Head(sending)
    BY <1>1, HeadTailProperties
  <2> QED BY <1>2, <2>1
<1>4. CASE arrived' = Append(arrived, Head(sending)) /\ UNCHANGED <<faults, failed>>
  <2>1. Head(sending) \in FrameOf(sent)
    BY <1>1, HeadTailProperties
  <2>2. Len(arrived') = Len(arrived) + 1
    BY <1>1, <1>4, <2>1, AppendProperties
  <2>3. /\ awaited # "nothing" => Answers' = Answers
        /\ awaited = "nothing" => Answers' + 1 = Answers
    <3>1. CASE awaited # "nothing"
      <4>1. Answers = Len(sending) + Len(arrived) /\ Answers' = Len(sending') + Len(arrived')
        BY <1>1, <3>1, NextCounts
      <4> QED BY <1>2, <1>3, <2>2, <3>1, <4>1
    <3>2. CASE awaited = "nothing"
      <4>1. Answers = Len(sending) + 0 /\ Answers' = Len(sending') + 0
        BY <1>1, <3>2, NextCounts
      <4> QED BY <1>2, <1>3, <3>2, <4>1
    <3> QED BY <3>1, <3>2
  <2>4. Answers' <= Answers
    <3>1. CASE Answers' = Answers
      BY <1>2, <3>1
    <3>2. CASE Answers' + 1 = Answers
      <4>1. \A a, b \in Nat : b + 1 = a => b <= a
        OBVIOUS
      <4> QED BY <1>2, <3>2, <4>1
    <3> QED BY <2>3, <3>1, <3>2
  <2>5. Room'
    BY <1>1, <1>2, <1>4, <2>4, RoomStays
  <2>6. ASSUME ~session, awaited # "nothing" PROVE Paid' \/ Unpaid' \/ Own'
    <3>1. CASE Paid
      <4>1. PICK s \in 0 .. MostShort : Short(fifo, line, matched, s) /\ Pays(failed, s, Left, Answers)
        BY <3>1, PaidOf
      <4>2. Short(fifo', line', matched', s) /\ Pays(failed', s, Left', Answers')
        BY <1>1, <1>2, <1>4, <2>3, <2>6, <4>1
      <4> QED BY <4>2, PaidNext
    <3>2. CASE Unpaid
      <4>1. /\ Short(fifo', line', matched', 0) /\ line' # <<>>
            /\ Pending(fifo', line', matched', sent', awaited') /\ Owes(failed', Left', Answers')
        BY <1>1, <1>2, <1>4, <2>3, <2>6, <3>2, PaidOf
      <4> QED BY <4>1, UnpaidNext
    <3>3. CASE Own
      <4>1. CASE arrived # <<>> /\ arrived[1][1] = sent
        <5>1. 1 \in 1 .. Len(arrived)
          BY <1>1, <1>2, <4>1, EmptySeq
        <5>2. arrived'[1] = arrived[1]
          BY <1>1, <1>4, <2>1, <5>1, AppendProperties
        <5>3. Len(arrived') # 0
          BY <1>2, <2>2
        <5>4. arrived' # <<>>
          BY <5>3
        <5> QED BY <1>1, <4>1, <5>2, <5>4 DEF Own
      <4>2. CASE arrived = <<>> /\ sending[1][1] = sent
        <5>1. arrived' = <<Head(sending)>>
          BY <1>4, <4>2
        <5>2. arrived'[1] = sending[1] /\ arrived' # <<>>
          BY <1>3, <5>1
        <5> QED BY <1>1, <4>2, <5>2 DEF Own
      <4> QED BY <3>3, <4>1, <4>2 DEF Own
    <3> QED BY <2>6, <3>1, <3>2, <3>3, RecoversOf
  <2>7. ASSUME ~session, awaited = "nothing" PROVE Rested'
    <3>1. PICK s \in 0 .. MostShort : Short(fifo, line, matched, s) /\ Spares(failed, s, Left, Answers)
      BY <2>7, SumsOf, RecoversOf
    <3>2. s \in Nat
      BY RecoveryOf
    <3>3. Spares(failed', s, Left', Answers')
      BY <1>2, <1>4, <2>4, <3>1, <3>2, SparesFewer
    <3>4. Short(fifo', line', matched', s)
      BY <1>1, <3>1
    <3> QED BY <3>3, <3>4, RestedNext
  <2>8. failed' <= Recovery /\ (session' => failed' = 0)
    BY <1>1, <1>4, RecoversOf
  <2>9. ~session' => IF awaited' # "nothing" THEN Paid' \/ Unpaid' \/ Own' ELSE Rested'
    BY <1>1, <2>6, <2>7
  <2> QED BY <2>5, <2>8, <2>9, NextRecovers
<1>5. CASE faults' = faults + 1 /\ failed' = 0 /\ UNCHANGED arrived
  <2>1. Answers' <= Answers
    <3>1. CASE awaited # "nothing"
      <4>1. Answers = Len(sending) + Len(arrived) /\ Answers' = Len(sending') + Len(arrived)
        BY <1>1, <1>5, <3>1, NextCounts
      <4> QED BY <1>2, <1>3, <4>1
    <3>2. CASE awaited = "nothing"
      <4>1. Answers = Len(sending) + 0 /\ Answers' = Len(sending') + 0
        BY <1>1, <3>2, NextCounts
      <4> QED BY <1>2, <1>3, <4>1
    <3> QED BY <3>1, <3>2
  <2>2. Room'
    BY <1>1, <1>5, <2>1, RoomStays
  <2> QED BY <1>5, <2>2, NextRecap
<1> QED BY <1>4, <1>5 DEF Transmit

-----------------------------------------------------------------------------
(* A request ends without its own answer.                                  *)
LEMMA EndedRecovers ==
    ASSUME CommandInv, CommandInv', Recovers, UNCHANGED <<line, fifo, matched, sent, session>>,
           line = <<>>, ~session, ~Own, awaited # "nothing", awaited' = "nothing",
           failed' = failed + 1, faults' = faults,
           Answers' + 1 <= Answers \/ (Answers = 0 /\ Answers' = 0), Answers' <= Answers
    PROVE  Recovers'
<1>1. /\ Left' = Left /\ OnLine' = OnLine
      /\ Left \in Nat /\ Answers \in Nat /\ Fresh \in {0, 1} /\ Cardinality(OnLine) \in Nat
      /\ faults \in Nat /\ failed \in Nat
      /\ Answers' \in Nat /\ Fresh' \in {0, 1} /\ faults' \in Nat /\ failed' \in Nat
  BY SameBytes
<1>2. Fresh = 0 /\ Fresh' = 0
  <2>1. Fresh' = One(awaited' # "nothing" /\ sent' \in OnLine')
    BY NextCounts
  <2> QED BY <2>1, EmptyLine DEF One
<1>3. Room'
  BY <1>2, RoomStays
<1>4. Paid
  BY RecoversOf DEF Unpaid
<1>5. PICK s \in 0 .. MostShort : Short(fifo, line, matched, s) /\ Pays(failed, s, Left, Answers)
  BY <1>4, PaidOf
<1>6. s \in Nat
  BY RecoveryOf
<1>7. Spares(failed', s, Left', Answers')
  BY <1>1, <1>5, <1>6, PaysSpares
<1>8. Short(fifo', line', matched', s)
  BY <1>5
<1>9. Rested'
  BY <1>7, <1>8, RestedNext
<1>10. failed' <= Recovery
  <2>1. failed' + (3 * s + 2 * Left' + Answers') <= Recovery
    BY <1>7 DEF Spares
  <2>2. \A k, n, l, a \in Nat : k + (3 * n + 2 * l + a) <= Recovery => k <= Recovery
    BY RecoveryOf
  <2> QED BY <1>1, <1>6, <2>1, <2>2
<1> QED BY <1>3, <1>9, <1>10, NextRecovers

(* The host gives up.                                                      *)
LEMMA GiveUpRecovers == CommandInv /\ CommandInv' /\ Recovers /\ GiveUp => Recovers'
<1> SUFFICES ASSUME CommandInv, CommandInv', Recovers, GiveUp PROVE Recovers'
  OBVIOUS
<1>1. /\ UNCHANGED <<line, fifo, matched, session, sending, sent, arrived>>
      /\ awaited # "nothing" /\ awaited' = "nothing" /\ arrived = <<>>
      /\ session \in BOOLEAN
  BY DEF GiveUp, device, parser, CommandInv
<1>2. /\ Left' = Left /\ OnLine' = OnLine
      /\ Answers \in Nat /\ Answers' \in Nat /\ Fresh \in {0, 1} /\ Fresh' \in {0, 1}
      /\ Len(sending) \in Nat /\ faults \in Nat
  BY <1>1, SameBytes
<1>3. Answers = Len(sending) /\ Answers' = Len(sending)
  <2>1. Len(arrived) = 0
    BY <1>1
  <2>2. Answers = Len(sending) + 0 /\ Answers' = Len(sending) + 0
    BY <1>1, <2>1, NextCounts
  <2> QED BY <1>2, <2>2
<1>4. Answers' <= Answers
  BY <1>2, <1>3
<1>5. CASE line = <<>> /\ sending = <<>> /\ Ended(FALSE) /\ UNCHANGED faults
  <2>1. Fresh' = 0 /\ Fresh = 0
    <3>1. Fresh' = One(awaited' # "nothing" /\ sent' \in OnLine')
      BY NextCounts
    <3> QED BY <1>1, <1>5, <3>1, EmptyLine DEF One
  <2>2. CASE session
    <3>1. failed' = 0
      BY <1>5, <2>2 DEF Ended
    <3>2. Room'
      BY <1>1, <1>4, <1>5, <2>1, RoomStays
    <3> QED BY <3>1, <3>2, NextRecap
  <2>3. CASE ~session
    <3>1. failed' = failed + 1
      BY <1>5, <2>3 DEF Ended
    <3>2. Answers = 0 /\ Answers' = 0
      <4>1. Len(sending) = 0
        BY <1>5
      <4> QED BY <1>3, <4>1
    <3>3. ~Own
      BY <1>1, <1>5 DEF Own
    <3> QED BY <1>1, <1>4, <1>5, <2>3, <3>1, <3>2, <3>3, EndedRecovers
  <2> QED BY <2>2, <2>3
<1>6. CASE faults' = faults + 1 /\ failed' = 0
  <2>1. Room'
    BY <1>1, <1>4, <1>6, RoomStays
  <2> QED BY <1>6, <2>1, NextRecap
<1> QED BY <1>5, <1>6 DEF GiveUp

(* The host reads an answer.                                               *)
LEMMA ReadRecovers == CommandInv /\ CommandInv' /\ Recovers /\ Read => Recovers'
<1> SUFFICES ASSUME CommandInv, CommandInv', Recovers, Read PROVE Recovers'
  OBVIOUS
<1>1. /\ UNCHANGED <<line, fifo, matched, session, sending, sent, faults>>
      /\ awaited # "nothing" /\ awaited' = "nothing" /\ arrived # <<>> /\ line = <<>>
      /\ session \in BOOLEAN /\ arrived \in Seq(FrameOf(sent))
      /\ failed' = IF Head(arrived)[1] = sent \/ session THEN 0 ELSE failed + 1
  BY DEF Read, device, parser, CommandInv, Ended
<1>2. /\ Left' = Left /\ OnLine' = OnLine
      /\ Answers \in Nat /\ Answers' \in Nat /\ Fresh \in {0, 1} /\ Fresh' \in {0, 1}
      /\ Len(sending) \in Nat /\ Len(arrived) \in Nat /\ faults \in Nat
  BY <1>1, SameBytes
<1>3. Answers' + 1 <= Answers /\ Answers' <= Answers
  <2>1. Len(arrived) # 0
    BY <1>1, EmptySeq
  <2>2. Answers = Len(sending) + Len(arrived) /\ Answers' = Len(sending) + 0
    BY <1>1, NextCounts
  <2>3. \A a, b \in Nat : b # 0 => (a + 0) + 1 <= a + b /\ a + 0 <= a + b
    OBVIOUS
  <2>4. /\ (Len(sending) + 0) + 1 <= Len(sending) + Len(arrived)
        /\ Len(sending) + 0 <= Len(sending) + Len(arrived)
    BY <1>2, <2>1, <2>3
  <2> QED BY <2>2, <2>4
<1>4. Fresh' = 0 /\ Fresh = 0
  <2>1. Fresh' = One(awaited' # "nothing" /\ sent' \in OnLine')
    BY NextCounts
  <2> QED BY <1>1, <2>1, EmptyLine DEF One
<1>5. Room'
  BY <1>1, <1>3, <1>4, RoomStays
<1>6. CASE Head(arrived)[1] = sent \/ session
  <2>1. failed' = 0
    BY <1>1, <1>6
  <2> QED BY <1>5, <2>1, NextRecap
<1>7. CASE ~(Head(arrived)[1] = sent) /\ ~session
  <2>1. failed' = failed + 1
    BY <1>1, <1>7
  <2>2. ~Own
    <3>1. Head(arrived) = arrived[1]
      BY <1>1
    <3> QED BY <1>1, <1>7, <3>1 DEF Own
  <2> QED BY <1>1, <1>3, <1>7, <2>1, <2>2, EndedRecovers
<1> QED BY <1>6, <1>7

(* Nothing is left behind at the start.                                    *)
LEMMA InitRecovers == CommandInit => Recovers
<1> SUFFICES ASSUME CommandInit PROVE Recovers
  OBVIOUS
<1>1. /\ CommandInv /\ line = <<>> /\ fifo = <<>> /\ matched = FALSE /\ sending = <<>>
      /\ awaited = "nothing" /\ failed = 0 /\ faults = 0
  BY CommandInitInv DEF CommandInit
<1>2. Elements(<<>>) = {}
  <2>1. DOMAIN <<>> = {}
    OBVIOUS
  <2> QED BY <2>1 DEF Elements
<1>3. Firsts({} \cup {}) = {} /\ Firsts({}) = {}
  BY DEF Firsts
<1>4. Left = 0
  <2>1. Left = Cardinality(Firsts({} \cup {})) + One(FALSE)
    BY <1>1, <1>2 DEF Left, Begins
  <2>2. Cardinality({}) = 0 /\ One(FALSE) = 0
    BY FS_EmptySet DEF One
  <2>3. Cardinality(Firsts({} \cup {})) = 0
    BY <1>3, <2>2
  <2>4. Left = 0 + 0
    BY <2>1, <2>2, <2>3
  <2> QED BY <2>4
<1>5. Answers = 0
  <2>1. Len(sending) = 0
    BY <1>1
  <2>2. Answers = Len(sending) + 0
    BY <1>1, NextCounts
  <2> QED BY <2>1, <2>2
<1>6. Cardinality(OnLine) = 0 /\ Fresh = 0
  BY <1>1, EmptyLine
<1>7. Room
  <2>1. 0 <= 0 + 0 /\ Holding(0, 0, 0, 0)
    <3>1. \A n \in Nat : 0 <= n + 0 + 0 /\ 0 + 0 <= n + 0 + 1
      OBVIOUS
    <3> QED BY <3>1, RecoveryOf DEF Holding
  <2>2. Holding(Left, Answers, faults, Fresh)
    BY <1>1, <1>4, <1>5, <1>6, <2>1
  <2>3. Cardinality(OnLine) <= faults + Fresh
    BY <1>1, <1>6, <2>1
  <2> QED BY <2>2, <2>3, SumsOf
<1> QED BY <1>1, <1>7, Recap DEF Recapped

-----------------------------------------------------------------------------
(* A feed in which j beginnings go and m frames come out.                  *)
Moved(l, a, j, m, q, b) == q + j <= l /\ m <= j /\ b = a + m

(* A frame that comes out costs one answer and ends one beginning, which   *)
(* is worth two.                                                           *)
LEMMA SparesFed ==
    ASSUME NEW k \in Nat, NEW s \in Nat, NEW l \in Nat, NEW a \in Nat, Spares(k, s, l, a),
           NEW j \in Nat, NEW m \in Nat, NEW q \in Nat, NEW b \in Nat, Moved(l, a, j, m, q, b)
    PROVE  Spares(k, s, q, b)
<1> USE DEF Moved
<1>1. k + (3 * s + 2 * l + a) <= Recovery
  BY DEF Spares
<1>2. k + (3 * s + 2 * q + (a + m)) <= Recovery
  BY <1>1, RecoveryOf
<1> QED BY <1>2 DEF Spares

(* Answers that come on top of others.                                     *)
LEMMA OneOfMore ==
    ASSUME NEW a \in Nat, NEW m \in Nat
    PROVE  /\ One(a >= 1) \in {0, 1} /\ One(a + m >= 1) \in {0, 1}
           /\ One(a >= 1) <= One(a + m >= 1) /\ One(a + m >= 1) <= One(a >= 1) + m
           /\ (m >= 1 => One(a + m >= 1) = 1) /\ (a >= 1 => One(a >= 1) = 1)
<1>1. CASE a >= 1
  <2>1. One(a >= 1) = 1 /\ One(a + m >= 1) = 1
    BY <1>1 DEF One
  <2> QED BY <2>1
<1>2. CASE ~(a >= 1) /\ m >= 1
  <2>1. One(a >= 1) = 0 /\ One(a + m >= 1) = 1
    BY <1>2 DEF One
  <2> QED BY <1>2, <2>1
<1>3. CASE ~(a >= 1) /\ ~(m >= 1)
  <2>1. One(a >= 1) = 0 /\ One(a + m >= 1) = 0
    BY <1>3 DEF One
  <2> QED BY <1>3, <2>1
<1> QED BY <1>1, <1>2, <1>3

(* The same with a request that is accounted for.                          *)
LEMMA PaysFed ==
    ASSUME NEW k \in Nat, NEW s \in Nat, NEW l \in Nat, NEW a \in Nat, Pays(k, s, l, a),
           NEW j \in Nat, NEW m \in Nat, NEW q \in Nat, NEW b \in Nat, Moved(l, a, j, m, q, b)
    PROVE  Pays(k, s, q, b)
<1> USE DEF Moved
<1>1. k + (3 * s + 2 * l + a) + 1 <= Recovery + One(a >= 1)
  BY DEF Pays
<1>2. PICK u \in {0, 1}, v \in {0, 1} : u = One(a >= 1) /\ v = One(a + m >= 1) /\ u <= v
  BY OneOfMore
<1>3. k + (3 * s + 2 * l + a) + 1 <= Recovery + u
  BY <1>1, <1>2
<1>4. k + (3 * s + 2 * q + (a + m)) + 1 <= Recovery + v
  BY <1>2, <1>3, RecoveryOf
<1>5. k + (3 * s + 2 * q + (a + m)) + 1 <= Recovery + One(a + m >= 1)
  BY <1>2, <1>4
<1> QED BY <1>5 DEF Pays

(* A request that is pending stays so, unless a beginning before it has    *)
(* been dealt with and pays for it.                                        *)
LEMMA OwesFed ==
    ASSUME NEW k \in Nat, NEW l \in Nat, NEW a \in Nat, Owes(k, l, a),
           NEW j \in Nat, NEW m \in Nat, NEW q \in Nat, NEW b \in Nat, Moved(l, a, j, m, q, b)
    PROVE  /\ Owes(k, q, b)
           /\ \/ j >= 2
              \/ m >= 1 /\ (a >= 1 \/ m >= 2)
              \/ j >= 1 /\ q + j + 1 <= l
              => Pays(k, 0, q, b)
<1> USE DEF Moved
<1>1. k + (3 * 0 + 2 * l + a) <= Recovery + 2 - One(a >= 1)
  BY DEF Owes
<1>2. PICK u \in {0, 1}, v \in {0, 1} :
        /\ u = One(a >= 1) /\ v = One(a + m >= 1) /\ u <= v /\ v <= u + m
        /\ (m >= 1 => v = 1) /\ (a >= 1 => u = 1)
  BY OneOfMore
<1>3. k + 2 * l + a <= Recovery + 2 - u
  BY <1>1, <1>2, RecoveryOf
<1>4. k + (3 * 0 + 2 * q + (a + m)) <= Recovery + 2 - v
  BY <1>2, <1>3, RecoveryOf
<1>5. ASSUME j >= 2 \/ (m >= 1 /\ (a >= 1 \/ m >= 2)) \/ (j >= 1 /\ q + j + 1 <= l)
      PROVE  k + (3 * 0 + 2 * q + (a + m)) + 1 <= Recovery + v
  <2>1. CASE j >= 2
    BY <1>2, <1>3, <2>1, RecoveryOf
  <2>2. CASE m >= 1 /\ (a >= 1 \/ m >= 2)
    BY <1>2, <1>3, <2>2, RecoveryOf
  <2>3. CASE j >= 1 /\ q + j + 1 <= l
    BY <1>2, <1>3, <2>3, RecoveryOf
  <2> QED BY <1>5, <2>1, <2>2, <2>3
<1>6. Owes(k, q, a + m)
  BY <1>2, <1>4 DEF Owes
<1>7. ASSUME j >= 2 \/ (m >= 1 /\ (a >= 1 \/ m >= 2)) \/ (j >= 1 /\ q + j + 1 <= l)
      PROVE  Pays(k, 0, q, a + m)
  BY <1>2, <1>5, <1>7 DEF Pays
<1> QED BY <1>6, <1>7

(* A feed leaves room.                                                     *)
LEMMA HoldingFed ==
    ASSUME NEW l \in Nat, NEW a \in Nat, NEW f \in Nat, NEW r \in {0, 1}, Holding(l, a, f, r),
           NEW j \in Nat, NEW m \in Nat, NEW q \in Nat, NEW b \in Nat, Moved(l, a, j, m, q, b),
           NEW t \in {0, 1},
           j >= 1 \/ q <= Longest + f + t \/ r <= t
    PROVE  Holding(q, b, f, t)
<1> USE DEF Moved
<1>1. l <= Longest + f + r /\ l + a <= Longest + f + 1
  BY DEF Holding
<1>2. q + (a + m) <= Longest + f + 1
  BY <1>1, RecoveryOf
<1>3. q <= Longest + f + t
  BY <1>1, RecoveryOf
<1> QED BY <1>2, <1>3 DEF Holding

(* So does one that deals with a beginning.                                *)
LEMMA HoldingGone ==
    ASSUME NEW l \in Nat, NEW a \in Nat, NEW f \in Nat, NEW r \in {0, 1}, Holding(l, a, f, r),
           NEW j \in Nat \ {0}, NEW m \in Nat, NEW q \in Nat, NEW b \in Nat, Moved(l, a, j, m, q, b),
           NEW t \in {0, 1}
    PROVE  Holding(q, b, f, t)
BY HoldingFed

-----------------------------------------------------------------------------
(* The board reads k bytes.                                                *)
LEMMA ReadSome ==
    ASSUME CommandInv, line # <<>>, NEW k \in {Min({r, Len(line)}) : r \in Reads}
    PROVE  k \in 0 .. Len(line) /\ Len(line) \in Nat
<1>1. Len(line) \in Nat
  BY LenProperties DEF CommandInv
<1>2. PICK r \in Reads : k = Min({r, Len(line)})
  OBVIOUS
<1>3. r \in Nat
  BY CommandAssumption
<1>4. k \in {r, Len(line)} /\ k <= Len(line)
  <2>1. \E x \in {r, Len(line)} : \A y \in {r, Len(line)} : x <= y
    BY <1>1, <1>3
  <2>2. k \in {r, Len(line)} /\ \A y \in {r, Len(line)} : k <= y
    BY <1>2, <2>1 DEF Min
  <2> QED BY <2>2
<1> QED BY <1>1, <1>3, <1>4

(* What is behind them on the line, and what the parser makes of them.     *)
Rest(k) == SubSeq(line, k + 1, Len(line))
FedTo(k, j, d, p, c) ==
    LET s == Fed(SubSeq(line, 1, k))
    IN  /\ s.fifo \in Seq(ByteOf(sent)) /\ s.matched \in BOOLEAN /\ s.out \in Seq(FrameOf(sent))
        /\ Follows(s, Rest(k), Left, j, d, p, c)
        /\ Stuck(s) \/ Idle(s) \/ j >= MaxParse
Ends(k, d, p, c) == \E j \in Nat : FedTo(k, j, d, p, c)

(* The bytes behind k are bytes of the line.                               *)
LEMMA RestOf ==
    ASSUME CommandInv, NEW k \in 0 .. Len(line)
    PROVE  /\ Rest(k) \in Seq(ByteOf(sent)) /\ Elements(Rest(k)) \subseteq Elements(line)
           /\ Elements(Rest(k)) \in SUBSET ByteOf(sent)
<1>1. /\ Len(line) \in Nat /\ k + 1 \in 1 .. Len(line) + 1 /\ line \in Seq(ByteOf(sent))
  BY LenProperties DEF CommandInv
<1>2. /\ Rest(k) \in Seq(ByteOf(sent))
      /\ \A i \in 1 .. Len(Rest(k)) : k + 1 + i - 1 \in 1 .. Len(line)
                                      /\ Rest(k)[i] = line[k + 1 + i - 1]
  BY <1>1, LastPart DEF Rest
<1>3. /\ Elements(Rest(k)) = {Rest(k)[i] : i \in 1 .. Len(Rest(k))}
      /\ Elements(Rest(k)) \subseteq ByteOf(sent)
  BY <1>2, ElementsOf
<1>4. \A i \in 1 .. Len(line) : line[i] \in Elements(line)
  BY <1>1, ElementsOf
<1> QED BY <1>2, <1>3, <1>4

(* A feed of k bytes ends so.                                              *)
LEMMA FeedEnds ==
    ASSUME CommandInv, NEW k \in 0 .. Len(line), NEW d \in Nat, Short(fifo, line, matched, d),
           NEW p \in BOOLEAN, NEW c, p => Pending(fifo, line, matched, sent, c)
    PROVE  Ends(k, d, p, c)
<1> DEFINE a == SubSeq(line, 1, k)
           b == Rest(k)
<1>1. /\ b \in Seq(ByteOf(sent)) /\ Elements(b) \in SUBSET ByteOf(sent)
  BY RestOf
<1>2. /\ sent \in Nat /\ fifo \in Seq(ByteOf(sent)) /\ line \in Seq(ByteOf(sent))
      /\ matched \in BOOLEAN /\ Left \in Nat
  BY AmountsOf DEF CommandInv, Amounts
<1>3. Keeps(Loaded(a), sent, Elements(done), Elements(b))
  BY <1>2, LoadedKeeps DEF CommandInv, Rest
<1>4. Follows(Loaded(a), b, Left, 0, d, p, c)
  BY LoadedFollows DEF Rest
<1> HIDE DEF a, b
<1>5. Keeps(Fed(a), sent, Elements(done), Elements(b))
  BY <1>1, <1>2, <1>3, FedKeeps
<1>6. \E j \in Nat : /\ Follows(Fed(a), b, Left, j, d, p, c)
                     /\ Stuck(Fed(a)) \/ Idle(Fed(a)) \/ j >= MaxParse
  BY <1>1, <1>2, <1>3, <1>4, FedFollows
<1>7. /\ Fed(a).fifo \in Seq(ByteOf(sent)) /\ Fed(a).matched \in BOOLEAN
      /\ Fed(a).out \in Seq(FrameOf(sent))
  BY <1>5 DEF Keeps, Parser
<1> QED BY <1>6, <1>7 DEF Ends, FedTo, a, b

(* No byte of a request that begins on the line is in the parser.          *)
LEMMA BehindFifo ==
    ASSUME CommandInv, NEW n \in OnLine
    PROVE  n \notin Firsts(Elements(fifo))
<1>1. PICK t \in Elements(line) : t[3] = 1 /\ t[1] = n
  BY DEF OnLine, Firsts
<1> SUFFICES ASSUME NEW e \in Elements(fifo), e[3] = 1, e[1] = n PROVE FALSE
  BY DEF Firsts
<1>2. Elements(fifo) = {fifo[i] : i \in 1 .. Len(fifo)} /\ fifo \in Seq(ByteOf(sent))
  BY ElementsOf DEF CommandInv
<1>3. PICK i \in 1 .. Len(fifo) : e = fifo[i]
  BY <1>2
<1>4. Before(e, t)
  BY <1>1, <1>3 DEF CommandInv, Orders
<1>5. e \in ByteOf(sent)
  BY <1>2, <1>3, ElementsOf
<1>6. e[1] \in Nat
  BY <1>5 DEF ByteOf
<1> QED BY <1>1, <1>4, <1>6 DEF Before

(* There is room when m answers have come of j beginnings that have gone.  *)
LEMMA RoomFed ==
    ASSUME CommandInv, CommandInv', Recovers, UNCHANGED <<sent, awaited, arrived, faults>>,
           NEW k \in 0 .. Len(line), line' = Rest(k), NEW j \in Nat, NEW m \in Nat,
           Moved(Left, Answers, j, m, Left', Answers'),
           j >= 1 \/ Left' <= Longest + Cardinality(OnLine')
             \/ (Fresh <= Fresh' \/ Left' + 1 <= Left)
    PROVE  Room'
<1>1. /\ Left \in Nat /\ Answers \in Nat /\ Fresh \in {0, 1} /\ faults \in Nat
      /\ Left' \in Nat /\ Answers' \in Nat /\ Fresh' \in {0, 1} /\ Cardinality(OnLine') \in Nat
  BY AmountsOf, NextAmounts DEF Amounts
<1>2. Cardinality(OnLine) <= faults + Fresh /\ Holding(Left, Answers, faults, Fresh)
  BY RecoversOf
<1>3. /\ Rest(k) \in Seq(ByteOf(sent)) /\ Elements(Rest(k)) \subseteq Elements(line)
  BY RestOf
<1>4. OnLine' = Firsts(Elements(Rest(k)))
  BY NextCounts
<1> DEFINE p == awaited # "nothing"
<1>5. Fresh = One(p /\ sent \in OnLine)
  BY NextCounts
<1>6. Fresh' = One(p /\ sent \in Firsts(Elements(Rest(k))))
  <2>1. Fresh' = One(awaited' # "nothing" /\ sent' \in OnLine')
    BY NextCounts
  <2>2. (awaited' # "nothing" /\ sent' \in OnLine') <=> (p /\ sent \in Firsts(Elements(Rest(k))))
    BY <1>4
  <2> HIDE DEF p
  <2> QED BY <2>1, <2>2 DEF One
<1>7. p \in BOOLEAN
  OBVIOUS
<1> HIDE DEF p
<1>8. Cardinality(OnLine') <= faults' + Fresh'
  <2>1. Cardinality(OnLine) <= faults + One(p /\ sent \in OnLine)
    BY <1>2, <1>5
  <2>2. Cardinality(Firsts(Elements(Rest(k)))) <=
           faults + One(p /\ sent \in Firsts(Elements(Rest(k))))
    BY <1>3, <1>7, <2>1, LineFewer
  <2> QED BY <1>4, <1>6, <2>2
<1>9. Holding(Left', Answers', faults, Fresh')
  <2>1. CASE j >= 1
    BY <1>1, <1>2, <2>1, HoldingGone, SMTT(30)
  <2>2. CASE Fresh <= Fresh'
    BY <1>1, <1>2, <2>2, HoldingFed, SMTT(30)
  <2>3. CASE Left' <= Longest + Cardinality(OnLine')
    <3>1. \A q, n, c, f, t \in Nat : q <= n + c /\ c <= f + t => q <= n + f + t
      OBVIOUS
    <3>2. Cardinality(OnLine') <= faults + Fresh' /\ Fresh' \in Nat /\ Longest \in Nat
      BY <1>1, <1>8, RecoveryOf
    <3>3. Left' <= Longest + faults + Fresh'
      BY <1>1, <2>3, <3>1, <3>2
    <3> QED BY <1>1, <1>2, <3>3, HoldingFed, SMTT(30)
  <2>4. CASE Left' + 1 <= Left /\ ~(j >= 1)
    <3>1. PICK i \in Nat \ {0} : i = 1
      OBVIOUS
    <3>2. Moved(Left, Answers, i, m, Left', Answers')
      BY <2>4, <3>1 DEF Moved
    <3> QED BY <1>1, <1>2, <3>2, HoldingGone, SMTT(30)
  <2> QED BY <2>1, <2>2, <2>3, <2>4
<1> QED BY <1>8, <1>9, NextSums

-----------------------------------------------------------------------------
(* What is read is not on the line any more.                               *)
LEMMA LeftFewer ==
    ASSUME CommandInv, NEW k \in 0 .. Len(line)
    PROVE  /\ Begins(fifo, matched, Elements(Rest(k))) <= Left
           /\ sent \in OnLine /\ sent \notin Firsts(Elements(Rest(k))) =>
                 Begins(fifo, matched, Elements(Rest(k))) + 1 <= Left
           /\ Begins(fifo, matched, Elements(Rest(k))) \in Nat
<1> DEFINE F == Elements(fifo)
           X == Elements(line)
           B == Elements(Rest(k))
<1>1. /\ B \subseteq X /\ B \in SUBSET ByteOf(sent)
  BY RestOf
<1>2. /\ sent \in Nat /\ F \in SUBSET ByteOf(sent) /\ X \in SUBSET ByteOf(sent)
  BY ElementsOf DEF CommandInv
<1>3. sent \in OnLine => sent \notin Firsts(F)
  BY BehindFifo
<1>4. /\ Left = Cardinality(Firsts(F \cup X)) + One(matched)
      /\ Begins(fifo, matched, B) = Cardinality(Firsts(F \cup B)) + One(matched)
      /\ OnLine = Firsts(X)
  BY DEF Left, Begins, OnLine
<1> HIDE DEF F, X, B
<1>5. F \cup B \in SUBSET ByteOf(sent) /\ F \cup X \in SUBSET ByteOf(sent) /\ F \cup B \subseteq F \cup X
  BY <1>1, <1>2
<1>6. Firsts(F \cup B) \subseteq Firsts(F \cup X) /\ Firsts(F \cup B) = Firsts(F) \cup Firsts(B)
      /\ Firsts(F \cup X) = Firsts(F) \cup Firsts(X)
  BY <1>5, FirstsJoin
<1>7. Cardinality(Firsts(F \cup B)) \in Nat /\ Cardinality(Firsts(F \cup X)) \in Nat
      /\ One(matched) \in Nat
  BY <1>2, <1>5, FirstsOf DEF One
<1>8. Cardinality(Firsts(F \cup B)) <= Cardinality(Firsts(F \cup X))
  BY <1>2, <1>5, <1>6, FirstsFewer
<1>9. ASSUME sent \in OnLine, sent \notin Firsts(B)
      PROVE  Cardinality(Firsts(F \cup B)) + 1 <= Cardinality(Firsts(F \cup X))
  <2>1. sent \in Firsts(F \cup X) /\ sent \notin Firsts(F \cup B)
    BY <1>3, <1>4, <1>6, <1>9
  <2> QED BY <1>2, <1>5, <1>6, <2>1, FirstsFewer
<1> QED BY <1>4, <1>7, <1>8, <1>9 DEF B

(* What the feed leaves.                                                   *)
FedNext(s, j, d, p, c) ==
    /\ Len(s.out) \in Nat /\ Moved(Left, Answers, j, Len(s.out), Left', Answers')
    /\ Short(fifo', line', matched', d)
    /\ p => Served(s, line', Left, j, sent, c)
    /\ Room'

(* A feed is followed by such a state.                                     *)
LEMMA FedNextOf ==
    ASSUME CommandInv, CommandInv', Recovers, UNCHANGED <<sent, awaited, arrived, faults>>,
           NEW k \in 0 .. Len(line), line' = Rest(k), Feed(SubSeq(line, 1, k)),
           NEW j \in Nat, NEW d \in Nat, NEW p \in BOOLEAN, NEW c, FedTo(k, j, d, p, c)
    PROVE  FedNext(Fed(SubSeq(line, 1, k)), j, d, p, c)
<1> DEFINE s == Fed(SubSeq(line, 1, k))
           m == Len(s.out)
<1>1. /\ s.fifo \in Seq(ByteOf(sent)) /\ s.matched \in BOOLEAN /\ s.out \in Seq(FrameOf(sent))
      /\ Rounds(s, Rest(k), Left, j) /\ Short(s.fifo, Rest(k), s.matched, d)
      /\ p => Served(s, Rest(k), Left, j, sent, c)
      /\ Stuck(s) \/ Idle(s) \/ j >= MaxParse
  BY DEF FedTo, Follows
<1>2. fifo' = s.fifo /\ matched' = s.matched /\ sending' = sending \o s.out
  BY DEF Feed
<1>3. /\ Left \in Nat /\ Answers \in Nat /\ Left' \in Nat /\ Answers' \in Nat
      /\ sending \in Seq(FrameOf(sent)) /\ Len(sending) \in Nat /\ Len(arrived) \in Nat
      /\ sent \in Nat
  BY AmountsOf, NextAmounts DEF Amounts, CommandInv
<1> HIDE DEF s
<1>4. m \in Nat /\ Len(sending') = Len(sending) + m
  BY <1>1, <1>2, <1>3, Joined, LenProperties
<1>5. Answers' = Answers + m
  <2>1. CASE awaited # "nothing"
    <3>1. Answers = Len(sending) + Len(arrived) /\ Answers' = Len(sending') + Len(arrived)
      BY <2>1, NextCounts
    <3>2. PICK x \in Nat, y \in Nat, z \in Nat : x = Len(sending) /\ y = Len(arrived) /\ z = m
      BY <1>3, <1>4
    <3>3. (x + z) + y = (x + y) + z
      OBVIOUS
    <3>4. Answers' = (x + z) + y /\ Answers + m = (x + y) + z
      BY <1>4, <3>1, <3>2
    <3> QED BY <3>3, <3>4
  <2>2. CASE awaited = "nothing"
    <3>1. Answers = Len(sending) + 0 /\ Answers' = Len(sending') + 0
      BY <2>2, NextCounts
    <3> QED BY <1>3, <1>4, <3>1
  <2> QED BY <2>1, <2>2
<1>6. Left' + j <= Left /\ m <= j
  <2>1. Left' = Begins(s.fifo, s.matched, Elements(Rest(k)))
    BY <1>2, NextCounts
  <2> QED BY <1>1, <2>1 DEF Rounds
<1>7. Moved(Left, Answers, j, m, Left', Answers')
  BY <1>5, <1>6 DEF Moved
<1>8. j >= 1 \/ Left' <= Longest + Cardinality(OnLine')
  <2>1. CASE Stuck(s) \/ Idle(s)
    <3>1. Elements(Rest(k)) \in SUBSET ByteOf(sent)
      BY RestOf
    <3>2. Begins(s.fifo, s.matched, Elements(Rest(k))) <=
             Longest + Cardinality(Firsts(Elements(Rest(k))))
      BY <1>1, <1>3, <2>1, <3>1, StuckFew
    <3>3. /\ Left' = Begins(s.fifo, s.matched, Elements(Rest(k)))
          /\ OnLine' = Firsts(Elements(Rest(k)))
      BY <1>2, NextCounts
    <3> QED BY <3>2, <3>3
  <2>2. CASE j >= MaxParse
    <3>1. MaxParse \in Nat \ {0}
      BY CommandAssumption
    <3> QED BY <2>2, <3>1
  <2> QED BY <1>1, <2>1, <2>2
<1>9. Room'
  BY <1>4, <1>5, <1>6, <1>7, <1>8, RoomFed
<1>10. /\ Short(fifo', line', matched', d)
       /\ p => Served(s, line', Left, j, sent, c)
  BY <1>1, <1>2
<1>11. FedNext(s, j, d, p, c)
  BY <1>4, <1>7, <1>9, <1>10 DEF FedNext
<1> QED BY <1>11 DEF s

(* The bytes of a session.                                                 *)
LEMMA SessionRecovers ==
    ASSUME CommandInv, CommandInv', Recovers, Service, session, NEW k \in 0 .. Len(line),
           line' = Rest(k), UNCHANGED <<fifo, matched, session, sending>>
    PROVE  Recovers'
<1>1. UNCHANGED <<sent, awaited, arrived, faults>> /\ failed' = 0
  BY DEF Service
<1>2. /\ Left \in Nat /\ Answers \in Nat /\ Fresh \in {0, 1} /\ Left' \in Nat
      /\ Answers' \in Nat /\ Fresh' \in {0, 1}
  BY AmountsOf, NextAmounts DEF Amounts
<1>3. Answers' = Answers
  BY <1>1, NextCounts
<1>4. /\ Left' = Begins(fifo, matched, Elements(Rest(k)))
      /\ OnLine' = Firsts(Elements(Rest(k)))
      /\ Fresh = One(awaited # "nothing" /\ sent \in OnLine)
      /\ Fresh' = One(awaited' # "nothing" /\ sent' \in OnLine')
  BY NextCounts
<1>5. Left' <= Left
  BY <1>4, LeftFewer
<1>6. Fresh <= Fresh' \/ Left' + 1 <= Left
  <2>1. CASE sent \in OnLine /\ sent \notin Firsts(Elements(Rest(k)))
    BY <1>4, <2>1, LeftFewer
  <2>2. CASE awaited = "nothing" \/ sent \notin OnLine
    <3>1. Fresh = 0
      BY <1>4, <2>2 DEF One
    <3>2. \A a, b \in {0, 1} : a = 0 => a <= b
      OBVIOUS
    <3> QED BY <1>2, <3>1, <3>2
  <2>3. CASE awaited # "nothing" /\ sent \in Firsts(Elements(Rest(k)))
    <3>1. Fresh' = 1
      BY <1>1, <1>4, <2>3 DEF One
    <3>2. \A a, b \in {0, 1} : b = 1 => a <= b
      OBVIOUS
    <3> QED BY <1>2, <3>1, <3>2
  <2> QED BY <2>1, <2>2, <2>3
<1>7. PICK n \in Nat : n = 0
  OBVIOUS
<1>8. Moved(Left, Answers, n, n, Left', Answers')
  <2>1. \A l, q, a, i \in Nat : q <= l /\ i = 0 => q + i <= l /\ i <= i /\ a = a + i
    OBVIOUS
  <2>2. Left' + n <= Left /\ n <= n /\ Answers = Answers + n
    BY <1>2, <1>5, <1>7, <2>1
  <2>3. Answers' = Answers + n
    BY <1>3, <2>2
  <2> QED BY <2>2, <2>3 DEF Moved
<1>9. Room'
  <2>1. n <= n /\ Answers' = Answers + n
    BY <1>2, <1>3, <1>7
  <2> QED BY <1>1, <1>6, <1>7, <1>8, <2>1, RoomFed
<1> QED BY <1>1, <1>9, NextRecap

-----------------------------------------------------------------------------
(* The answer of the latest request is the first one.                      *)
LEMMA OwnStays ==
    ASSUME CommandInv, CommandInv', Own, UNCHANGED <<sent, arrived>>,
           NEW o \in Seq(FrameOf(sent)), sending' = sending \o o
    PROVE  Own'
<1>1. sending \in Seq(FrameOf(sent))
  BY DEF CommandInv
<1>2. CASE arrived # <<>> /\ arrived[1][1] = sent
  BY <1>2 DEF Own
<1>3. CASE arrived = <<>> /\ sending # <<>> /\ sending[1][1] = sent
  <2>1. Len(sending) \in Nat /\ Len(sending) # 0
    BY <1>1, <1>3, EmptySeq, LenProperties
  <2>2. 1 \in 1 .. Len(sending)
    BY <2>1
  <2>3. 1 \in 1 .. Len(sending') /\ sending'[1] = sending[1]
    BY <1>1, <2>2, Joined
  <2>4. sending' # <<>>
    <3>1. Len(sending') # 0
      BY <2>3
    <3> QED BY <3>1
  <2> QED BY <1>3, <2>3, <2>4 DEF Own
<1> QED BY <1>2, <1>3 DEF Own

(* The frame that comes out of a feed with nothing before it.              *)
LEMMA OwnComes ==
    ASSUME CommandInv, UNCHANGED <<sent, arrived>>, sending = <<>>, arrived = <<>>,
           NEW o \in Seq(FrameOf(sent)), sending' = sending \o o, NEW c,
           1 \in 1 .. Len(o), o[1] = <<sent, c>>
    PROVE  Own'
<1>1. sending' = o
  BY ConcatEmptySeq
<1>2. o # <<>>
  <2>1. Len(o) # 0
    OBVIOUS
  <2> QED BY <2>1
<1>3. sending'[1][1] = sent
  BY <1>1
<1> QED BY <1>1, <1>2, <1>3 DEF Own

(* A feed outside of a session.                                            *)
LEMMA FeedRecovers ==
    ASSUME CommandInv, CommandInv', Recovers, Service, ~session, MaxParse >= 2,
           NEW k \in 0 .. Len(line), line' = Rest(k), Feed(SubSeq(line, 1, k))
    PROVE  Recovers'
<1> DEFINE s == Fed(SubSeq(line, 1, k))
           o == s.out
           m == Len(o)
<1>1. /\ UNCHANGED <<sent, awaited, arrived, faults>>
      /\ failed' = (IF session' THEN 0 ELSE failed) /\ session' \in BOOLEAN
      /\ sending' = sending \o o /\ fifo' = s.fifo /\ matched' = s.matched
  BY DEF Service, Feed
<1>2. /\ Left \in Nat /\ Answers \in Nat /\ failed \in Nat /\ Left' \in Nat /\ Answers' \in Nat
      /\ All(fifo, line) \in Nat /\ Len(sending) \in Nat /\ Len(arrived) \in Nat
  BY AmountsOf, NextAmounts DEF Amounts
<1>3. ASSUME NEW d \in Nat, Short(fifo, line, matched, d), NEW p \in BOOLEAN, NEW c,
             p => Pending(fifo, line, matched, sent, c)
      PROVE  \E j \in Nat : FedTo(k, j, d, p, c) /\ FedNext(s, j, d, p, c)
  <2>1. Ends(k, d, p, c)
    BY <1>3, FeedEnds
  <2>2. PICK j \in Nat : FedTo(k, j, d, p, c)
    BY <2>1 DEF Ends
  <2>3. FedNext(s, j, d, p, c)
    BY <1>1, <2>2, FedNextOf
  <2> QED BY <2>2, <2>3
<1>4. Room' /\ o \in Seq(FrameOf(sent))
  <2>1. MostShort \in Nat /\ Short(fifo, line, matched, MostShort)
    BY <1>2, ShortAtMost
  <2>2. FALSE \in BOOLEAN
    OBVIOUS
  <2>3. PICK j \in Nat :
          FedTo(k, j, MostShort, FALSE, awaited) /\ FedNext(s, j, MostShort, FALSE, awaited)
    <3> HIDE DEF s
    <3> QED BY <1>3, <2>1, <2>2
  <2>4. o \in Seq(FrameOf(sent))
    BY <2>3 DEF FedTo
  <2> HIDE DEF s
  <2> QED BY <2>3, <2>4 DEF FedNext
<1>5. CASE session'
  BY <1>1, <1>4, <1>5, NextRecap
<1>6. ASSUME ~session', NEW d \in 0 .. MostShort, Short(fifo, line, matched, d)
      PROVE  /\ Pays(failed, d, Left, Answers) => Paid'
             /\ Spares(failed, d, Left, Answers) => Rested'
  <2>1. d \in Nat /\ FALSE \in BOOLEAN
    BY RecoveryOf
  <2> HIDE DEF s
  <2>2. PICK j \in Nat : FedNext(s, j, d, FALSE, awaited)
    BY <1>3, <1>6, <2>1
  <2>3. /\ m \in Nat /\ Moved(Left, Answers, j, m, Left', Answers')
        /\ Short(fifo', line', matched', d)
    BY <2>2 DEF FedNext
  <2>4. failed' = failed
    BY <1>1, <1>6
  <2>5. Pays(failed, d, Left, Answers) => Pays(failed', d, Left', Answers')
    BY <1>2, <2>1, <2>3, <2>4, PaysFed
  <2>6. Spares(failed, d, Left, Answers) => Spares(failed', d, Left', Answers')
    BY <1>2, <2>1, <2>3, <2>4, SparesFed
  <2> QED BY <2>3, <2>5, <2>6, PaidNext, RestedNext
<1>7. ASSUME ~session', Unpaid, awaited # "nothing" PROVE Paid' \/ Unpaid' \/ Own'
  <2>1. /\ Short(fifo, line, matched, 0) /\ Owes(failed, Left, Answers)
        /\ Pending(fifo, line, matched, sent, awaited)
    BY <1>7, PaidOf
  <2>2. PICK d \in Nat : d = 0 /\ d \in 0 .. MostShort
    BY RecoveryOf
  <2>3. PICK j \in Nat : FedTo(k, j, d, TRUE, awaited) /\ FedNext(s, j, d, TRUE, awaited)
    BY <1>3, <2>1, <2>2
  <2>4. /\ m \in Nat /\ Moved(Left, Answers, j, m, Left', Answers')
        /\ Short(fifo', line', matched', 0)
        /\ Served(s, line', Left, j, sent, awaited)
    <3> HIDE DEF s
    <3> QED BY <2>2, <2>3 DEF FedNext
  <2>5. /\ s.fifo \in Seq(ByteOf(sent)) /\ s.matched \in BOOLEAN /\ o \in Seq(FrameOf(sent))
        /\ Stuck(s) \/ Idle(s) \/ j >= MaxParse
    BY <2>3 DEF FedTo
  <2> HIDE DEF s
  <2>6. failed' = failed /\ m <= j /\ Left' + j <= Left
    BY <1>1, <1>7, <2>4 DEF Moved
  <2>7. Owes(failed', Left', Answers')
    BY <1>2, <2>1, <2>4, <2>6, OwesFed
  <2>8. ASSUME \/ j >= 2
               \/ m >= 1 /\ (Answers >= 1 \/ m >= 2)
               \/ j >= 1 /\ Left' + j + 1 <= Left
        PROVE  Paid'
    <3>1. Pays(failed', 0, Left', Answers')
      BY <1>2, <2>1, <2>4, <2>6, <2>8, OwesFed
    <3> QED BY <2>2, <2>4, <3>1, PaidNext
  <2>9. CASE Pending(s.fifo, line', s.matched, sent, awaited)
    <3>1. CASE line' # <<>>
      <4>1. Pending(fifo', line', matched', sent', awaited')
        BY <1>1, <2>9
      <4> QED BY <2>4, <2>7, <3>1, <4>1, UnpaidNext
    <3>2. CASE line' = <<>>
      <4>1. Short(s.fifo, <<>>, s.matched, 0) /\ Pending(s.fifo, <<>>, s.matched, sent, awaited)
        BY <1>1, <2>4, <2>9, <3>2
      <4>2. sent \in Nat
        BY DEF CommandInv
      <4>3. ~(Stuck(s) \/ Idle(s))
        BY <2>5, <4>1, <4>2, StuckNone
      <4>4. j >= 2
        <5>1. j >= MaxParse /\ MaxParse \in Nat
          BY <2>5, <4>3, CommandAssumption
        <5> QED BY <5>1
      <4> QED BY <2>8, <4>4
    <3> QED BY <3>1, <3>2
  <2>10. ASSUME NEW i \in 1 .. Len(o), o[i] = <<sent, awaited>> PROVE Paid' \/ Own'
    <3>1. m >= 1 /\ i \in Nat /\ (i # 1 => m >= 2)
      BY <2>4
    <3>2. CASE sending = <<>> /\ arrived = <<>> /\ i = 1
      BY <1>1, <2>5, <2>10, <3>2, OwnComes
    <3>3. CASE i # 1
      BY <2>8, <3>1, <3>3
    <3>4. CASE sending # <<>> \/ arrived # <<>>
      <4>1. Answers = Len(sending) + Len(arrived)
        BY <1>7, NextCounts
      <4>2. Len(sending) # 0 \/ Len(arrived) # 0
        <5>1. sending \in Seq(FrameOf(sent)) /\ arrived \in Seq(FrameOf(sent))
          BY DEF CommandInv
        <5> QED BY <3>4, <5>1, EmptySeq
      <4>3. \A a, b \in Nat : a # 0 \/ b # 0 => a + b >= 1
        OBVIOUS
      <4>4. Answers >= 1
        BY <1>2, <4>1, <4>2, <4>3
      <4> QED BY <2>8, <3>1, <4>4
    <3> QED BY <3>2, <3>3, <3>4
  <2>11. CASE j >= 1 /\ Begins(s.fifo, s.matched, Elements(line')) + j + 1 <= Left
    <3>1. Left' = Begins(s.fifo, s.matched, Elements(line'))
      BY <1>1, NextCounts
    <3> QED BY <2>8, <2>11, <3>1
  <2> QED BY <2>4, <2>9, <2>10, <2>11 DEF Served
<1>8. CASE ~session'
  <2>1. CASE awaited # "nothing"
    <3>1. CASE Paid
      <4>1. PICK d \in 0 .. MostShort : Short(fifo, line, matched, d) /\ Pays(failed, d, Left, Answers)
        BY <3>1, PaidOf
      <4>2. Paid'
        BY <1>6, <1>8, <4>1
      <4> QED BY <1>1, <1>4, <1>8, <2>1, <4>2, NextRecovers, RecoversOf
    <3>2. CASE Own
      <4>1. Own'
        BY <1>1, <1>4, <3>2, OwnStays
      <4> QED BY <1>1, <1>4, <1>8, <2>1, <4>1, NextRecovers, RecoversOf
    <3>3. CASE Unpaid
      <4>1. Paid' \/ Unpaid' \/ Own'
        BY <1>7, <1>8, <2>1, <3>3
      <4> QED BY <1>1, <1>4, <1>8, <2>1, <4>1, NextRecovers, RecoversOf
    <3> QED BY <2>1, <3>1, <3>2, <3>3, RecoversOf
  <2>2. CASE awaited = "nothing"
    <3>1. PICK d \in 0 .. MostShort : Short(fifo, line, matched, d) /\ Spares(failed, d, Left, Answers)
      BY <2>2, RecoversOf, SumsOf
    <3>2. Rested'
      BY <1>6, <1>8, <3>1
    <3> QED BY <1>1, <1>4, <1>8, <2>2, <3>2, NextRecovers, RecoversOf
  <2> QED BY <2>1, <2>2
<1> QED BY <1>5, <1>8

-----------------------------------------------------------------------------
(* The board reads, in a session or outside of one.                        *)
LEMMA ServiceRecovers ==
    MaxParse >= 2 /\ CommandInv /\ CommandInv' /\ Recovers /\ Service => Recovers'
<1> SUFFICES ASSUME MaxParse >= 2, CommandInv, CommandInv', Recovers, Service PROVE Recovers'
  OBVIOUS
<1>1. PICK k \in {Min({r, Len(line)}) : r \in Reads} :
        /\ line # <<>> /\ line' = Rest(k)
        /\ IF session THEN UNCHANGED <<parser, session, sending, done>>
           ELSE Feed(SubSeq(line, 1, k))
  BY DEF Service, Rest
<1>2. k \in 0 .. Len(line)
  BY <1>1, ReadSome
<1>3. CASE session
  BY <1>1, <1>2, <1>3, SessionRecovers DEF parser
<1>4. CASE ~session
  BY <1>1, <1>2, <1>4, FeedRecovers
<1> QED BY <1>3, <1>4

(* Every step keeps what is still owed.                                    *)
LEMMA NextKeepsRecovers ==
    /\ MaxParse >= 2 /\ CommandInv /\ CommandInv' /\ Recovers /\ [CommandNext]_commandVars
    => Recovers'
<1> SUFFICES ASSUME MaxParse >= 2, CommandInv, CommandInv', Recovers, [CommandNext]_commandVars
             PROVE  Recovers'
  OBVIOUS
<1>1. ASSUME NEW c \in Commands, Ask(c) PROVE Recovers'
  BY <1>1, AskRecovers
<1>2. CASE Read
  BY <1>2, ReadRecovers
<1>3. CASE GiveUp
  BY <1>3, GiveUpRecovers
<1>4. CASE HostRests
  BY <1>4, StutterRecovers DEF HostRests
<1>5. CASE Service
  BY <1>5, ServiceRecovers
<1>6. CASE Transmit
  BY <1>6, TransmitRecovers
<1>7. CASE SessionEnds
  BY <1>7, SessionEndsRecovers
<1>8. CASE UNCHANGED commandVars
  BY <1>8, StutterRecovers
<1> QED BY <1>1, <1>2, <1>3, <1>4, <1>5, <1>6, <1>7, <1>8 DEF CommandNext

(* Whatever a fault has left in the parser, on the line and in the queues  *)
(* of answers, at most Recovery requests in a row fail.                    *)
THEOREM FailuresEnd == MaxParse >= 2 => (CommandSpec => [](failed <= Recovery))
<1> SUFFICES ASSUME MaxParse >= 2 PROVE CommandSpec => [](failed <= Recovery)
  OBVIOUS
<1>1. CommandInv /\ CommandInv' /\ Recovers /\ [CommandNext]_commandVars => Recovers'
  BY NextKeepsRecovers
<1>2. Recovers => failed <= Recovery
  BY DEF Recovers, Limits
<1> QED BY <1>1, <1>2, InitRecovers, CommandInvariant, PTL DEF CommandSpec

(* CommandsKept: requests are executed at most once and in order, answers  *)
(* never go back in time, without a fault every request outside of a       *)
(* session ends with its own answer, and after one at most Patience        *)
(* requests in a row do not, for every Patience that covers what a fault   *)
(* can leave behind.                                                       *)
THEOREM CommandsAreKept ==
    ASSUME MaxParse >= 2, Patience >= Recovery
    PROVE  CommandSpec => []CommandsKept
<1>1. CommandInv /\ failed <= Recovery => failed <= Patience
  <2> SUFFICES ASSUME CommandInv, failed <= Recovery PROVE failed <= Patience
    OBVIOUS
  <2>1. failed \in Nat /\ Recovery \in Nat /\ Patience \in Nat
    BY RecoveryOf, CommandAssumption DEF CommandInv
  <2> QED BY <2>1
<1>2. failed <= Patience /\ Undisturbed /\ InOrder => CommandsKept
  BY DEF CommandsKept, OwnAnswers
<1>3. CommandSpec => [](failed <= Recovery)
  BY FailuresEnd
<1> QED BY <1>1, <1>2, <1>3, CommandInvariant, ExecutedInOrder, UndisturbedAnswers, PTL

=============================================================================
