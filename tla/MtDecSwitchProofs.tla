------------------------- MODULE MtDecSwitchProofs --------------------------
(***************************************************************************)
(* When MtDec_Code leaves the rest of the input to the single-threaded     *)
(* decoder, that decoder is handed exactly the input that no thread        *)
(* decoded, from the byte after the last block written, none of it twice,  *)
(* for any number of threads, any input and any reads and failures:        *)
(* SwitchKeepsInput.  And what the stream gets, from the threads and from  *)
(* that decoder, is at every moment a beginning of what one thread decodes *)
(* the input to: WritesInOrder.                                            *)
(*                                                                         *)
(* The invariant says where every byte of the input is.  There is a        *)
(* function B from block numbers to the positions the blocks begin at      *)
(* (Placed): each thread of the ring holds the run of bytes from its       *)
(* block's position on, as many as it read or as its block has; the last   *)
(* one's end is where rd.cross or the stream goes on; and what was written *)
(* is what the bytes before the writer's block decode to.  A writer that   *)
(* stops keeps its place in that order: the threads whose input was put    *)
(* aside, and rd.cross after them, hold one run of bytes from the first    *)
(* that is not written (Handed), which MtDec_Read takes block by block.    *)
(*                                                                         *)
(* Words says what was made of those bytes: the parser met no end in a     *)
(* block and kept to the size that is left for it (Scanned); what a coder  *)
(* decoded is what the first bytes of its block decode to, and the whole   *)
(* block fits into the output (Fits); what was written is what the input   *)
(* decodes to up to wr.inProcessed (RunText), and then up to where the     *)
(* other decoder is (StText).                                              *)
(***************************************************************************)
EXTENDS MtDecProofs

(* A thread that looks for the end of its block, which begins at a.        *)
InBlock(t) == pc[t] \in {"read", "parse"}

AtRead(t, a) ==
  LET l == th[t].l
  IN  IF l.links = 0
      THEN l.size = 0 /\ l.start = 0 /\ l.inPreSize = 0 /\ l.outPreSize = 0 /\ Front(a)
      ELSE /\ rd.cross = << >> /\ rd.pos = a + l.size
           /\ l.start > 0 /\ l.size = l.start + Lk(l.links + 1) /\ l.inPreSize = l.size
           /\ Holds(th[t].inBuf, a, l.start, l.size)
           /\ l.outPreSize = Outputs(a + l.size) - Outputs(a)

AtCross(t, a) ==
  LET l == th[t].l
  IN  /\ l.size = Len(rd.cross) /\ l.start = l.size
      /\ l.inPreSize = 0 /\ l.outPreSize = 0 /\ Front(a)

AtLink(t, a) ==
  LET l == th[t].l
  IN  /\ rd.cross = << >> /\ rd.pos = a + l.size
      /\ l.inPreSize = l.size - l.last
      /\ IF l.links = 0 THEN l.size = l.last /\ l.start = l.last
         ELSE l.start > 0 /\ l.size = l.start + Lk(l.links + 1) + l.last
      /\ Holds(th[t].inBuf, a, l.start, l.size)
      /\ l.outPreSize = Outputs(a + l.inPreSize) - Outputs(a)
      /\ ~ l.finish => l.last = InBufSize

Unparsed(l) == l.state = "CONTINUE" /\ ~ l.needCode /\ ~ LeftToOther(l) /\ l.coderRes = OK

Reader(t, a) ==
  /\ Unparsed(th[t].l) /\ Level(a) /\ (th[t].l.finish => rd.finished)
  /\ pc[t] = "read" => AtRead(t, a)
  /\ pc[t] = "parse" /\ FromCross(t) => AtCross(t, a)
  /\ pc[t] = "parse" /\ ~ FromCross(t) => AtLink(t, a)

(* A thread that has its block, from a to b.                               *)
Sized(l, a, b) ==
  /\ b = a + l.size /\ l.inPreSize <= l.size
  /\ ~ l.needCode => l.wasInterrupted \/ LeftToOther(l) \/ l.codeRes # OK
  /\ l.needCode => l.needWrite
  /\ LeftToOther(l) => l.finish
  /\ l.coderRes # OK => l.codeRes # OK
  /\ l.state = "NEW" /\ l.finish => LeftToOther(l) \/ l.codeRes # OK \/ l.wasInterrupted
  /\ l.state = "NEW" /\ ~ l.finish =>
       l.inPreSize = l.size /\ l.outPreSize = Outputs(b) - Outputs(a)

HasBlock(t, a, b) ==
  LET l == th[t].l
  IN  /\ Sized(l, a, b) /\ b <= rd.pos /\ Holds(th[t].inBuf, a, l.start, l.size)
      /\ pc[t] \notin {"parsed", "pass"} /\ ~ l.finish => l.size > 0

(* Where the blocks of the working threads begin: block i at B[i].         *)
Places(B) == B \in [Nat -> Nat] /\ \A i, j \in Nat : i <= j => B[i] <= B[j]

HasPlace(t, B) ==
  /\ th[t].l.res = OK /\ IsSeq(th[t].l.outBuf)
  /\ IF InBlock(t) THEN Reader(t, B[bi(t)]) ELSE HasBlock(t, B[bi(t)], B[bi(t) + 1])

(* Where the next block begins, when the last one is known.                *)
IsLast(u) == Working(u) /\ bi(u) = rd.blockIndex - 1
Ends(u) == th[u].l.finish /\ (LeftToOther(th[u].l) => th[u].l.size > 0)
Unleveled(u) == th[u].l.finish \/ (pc[u] = "parsed" /\ th[u].l.state # "NEW")
RunsDry(u) == th[u].l.needCode /\ th[u].l.state = "CONTINUE"

NextPlace(e) ==
  /\ Front(e) \/ (Dropped(e) /\ \E u \in Threads : IsLast(u) /\ Ends(u))
  /\ Level(e) \/ \E u \in Threads : IsLast(u) /\ Unleveled(u)
  /\ \A u \in Threads : IsLast(u) /\ RunsDry(u) => Drained(e)

Written(p) == (p = wr.inProcessed /\ Len(out.bytes) = Outputs(p)) \/ Drained(p)

Unbroken ==
  /\ ~ wr.interrupted /\ wr.numFilled = 0 /\ ~ NeedContinue
  /\ rd.finished => rd.res # OK \/ rd.pos = Len(input.bytes)
  /\ IsSeq(out.bytes)

Placed(n, B) ==
  /\ Unbroken /\ Places(B)
  /\ \A t \in Threads : Working(t) => HasPlace(t, B)
  /\ (\E t \in Threads : InBlock(t)) \/ NextPlace(B[rd.blockIndex])
  /\ Written(B[rd.blockIndex - n])

-----------------------------------------------------------------------------
(* Fewer bytes of the same block.                                          *)
LEMMA HoldsLess ==
  ASSUME NEW buf, NEW a \in Int, NEW start \in Int, NEW size \in Int, Holds(buf, a, start, size),
         NEW less \in Int, start <= less, less <= size
  PROVE  Holds(buf, a, start, less)
<1>1. \A k \in Nat : Lk(k) \in Int
  BY LkNext
<1>2. Rest(buf, a + start, less - start)
  <2>1. Rest(buf, a + start, size - start) /\ InBufSize \in Nat
    BY MtDecAssumption DEF Holds
  <2> QED BY <1>1, <2>1 DEF Rest
<1> QED BY <1>2 DEF Holds

(* The first link of a block is filled.                                    *)
LEMMA HoldsFirst ==
  ASSUME NEW t \in Threads, ThreadOK(th[t]), Links(t) = 0, NEW a \in Int,
         NEW s \in Seq(Int), Len(s) <= InBufSize, RunFrom(s, a)
  PROVE  Holds(LinkFilled(t, s), a, Len(s), Len(s))
<1> DEFINE buf == LinkFilled(t, s)
<1>1. /\ buf \in Seq(Link) /\ 0 < Len(buf)
      /\ \A j \in 1 .. Len(s) : j <= InBufSize => buf[1][j] = s[j]
  <2>1. Links(t) <= Len(th[t].inBuf) /\ Links(t) + 1 = 1
    BY DEF ThreadOK
  <2> QED BY <2>1, FillTypes
<1> HIDE DEF buf
<1>2. InBufSize \in Nat /\ Len(s) \in Nat
  BY MtDecAssumption
<1>3. \A j \in 1 .. Len(s) : buf[1][j] = a + j
  BY <1>1, <1>2 DEF RunFrom
<1>4. Rest(buf, a + Len(s), Len(s) - Len(s))
  <2>1. \A k \in Nat : k \in Int
    OBVIOUS
  <2>2. \A k \in Nat : k >= 2 => Lk(k) \in Int /\ Lk(k) >= 0
    BY <2>1, LkOrder
  <2> QED BY <1>2, <2>2 DEF Rest
<1> QED BY <1>1, <1>2, <1>3, <1>4 DEF Holds, buf

(* One link more.                                                          *)
LEMMA HoldsMore ==
  ASSUME NEW t \in Threads, ThreadOK(th[t]), Links(t) > 0, Links(t) <= Len(th[t].inBuf),
         NEW a \in Int, NEW start \in Int, NEW size \in Int,
         Holds(th[t].inBuf, a, start, size), start > 0, size = start + Lk(Links(t) + 1),
         NEW s \in Seq(Int), Len(s) <= InBufSize, RunFrom(s, a + size)
  PROVE  Holds(LinkFilled(t, s), a, start, size + Len(s))
<1> DEFINE buf == LinkFilled(t, s)
           old == th[t].inBuf
           L == Links(t) + 1
<1>1. /\ buf \in Seq(Link) /\ L <= Len(buf) /\ Len(old) <= Len(buf)
      /\ L \in Nat /\ L >= 2 /\ old \in Seq(Link)
      /\ \A k \in 1 .. Len(buf) :
              IF k = L THEN \A j \in 1 .. Len(s) : j <= InBufSize => buf[k][j] = s[j]
              ELSE k <= Len(old) /\ buf[k] = old[k]
  <2>1. Links(t) \in Nat /\ old \in Seq(Link)
    BY DEF ThreadOK, LocalOK, Links
  <2>2. /\ buf \in Seq(Link) /\ Links(t) < Len(buf) /\ Len(old) <= Len(buf)
        /\ \A k \in 1 .. Len(buf) :
              IF k = L THEN \A j \in 1 .. Len(s) : j <= InBufSize => buf[k][j] = s[j]
              ELSE k <= Len(old) /\ buf[k] = old[k]
    BY FillTypes
  <2> HIDE DEF buf
  <2> QED BY <2>1, <2>2
<1> HIDE DEF buf, old
<1>2. InBufSize \in Nat /\ Len(s) \in Nat /\ Len(buf) \in Nat /\ Len(old) \in Nat
  BY <1>1, MtDecAssumption
<1>3. Holds(old, a, start, size) /\ size = start + Lk(L)
  BY DEF old, L
<1> HIDE DEF L
<1>4. /\ \A k \in Nat : Lk(k) \in Int
      /\ \A k \in Nat : k >= 2 /\ k < L => Lk(k) + InBufSize <= Lk(L)
      /\ \A k \in Nat : k > L => Lk(L) + InBufSize <= Lk(k)
  <2>1. L \in Nat /\ L >= 2
    BY <1>1
  <2>2. \A k \in Nat : k \in Int
    OBVIOUS
  <2>3. \A k \in Nat : k > L => L < k
    BY <2>1
  <2> QED BY <2>1, <2>2, <2>3, LkOrder
<1>5. Lk(L) >= 0
  BY <1>1, LkOrder
<1>6. Rest(buf, a + start, (size + Len(s)) - start)
  <2>1. SUFFICES ASSUME NEW k \in Nat, NEW j \in 1 .. InBufSize, k >= 2,
                        Lk(k) + j <= (size + Len(s)) - start
                 PROVE  k <= Len(buf) /\ buf[k][j] = (a + start) + Lk(k) + j
    BY DEF Rest
  <2>t. L \in Nat /\ L >= 2 /\ Len(s) <= InBufSize /\ j \in Int /\ j >= 1 /\ j <= InBufSize
    BY <1>1, <1>2
  <2>l. Lk(k) \in Int /\ Lk(L) \in Int
    BY <1>4, <2>t
  <2>s. Len(s) \in Int
    BY <1>2
  <2>e. size = start + Lk(L) /\ Lk(k) + j <= (size + Len(s)) - start
    BY <1>3, <2>1
  <2>2. Lk(k) + j <= Lk(L) + Len(s) /\ Lk(k) \in Int /\ Lk(L) \in Int
    <3>1. PICK x, y, m : x = Lk(k) /\ y = Lk(L) /\ m = Len(s)
      OBVIOUS
    <3>2. x \in Int /\ y \in Int /\ m \in Int /\ j \in Int /\ start \in Int
      BY <1>1, <2>l, <2>t, <2>s, <3>1
    <3>3. size = start + y /\ x + j <= (size + m) - start
      BY <2>e, <3>1
    <3>4. x + j <= y + m
      BY <3>2, <3>3
    <3> QED BY <2>l, <3>1, <3>4
  <2>3. CASE k = L
    <3>1. j <= Len(s) /\ k \in 1 .. Len(buf)
      <4>1. PICK x, m : x = Lk(L) /\ m = Len(s)
        OBVIOUS
      <4>2. x \in Int /\ m \in Int /\ j \in Int /\ x + j <= x + m
        BY <2>2, <2>3, <2>t, <2>s, <4>1
      <4>3. j <= m
        BY <4>2
      <4>4. k \in 1 .. Len(buf)
        BY <1>1, <1>2, <2>3
      <4> QED BY <4>1, <4>3, <4>4
    <3>2. buf[k][j] = s[j] /\ s[j] = a + size + j
      BY <1>1, <1>2, <2>3, <3>1 DEF RunFrom
    <3> QED BY <1>2, <1>3, <2>2, <2>3, <3>1, <3>2
  <2>4. CASE k < L
    <3>0. Lk(k) + InBufSize <= Lk(L)
      BY <1>4, <2>1, <2>4
    <3>1. Lk(k) + j <= size - start
      <4>1. InBufSize \in Int
        BY <1>2
      <4>2. size - start = Lk(L)
        BY <2>e, <2>l
      <4>3. Lk(k) + j <= Lk(L)
        BY <2>l, <2>t, <3>0, <4>1
      <4> QED BY <4>2, <4>3
    <3>2. k <= Len(old) /\ old[k][j] = (a + start) + Lk(k) + j
      BY <1>3, <2>1, <3>1 DEF Holds, Rest
    <3>3. k \in 1 .. Len(buf)
      <4>1. k <= Len(old) /\ Len(old) <= Len(buf) /\ k >= 2
        BY <1>1, <2>1, <3>2
      <4> QED BY <1>2, <4>1
    <3> QED BY <1>1, <2>4, <3>2, <3>3
  <2>5. CASE k > L
    <3>1. Lk(L) + InBufSize <= Lk(k)
      BY <1>4, <2>1, <2>5
    <3>2. PICK x, y, m, i : x = Lk(k) /\ y = Lk(L) /\ m = Len(s) /\ i = InBufSize
      OBVIOUS
    <3>3. /\ x \in Int /\ y \in Int /\ m \in Int /\ i \in Int /\ j \in Int
          /\ y + i <= x /\ x + j <= y + m /\ m <= i /\ j >= 1
      BY <1>2, <2>2, <2>t, <3>1, <3>2
    <3> QED BY <3>3
  <2> QED BY <2>3, <2>4, <2>5, <2>t
<1>7. \A j \in 1 .. start : buf[1][j] = a + j
  <2>1. 1 \in 1 .. Len(buf) /\ 1 # L
    BY <1>1, <1>2
  <2> QED BY <1>1, <1>3, <2>1 DEF Holds
<1>8. start \in 0 .. InBufSize /\ start <= size + Len(s) /\ Len(buf) > 0
  <2>1. start \in 0 .. InBufSize /\ start <= size
    BY <1>3 DEF Holds
  <2>2. Len(buf) > 0
    BY <1>1, <1>2
  <2> QED BY <1>2, <2>1, <2>2
<1> QED BY <1>6, <1>7, <1>8 DEF Holds, buf

(* What the parser is given is the input after what it was given before.   *)
Given(t, a) ==
  LET l == th[t].l
      src == Src(t)
      y == a + l.inPreSize
  IN  /\ src \in Seq(Int) /\ Len(src) \in Nat /\ Len(src) <= InBufSize
      /\ y \in Nat /\ RunFrom(src, y) /\ rd.pos = y + Len(src)
      /\ l.size = l.inPreSize + Len(src) /\ l.inPreSize \in Nat
      /\ l.outPreSize = Outputs(y) - Outputs(a)
      /\ l.start \in Int /\ l.links \in Nat
      /\ l.links = 0 => l.inPreSize = 0 /\ l.start = Len(src)
      /\ l.links > 0 => l.start > 0 /\ l.size = l.start + Lk(l.links + 1) + Len(src)
      /\ FromCross(t) => l.links = 0 /\ Len(src) > 0 /\ src = rd.cross
      /\ ~ FromCross(t) => /\ rd.cross = << >> /\ Holds(th[t].inBuf, a, l.start, l.size)
                           /\ ~ l.finish => Len(src) = InBufSize

(* The crossBlock or the link in use holds the next bytes of the input.    *)
LEMMA ParseGiven ==
  ASSUME RdOK, NEW t \in Threads, ThreadOK(th[t]), Linked(t), pc[t] = "parse",
         NEW a \in Nat, Reader(t, a)
  PROVE  Given(t, a)
<1> DEFINE l == th[t].l
           src == Src(t)
           y == a + l.inPreSize
<1>1. src \in Seq(Int) /\ Len(src) <= InBufSize /\ Len(src) \in Nat
      /\ Len(src) = IF FromCross(t) THEN Len(rd.cross) ELSE l.last
  BY SrcType
<1>2. /\ l.inPreSize \in Nat /\ l.size \in Int /\ l.start \in Int /\ l.links \in Nat
      /\ l.last \in Nat /\ l.outPreSize \in Nat /\ y \in Nat /\ Links(t) = l.links
  <2>1. InBufSize \in Nat
    BY MtDecAssumption
  <2>2. LocalOK(l) /\ Links(t) = l.links
    BY DEF ThreadOK, Links
  <2>3. /\ l.inPreSize \in Nat /\ l.size \in Int /\ l.start \in Int /\ l.links \in Nat
        /\ l.last \in 0 .. InBufSize /\ l.outPreSize \in Nat
    BY <2>2 DEF LocalOK
  <2> HIDE DEF l
  <2> QED BY <2>1, <2>2, <2>3
<1>3. CASE FromCross(t)
  <2>1. AtCross(t, a) /\ src = rd.cross /\ l.links = 0 /\ rd.cross # << >>
    BY <1>2, <1>3 DEF Reader, Src, FromCross
  <2>2. Len(src) > 0
    BY <1>1, <2>1
  <2>3. y = a /\ Outputs(a) \in Nat /\ l.outPreSize = Outputs(y) - Outputs(a)
    BY <2>1, OutputsNext DEF AtCross
  <2>4. RunFrom(src, y) /\ rd.pos = y + Len(src) /\ l.size = l.inPreSize + Len(src)
        /\ l.inPreSize = 0 /\ l.start = Len(src)
    <3>1. /\ RunFrom(rd.cross, a) /\ rd.pos = a + Len(rd.cross) /\ l.size = Len(rd.cross)
          /\ l.start = Len(rd.cross) /\ l.inPreSize = 0
      BY <2>1 DEF AtCross, Front
    <3>2. Len(rd.cross) = Len(src) /\ Len(src) = 0 + Len(src)
      BY <1>1, <2>1
    <3> HIDE DEF src, y
    <3> QED BY <2>1, <2>3, <3>1, <3>2
  <2> HIDE DEF src, y
  <2> QED BY <1>1, <1>2, <1>3, <2>1, <2>2, <2>3, <2>4 DEF Given, src, y
<1>4. CASE ~ FromCross(t)
  <2> DEFINE link == th[t].inBuf[l.links + 1]
  <2>1. AtLink(t, a)
    BY <1>4 DEF Reader
  <2>2. /\ rd.cross = << >> /\ rd.pos = a + l.size /\ l.inPreSize = l.size - l.last
        /\ l.outPreSize = Outputs(y) - Outputs(a)
        /\ Holds(th[t].inBuf, a, l.start, l.size)
        /\ ~ l.finish => l.last = InBufSize
    BY <2>1 DEF AtLink
  <2>3. Len(src) = l.last
    BY <1>1, <1>4
  <2>4. l.size = l.inPreSize + Len(src) /\ rd.pos = y + Len(src)
    <3>1. l.size \in Int /\ l.last \in Int /\ a \in Int /\ l.inPreSize = l.size - l.last
          /\ rd.pos = a + l.size
      BY <1>2, <2>2
    <3> HIDE DEF src
    <3> QED BY <2>3, <3>1
  <2>5. l.links = 0 => l.size = l.last /\ l.start = l.last
    BY <2>1 DEF AtLink
  <2>6. l.links # 0 => l.start > 0 /\ l.size = l.start + Lk(l.links + 1) + l.last
    BY <2>1 DEF AtLink
  <2>7. \A j \in 1 .. l.last : link[j] = y + j
    <3>1. CASE l.links = 0
      <4>1. l.links + 1 = 1 /\ y = a /\ l.start = l.last
        BY <1>2, <2>2, <2>5, <3>1
      <4> QED BY <2>2, <4>1 DEF Holds
    <3>2. CASE l.links # 0
      <4>1. Rest(th[t].inBuf, a + l.start, l.size - l.start)
        BY <2>2 DEF Holds
      <4>2. l.links + 1 \in Nat /\ l.links + 1 >= 2 /\ Lk(l.links + 1) \in Int
        <5>1. l.links + 1 \in Int /\ l.links + 1 \in Nat /\ l.links + 1 >= 2
          BY <1>2, <3>2
        <5> QED BY <5>1, LkOrder
      <4>3. TAKE j \in 1 .. l.last
      <4>4. j \in Int /\ j >= 1 /\ j <= l.last /\ j \in 1 .. InBufSize
        <5>1. l.last <= InBufSize /\ InBufSize \in Nat
          BY <1>1, <2>3, MtDecAssumption
        <5> QED BY <1>2, <5>1
      <4>5. l.size - l.start = Lk(l.links + 1) + l.last
        BY <1>2, <2>6, <3>2, <4>2
      <4>6. Lk(l.links + 1) + j <= l.size - l.start
        BY <1>2, <4>2, <4>4, <4>5
      <4>7. link[j] = (a + l.start) + Lk(l.links + 1) + j
        BY <4>1, <4>2, <4>4, <4>6 DEF Rest
      <4>8. y = a + l.start + Lk(l.links + 1)
        <5>1. /\ l.size \in Int /\ l.last \in Int /\ l.start \in Int /\ l.inPreSize = l.size - l.last
              /\ l.size = l.start + Lk(l.links + 1) + l.last
          BY <1>2, <2>2, <2>6, <3>2
        <5> QED BY <4>2, <5>1
      <4> QED BY <1>2, <4>2, <4>4, <4>7, <4>8
    <3> QED BY <3>1, <3>2
  <2>8. \A j \in 1 .. l.last : src[j] = link[j]
    <3>1. src = FirstBytes(link, l.last)
      BY <1>2, <1>4 DEF Src
    <3>2. \A j \in 1 .. l.last : link[j] \in Int
      BY <1>2, <2>7
    <3> HIDE DEF src, link
    <3> QED BY <1>2, <3>1, <3>2, BytesType
  <2>9. RunFrom(src, y)
    BY <2>3, <2>7, <2>8 DEF RunFrom
  <2>10. l.links = 0 => l.inPreSize = 0
    BY <1>2, <2>2, <2>5
  <2> HIDE DEF src, y, link
  <2> QED BY <1>1, <1>2, <1>4, <2>2, <2>3, <2>4, <2>5, <2>6, <2>9, <2>10 DEF Given, src, y
<1> QED BY <1>3, <1>4

(* What the parser says of the block, in places of the input.              *)
Found(t, a) ==
  LET l == th[t].l
      p == Parsed(t)
      len == Len(Src(t))
      b == a + l.inPreSize + p.used
  IN  /\ p.used \in 0 .. len /\ p.out \in Nat /\ p.state \in States
      /\ p.state # "OVERFLOW" => p.out = Outputs(b) - Outputs(a)
      /\ p.state = "CONTINUE" => p.used = len
      /\ p.state = "NEW" => p.used < len /\ p.out > 0
      /\ p.state \in {"MARK", "ERROR"} => Terminal(b)
      /\ p.state = "STOP" => input.outSize # NoSize /\ ~ input.finishMode
                             /\ p.out = input.outSize - rd.outParsed

(* The parser counts what the bytes of the input decode to.                *)
LEMMA ParseFinds ==
  ASSUME InputOK, RdOK, NEW t \in Threads, ThreadOK(th[t]), Linked(t), pc[t] = "parse",
         NEW a \in Nat, Given(t, a)
  PROVE  Found(t, a)
<1> DEFINE l == th[t].l
           src == Src(t)
           y == a + l.inPreSize
           p == Parsed(t)
           b == a + l.inPreSize + p.used
           len == Len(src)
<1>1. Answers(p, input.bytes, src, l.outPreSize, OutLimit, ~ OutLimited \/ input.finishMode)
  BY ParsedIs
<1>2. /\ len \in Nat /\ y \in Nat /\ RunFrom(src, y) /\ rd.pos = y + len
      /\ l.outPreSize = Outputs(y) - Outputs(a)
  BY DEF Given
<1> HIDE DEF p, src
<1>3. p.used \in 0 .. len /\ p.out \in Nat /\ p.state \in States
  BY <1>1 DEF Answers
<1> HIDE DEF y
<1>4. b = y + p.used /\ b \in Nat
  <2>1. l.inPreSize \in Nat
    BY DEF ThreadOK, LocalOK
  <2>2. p.used \in Nat
    BY <1>2, <1>3
  <2> QED BY <2>1, <2>2 DEF y
<1>5. rd.pos \in 0 .. Len(input.bytes) /\ input.bytes \in Seq(Kinds)
  BY DEF RdOK, InputOK, Streams
<1>6. \A k \in 1 .. len : src[k] = y + k /\ input.bytes[src[k]] \in Kinds
  <2>1. TAKE k \in 1 .. len
  <2>2. src[k] = y + k
    BY <1>2 DEF RunFrom
  <2>3. y + k \in 1 .. Len(input.bytes)
    BY <1>2, <1>5
  <2> QED BY <1>5, <2>2, <2>3
<1> HIDE DEF b
<1>7. p.state # "OVERFLOW" => p.out = Outputs(b) - Outputs(a)
  <2>1. Outputs(y + p.used) = Outputs(y) + NumData(input.bytes, src, p.used + 1)
    BY <1>2, <1>3, OutputsRun
  <2>2. p.state # "OVERFLOW" => p.out = l.outPreSize + NumData(input.bytes, src, p.used + 1)
    BY <1>1 DEF Answers
  <2>3. Outputs(y) \in Nat /\ Outputs(a) \in Nat /\ NumData(input.bytes, src, p.used + 1) \in Nat
    BY <1>2, <1>3, OutputsNext, NumDataType
  <2> QED BY <1>2, <1>4, <2>1, <2>2, <2>3
<1>8. p.state = "CONTINUE" => p.used = len
  <2>1. p.state = "CONTINUE" =>
          p.used = Len(src) \/ \E k \in 1 .. Len(src) : input.bytes[src[k]] = "more"
    BY <1>1 DEF Answers
  <2> QED BY <1>6, <2>1 DEF Kinds
<1>9. p.state = "NEW" => p.used < len /\ p.out > 0
  BY <1>1 DEF Answers
<1>10. p.state \in {"MARK", "ERROR"} => Terminal(b)
  <2>1. SUFFICES ASSUME p.state \in {"MARK", "ERROR"} PROVE Terminal(b)
    OBVIOUS
  <2>2. p.used > 0 /\ input.bytes[src[p.used]] \in {"end", "err"}
    BY <1>1, <2>1 DEF Answers
  <2>3. p.used \in 1 .. len
    BY <1>2, <1>3, <2>2
  <2>4. src[p.used] = b /\ b > 0
    BY <1>2, <1>4, <1>6, <2>3
  <2> QED BY <2>2, <2>4 DEF Terminal
<1>11. p.state = "STOP" => /\ input.outSize # NoSize /\ ~ input.finishMode
                           /\ p.out = input.outSize - rd.outParsed
  <2>1. p.state = "STOP" => ~ (~ OutLimited \/ input.finishMode) /\ p.out = OutLimit
    BY <1>1 DEF Answers
  <2> QED BY <2>1 DEF OutLimited, OutLimit, OutRemains
<1> QED BY <1>3, <1>7, <1>8, <1>9, <1>10, <1>11 DEF Found, p, src, b

(* The thread's links hold what the parser accepted.                       *)
LEMMA OwnHolds ==
  ASSUME RdOK, NEW t \in Threads, ThreadOK(th[t]), Linked(t), pc[t] = "parse",
         NEW a \in Nat, Given(t, a), NEW k \in 0 .. Len(Src(t))
  PROVE  Holds(OwnLinks(t, k), a, IF th[t].l.links = 0 THEN k ELSE th[t].l.start,
               th[t].l.inPreSize + k)
<1> DEFINE l == th[t].l
<1>1. CASE FromCross(t)
  <2>1. /\ OwnLinks(t, k) = LinkFilled(t, FirstBytes(rd.cross, k)) /\ Links(t) = 0 /\ l.links = 0
        /\ l.inPreSize = 0 /\ rd.cross \in Seq(Int) /\ k \in Nat /\ k <= Len(rd.cross)
        /\ RunFrom(rd.cross, a) /\ Len(rd.cross) <= InBufSize
    BY <1>1 DEF OwnLinks, Given, Links
  <2>2. /\ FirstBytes(rd.cross, k) \in Seq(Int) /\ Len(FirstBytes(rd.cross, k)) = k
        /\ \A j \in 1 .. k : FirstBytes(rd.cross, k)[j] = rd.cross[j]
    <3>1. Len(rd.cross) \in Nat /\ \A j \in 1 .. Len(rd.cross) : rd.cross[j] \in Int
      BY <2>1
    <3>2. \A j \in 1 .. k : rd.cross[j] \in Int
      BY <2>1, <3>1
    <3> QED BY <2>1, <3>2, BytesType
  <2>3. RunFrom(FirstBytes(rd.cross, k), a) /\ Len(FirstBytes(rd.cross, k)) <= InBufSize
    <3>1. InBufSize \in Nat /\ Len(rd.cross) \in Nat
      BY <2>1, MtDecAssumption
    <3>2. \A j \in 1 .. k : rd.cross[j] = a + j
      BY <2>1, <3>1 DEF RunFrom
    <3> QED BY <2>1, <2>2, <3>1, <3>2 DEF RunFrom
  <2>4. Holds(LinkFilled(t, FirstBytes(rd.cross, k)), a, k, k)
    BY <2>1, <2>2, <2>3, HoldsFirst
  <2> QED BY <2>1, <2>4
<1>2. CASE ~ FromCross(t)
  <2>1. /\ OwnLinks(t, k) = th[t].inBuf /\ Holds(th[t].inBuf, a, l.start, l.size)
        /\ l.size = l.inPreSize + Len(Src(t)) /\ l.start \in Int /\ l.links \in Nat
        /\ l.inPreSize \in Nat /\ Len(Src(t)) \in Nat
        /\ l.links = 0 => l.inPreSize = 0 /\ l.start = Len(Src(t))
        /\ l.links > 0 => l.size = l.start + Lk(l.links + 1) + Len(Src(t))
    BY <1>2 DEF OwnLinks, Given
  <2>2. CASE l.links = 0
    <3>1. Holds(th[t].inBuf, a, k, k)
      <4>1. Holds(th[t].inBuf, a, l.start, l.start) /\ k \in Nat /\ k <= l.start /\ l.start \in Nat
        BY <2>1, <2>2
      <4>2. Rest(th[t].inBuf, a + k, 0)
        <5>1. \A j \in Nat : j \in Int
          OBVIOUS
        <5>2. \A j \in Nat : j >= 2 => Lk(j) \in Int /\ Lk(j) >= 0
          BY <5>1, LkOrder
        <5> QED BY <5>2, MtDecAssumption DEF Rest
      <4>3. k - k = 0 /\ k \in 0 .. InBufSize
        BY <4>1, MtDecAssumption DEF Holds
      <4> QED BY <4>1, <4>2, <4>3 DEF Holds
    <3>2. l.inPreSize + k = k
      BY <2>1, <2>2
    <3> QED BY <2>1, <2>2, <3>1, <3>2
  <2>3. CASE l.links # 0
    <3>1. l.links + 1 \in Nat /\ l.links + 1 >= 2
      BY <2>1, <2>3
    <3>2. Lk(l.links + 1) \in Int /\ Lk(l.links + 1) >= 0
      <4>1. l.links + 1 \in Int
        BY <2>1
      <4> QED BY <3>1, <4>1, LkOrder
    <3>3. l.inPreSize = l.start + Lk(l.links + 1)
      <4>1. /\ l.size = l.start + Lk(l.links + 1) + Len(Src(t)) /\ l.size = l.inPreSize + Len(Src(t))
            /\ l.inPreSize \in Int /\ l.start \in Int /\ Len(Src(t)) \in Int
        BY <2>1, <2>3
      <4>2. PICK x, y, i, m : /\ x = Lk(l.links + 1) /\ y = l.start
                              /\ i = l.inPreSize /\ m = Len(Src(t))
        OBVIOUS
      <4>3. x \in Int /\ y \in Int /\ i \in Int /\ m \in Int /\ y + x + m = i + m
        BY <3>2, <4>1, <4>2
      <4>4. i = y + x
        BY <4>3
      <4> QED BY <4>2, <4>4
    <3>4. l.start <= l.inPreSize + k /\ l.inPreSize + k <= l.size /\ l.size \in Int
      <4>1. PICK x, y, i, m, z : /\ x = Lk(l.links + 1) /\ y = l.start /\ z = l.size
                                 /\ i = l.inPreSize /\ m = Len(Src(t))
        OBVIOUS
      <4>2. x \in Int /\ x >= 0 /\ y \in Int /\ i \in Int /\ m \in Int /\ k \in 0 .. m
        BY <2>1, <3>2, <4>1
      <4>3. i = y + x /\ z = i + m
        BY <2>1, <3>3, <4>1
      <4>4. y <= i + k /\ i + k <= z /\ z \in Int
        BY <4>2, <4>3
      <4> QED BY <4>1, <4>4
    <3>5. l.inPreSize + k \in Int
      BY <2>1
    <3>6. Holds(th[t].inBuf, a, l.start, l.inPreSize + k)
      <4>1. PICK x : x = l.inPreSize + k
        OBVIOUS
      <4>2. x \in Int /\ l.start <= x /\ x <= l.size /\ l.size \in Int /\ l.start \in Int
        BY <2>1, <3>4, <3>5, <4>1
      <4>3. Holds(th[t].inBuf, a, l.start, x)
        BY <2>1, <4>2, HoldsLess
      <4> QED BY <4>1, <4>3
    <3> QED BY <2>1, <2>3, <3>6
  <2> QED BY <2>2, <2>3
<1> QED BY <1>1, <1>2

(* Who reads has the last block, and the others have those before.         *)
LEMMA BlockIsLast ==
  ASSUME Shape, NEW w \in 0 .. MaxThreads, NEW n \in 0 .. MaxThreads, Round(w, n),
         NEW t \in Threads, Reading(t)
  PROVE  /\ n \in Nat /\ n > 0 /\ rd.blockIndex \in Nat /\ rd.blockIndex - n \in Nat
         /\ bi(t) = rd.blockIndex - 1 /\ bi(t) \in Nat /\ Working(t) /\ IsLast(t)
         /\ \A u \in Threads : Working(u) /\ u # t =>
              bi(u) \in Nat /\ bi(u) < bi(t) /\ ~ Reading(u) /\ ~ InBlock(u)
<1>1. /\ Working(t) /\ rd.started \in 1 .. MaxThreads /\ w \in 0 .. rd.started - 1
      /\ n \in 1 .. rd.started /\ t < rd.started /\ From(rd.started, w, t) = n - 1
      /\ \A u \in Threads : Working(u) /\ u # t =>
           /\ ~ Reading(u) /\ u < rd.started /\ From(rd.started, w, u) < n - 1
  BY ReaderIsLast
<1>2. rd.blockIndex \in Nat /\ MaxThreads \in Nat /\ \A u \in Threads : bi(u) \in Nat
  BY ThreadZero DEF Shape, IsRd, IsThread, IsLocal, bi
<1>3. \A u \in Threads : Working(u) => bi(u) = rd.blockIndex - n + From(rd.started, w, u)
  BY DEF Round
<1>4. bi(t) = rd.blockIndex - 1
  BY <1>1, <1>2, <1>3
<1>5. \A u \in Threads : u < rd.started => From(rd.started, w, u) \in Nat
  BY <1>1, <1>2 DEF From, Threads
<1>6. rd.blockIndex - n \in Nat
  <2>1. w \in Threads /\ w < rd.started /\ From(rd.started, w, w) = 0
    BY <1>1, <1>2 DEF Threads, From
  <2>2. Working(w)
    BY <1>1, <2>1 DEF Round
  <2> QED BY <1>1, <1>2, <1>3, <2>1, <2>2
<1>7. ASSUME NEW u \in Threads, Working(u), u # t
      PROVE  bi(u) \in Nat /\ bi(u) < bi(t) /\ ~ Reading(u) /\ ~ InBlock(u)
  <2>1. ~ Reading(u) /\ From(rd.started, w, u) < n - 1 /\ From(rd.started, w, u) \in Nat
    BY <1>1, <1>5, <1>7
  <2>2. bi(u) < bi(t)
    BY <1>1, <1>2, <1>3, <1>4, <1>7, <2>1
  <2> QED BY <1>2, <2>1, <2>2 DEF Reading, InBlock
<1> QED BY <1>1, <1>2, <1>4, <1>6, <1>7 DEF IsLast

(* What the input is stays in a call.                                      *)
LEMMA SameInput ==
  ASSUME input' = input
  PROVE  /\ \A p : Outputs(p)' = Outputs(p)
         /\ \A p : Terminal(p)' <=> Terminal(p)
BY DEF Outputs, Terminal

(* A thread that does not move keeps its place.                            *)
LEMMA PlaceStays ==
  ASSUME input' = input, NEW u \in Threads, th'[u] = th[u], pc'[u] = pc[u],
         NEW B, NEW C, HasPlace(u, B), C[bi(u)] = B[bi(u)],
         ~ InBlock(u) => C[bi(u) + 1] = B[bi(u) + 1] /\ B[bi(u) + 1] \in Int,
         rd.pos \in Int, rd'.pos \in Int, rd.pos <= rd'.pos,
         InBlock(u) => rd'.pos = rd.pos /\ rd'.cross = rd.cross /\ rd'.finished = rd.finished
                       /\ rd'.outParsed = rd.outParsed
  PROVE  HasPlace(u, C)'
<1>1. /\ \A p : Outputs(p)' = Outputs(p)
      /\ \A p : Terminal(p)' <=> Terminal(p)
  BY SameInput
<1>2. bi(u)' = bi(u) /\ (InBlock(u)' <=> InBlock(u))
  BY DEF bi, InBlock
<1>3. th[u].l.res = OK /\ IsSeq(th[u].l.outBuf)
  BY DEF HasPlace
<1>4. PICK a, b : a = B[bi(u)] /\ b = B[bi(u) + 1]
  OBVIOUS
<1>5. CASE InBlock(u)
  <2>1. Reader(u, a)
    BY <1>4, <1>5 DEF HasPlace
  <2>2. AtRead(u, a) => AtRead(u, a)'
    BY <1>1, <1>5 DEF AtRead, Front
  <2>3. AtCross(u, a) => AtCross(u, a)'
    BY <1>1, <1>5 DEF AtCross, Front
  <2>4. AtLink(u, a) => AtLink(u, a)'
    BY <1>1, <1>5 DEF AtLink
  <2>5. (FromCross(u)' <=> FromCross(u)) /\ (Level(a) => Level(a)')
    BY <1>1, <1>5 DEF FromCross, Links, Level, Drained
  <2>6. Reader(u, a)'
    BY <1>5, <2>1, <2>2, <2>3, <2>4, <2>5 DEF Reader
  <2>7. Reader(u, C[bi(u)])'
    BY <1>2, <1>4, <2>6
  <2> QED BY <1>2, <1>3, <1>5, <2>7 DEF HasPlace
<1>6. CASE ~ InBlock(u)
  <2>1. HasBlock(u, a, b) /\ b \in Int
    BY <1>4, <1>6 DEF HasPlace
  <2>2. HasBlock(u, a, b)'
    BY <1>1, <2>1 DEF HasBlock, Sized
  <2>3. HasBlock(u, C[bi(u)], C[bi(u) + 1])'
    BY <1>2, <1>4, <1>6, <2>2
  <2> QED BY <1>2, <1>3, <1>6, <2>3 DEF HasPlace
<1> QED BY <1>5, <1>6

(* A step of the thread that looks for the end of its block.               *)
Looks(t) ==
  /\ InBlock(t) /\ Others(t) /\ UNCHANGED <<wr, out>>
  /\ Working(t)' /\ bi(t)' = bi(t) /\ rd'.blockIndex = rd.blockIndex
  /\ rd.pos <= rd'.pos
  /\ rd'.finished => rd'.res # OK \/ rd'.pos = Len(input.bytes)

(* ... moves no other's block, and where it begins.                        *)
LEMMA LookKeeps ==
  ASSUME Shape, RdOK, RdOK', NEW w \in 0 .. MaxThreads, NEW n \in 0 .. MaxThreads, Round(w, n),
         NEW B, Placed(n, B), NEW t \in Threads, Looks(t),
         NEW C, Places(C), \A i \in Nat : i <= bi(t) => C[i] = B[i], HasPlace(t, C)',
         NEW c, c = C[rd.blockIndex], InBlock(t)' \/ NextPlace(c)',
         Drained(B[rd.blockIndex - n]) => rd'.finished /\ rd'.pos = rd.pos /\ rd'.cross = << >>
  PROVE  Placed(n, C)'
<1>1. /\ n \in Nat /\ n > 0 /\ rd.blockIndex \in Nat /\ rd.blockIndex - n \in Nat
      /\ bi(t) = rd.blockIndex - 1 /\ bi(t) \in Nat /\ Working(t)
      /\ \A u \in Threads : Working(u) /\ u # t =>
           bi(u) \in Nat /\ bi(u) < bi(t) /\ ~ Reading(u) /\ ~ InBlock(u)
  <2>1. Reading(t)
    BY DEF Looks, InBlock, Reading
  <2> QED BY <2>1, BlockIsLast
<1>2. input' = input /\ wr' = wr /\ out' = out /\ rd'.blockIndex = rd.blockIndex
  BY DEF Looks, Others
<1>3. Unbroken'
  BY <1>2 DEF Placed, Unbroken, NeedContinue, Looks
<1>4. ASSUME NEW u \in Threads, Working(u)' PROVE HasPlace(u, C)'
  <2>1. CASE u = t
    BY <2>1
  <2>2. CASE u # t
    <3>1. th'[u] = th[u] /\ pc'[u] = pc[u] /\ Working(u)
      BY <1>4, <2>2 DEF Looks, Others, Working, Reading
    <3>2. bi(u) \in Nat /\ bi(u) < bi(t) /\ ~ InBlock(u) /\ bi(u) + 1 \in Nat /\ bi(u) + 1 <= bi(t)
      BY <1>1, <2>2, <3>1
    <3>3. HasPlace(u, B) /\ B \in [Nat -> Nat]
      BY <3>1 DEF Placed, Places
    <3>4. C[bi(u)] = B[bi(u)] /\ C[bi(u) + 1] = B[bi(u) + 1] /\ B[bi(u) + 1] \in Int
      <4>1. bi(u) <= bi(t) /\ bi(u) + 1 <= bi(t) /\ bi(u) + 1 \in Nat /\ bi(u) \in Nat
        BY <1>1, <3>2
      <4>2. PICK i, j : i = bi(u) /\ j = bi(u) + 1
        OBVIOUS
      <4>3. i \in Nat /\ j \in Nat /\ i <= bi(t) /\ j <= bi(t)
        BY <4>1, <4>2
      <4>4. C[i] = B[i] /\ C[j] = B[j]
        BY <4>3
      <4>5. B[j] \in Int
        BY <3>3, <4>3
      <4> QED BY <4>2, <4>4, <4>5
    <3>5. rd.pos \in Int /\ rd'.pos \in Int /\ rd.pos <= rd'.pos
      BY DEF RdOK, Looks
    <3> QED BY <1>2, <3>1, <3>2, <3>3, <3>4, <3>5, PlaceStays
  <2> QED BY <2>1, <2>2
<1>5. (\E u \in Threads : InBlock(u)') \/ NextPlace(C[rd.blockIndex])'
  <2>1. CASE InBlock(t)'
    BY <2>1
  <2>2. CASE NextPlace(c)'
    <3>1. c = C[rd'.blockIndex]
      BY <1>2
    <3> QED BY <2>2, <3>1
  <2> QED BY <2>1, <2>2
<1>6. Written(C[rd.blockIndex - n])'
  <2>1. PICK p : p = B[rd.blockIndex - n]
    OBVIOUS
  <2>2. Written(p)
    BY <2>1 DEF Placed
  <2>3. \A q : Outputs(q)' = Outputs(q)
    BY <1>2, SameInput
  <2>4. Written(p)'
    BY <1>2, <2>1, <2>2, <2>3 DEF Written, Drained
  <2>5. p = C[rd'.blockIndex - n]
    BY <1>1, <1>2, <2>1
  <2> QED BY <2>4, <2>5
<1> QED BY <1>3, <1>4, <1>5, <1>6 DEF Placed

(* The block is not at its end yet.                                        *)
LEMMA LooksOn ==
  ASSUME Shape, RdOK, RdOK', NEW w \in 0 .. MaxThreads, NEW n \in 0 .. MaxThreads, Round(w, n),
         NEW B, Placed(n, B), NEW t \in Threads, Looks(t), InBlock(t)',
         NEW a, a = B[bi(t)], Reader(t, a)', (th[t].l.res = OK)', IsSeq(th[t].l.outBuf)',
         \A p : p <= a /\ Drained(p) => rd'.finished /\ rd'.pos = rd.pos /\ rd'.cross = << >>
  PROVE  Placed(n, B)'
<1>1. Reading(t) /\ bi(t)' = bi(t)
  BY DEF Looks, InBlock, Reading
<1>2. HasPlace(t, B)'
  BY <1>1 DEF HasPlace
<1>3. Places(B)
  BY DEF Placed
<1>4. B[rd.blockIndex - n] <= a
  <2>1. rd.blockIndex - n \in Nat /\ bi(t) \in Nat /\ rd.blockIndex - n <= bi(t)
    BY <1>1, BlockIsLast
  <2> QED BY <1>3, <2>1 DEF Places
<1>5. Drained(B[rd.blockIndex - n]) => rd'.finished /\ rd'.pos = rd.pos /\ rd'.cross = << >>
  BY <1>4
<1>6. PICK c : c = B[rd.blockIndex]
  OBVIOUS
<1> QED BY <1>2, <1>3, <1>5, <1>6, LookKeeps

(* The end of the block is found.                                          *)
Reaches(t, b) ==
  /\ Front(b) \/ (Dropped(b) /\ Ends(t))
  /\ Level(b) \/ Unleveled(t)
  /\ RunsDry(t) => Drained(b)

(* The thread found where its block ends: the next one has its place there.*)
LEMMA LookEnds ==
  ASSUME Shape, RdOK, RdOK', NEW w \in 0 .. MaxThreads, NEW n \in 0 .. MaxThreads, Round(w, n),
         NEW B, Placed(n, B), NEW t \in Threads, Looks(t), ~ InBlock(t)',
         NEW a, a = B[bi(t)], NEW b \in Nat, a <= b, HasBlock(t, a, b)', Reaches(t, b)',
         (th[t].l.res = OK)', IsSeq(th[t].l.outBuf)',
         \A p : p <= a /\ Drained(p) => rd'.finished /\ rd'.pos = rd.pos /\ rd'.cross = << >>
  PROVE  \E C : Placed(n, C)'
<1> DEFINE C == [i \in Nat |-> IF i <= bi(t) THEN B[i] ELSE b]
<1>1. /\ n \in Nat /\ n > 0 /\ rd.blockIndex \in Nat /\ rd.blockIndex - n \in Nat
      /\ bi(t) = rd.blockIndex - 1 /\ bi(t) \in Nat /\ Working(t)
      /\ \A u \in Threads : Working(u) /\ u # t => bi(u) \in Nat /\ bi(u) < bi(t)
  <2>1. Reading(t)
    BY DEF Looks, InBlock, Reading
  <2> QED BY <2>1, BlockIsLast
<1>2. Places(B)
  BY DEF Placed
<1>3. PICK D : D = C
  OBVIOUS
<1>4. Places(D) /\ \A i \in Nat : D[i] = IF i <= bi(t) THEN B[i] ELSE b
  <2>1. B \in [Nat -> Nat] /\ a \in Nat /\ \A i, j \in Nat : i <= j => B[i] <= B[j]
    BY <1>1, <1>2 DEF Places
  <2>2. D \in [Nat -> Nat] /\ \A i \in Nat : D[i] = IF i <= bi(t) THEN B[i] ELSE b
    BY <1>3, <2>1
  <2>3. \A i \in Nat : i <= bi(t) => B[i] <= a /\ B[i] \in Nat
    BY <1>1, <2>1
  <2>4. ASSUME NEW i \in Nat, NEW j \in Nat, i <= j PROVE D[i] <= D[j]
    <3>1. PICK e : e = bi(t)
      OBVIOUS
    <3>2. e \in Nat /\ a \in Nat /\ D[i] = (IF i <= e THEN B[i] ELSE b)
          /\ D[j] = (IF j <= e THEN B[j] ELSE b)
      BY <1>1, <2>1, <2>2, <3>1
    <3>3. (i <= e => B[i] <= a /\ B[i] \in Nat) /\ B[i] <= B[j]
      BY <2>1, <2>3, <2>4, <3>1
    <3> HIDE DEF C
    <3>4. a <= b /\ b \in Nat
      OBVIOUS
    <3>5. CASE j <= e
      BY <2>4, <3>2, <3>3, <3>5
    <3>6. CASE ~ (j <= e)
      BY <2>4, <3>2, <3>3, <3>4, <3>6
    <3> QED BY <3>5, <3>6
  <2> QED BY <2>2, <2>4 DEF Places
<1>5. /\ \A i \in Nat : i <= bi(t) => D[i] = B[i]
      /\ D[bi(t)] = a /\ D[bi(t) + 1] = b /\ D[rd.blockIndex] = b
      /\ rd.blockIndex - n <= bi(t)
  BY <1>1, <1>4
<1>6. bi(t)' = bi(t)
  BY DEF Looks
<1>7. HasPlace(t, D)'
  <2>1. HasBlock(t, D[bi(t)], D[bi(t) + 1])'
    BY <1>5, <1>6
  <2> QED BY <2>1 DEF HasPlace
<1>8. \A u \in Threads : IsLast(u)' => u = t
  <2>1. TAKE u \in Threads
  <2>2. SUFFICES ASSUME IsLast(u)', u # t PROVE FALSE
    OBVIOUS
  <2>3. Working(u) /\ bi(u)' = bi(u) /\ rd'.blockIndex = rd.blockIndex
    BY <2>2 DEF Looks, Others, IsLast, Working, Reading, bi
  <2> QED BY <1>1, <2>2, <2>3 DEF IsLast
<1>9. IsLast(t)'
  BY <1>1, <1>6 DEF IsLast, Looks
<1>10. NextPlace(b)'
  BY <1>8, <1>9 DEF NextPlace, Reaches
<1>11. B[rd.blockIndex - n] <= a
  BY <1>1, <1>2, <1>5 DEF Places
<1>12. Drained(B[rd.blockIndex - n]) => rd'.finished /\ rd'.pos = rd.pos /\ rd'.cross = << >>
  BY <1>11
<1>13. Placed(n, D)'
  BY <1>4, <1>5, <1>7, <1>10, <1>12, LookKeeps
<1> QED BY <1>13

(* What is known of the thread that looks for the end of its block.        *)
Looking(t, a) ==
  /\ a \in Nat /\ a <= rd.pos /\ Reader(t, a) /\ th[t].l.res = OK /\ IsSeq(th[t].l.outBuf)
  /\ ThreadOK(th[t]) /\ LocalOK(th[t].l) /\ Linked(t) /\ RdOK /\ InputOK
  /\ t \in DOMAIN th /\ t \in DOMAIN pc /\ bi(t) \in Nat /\ th[t].l.codeRes = OK
  /\ rd.finished => rd.res # OK \/ rd.pos = Len(input.bytes)

(* Every thread that reads or parses is such a thread, from where its block*)
(* begins.                                                                 *)
LEMMA LookingIs ==
  ASSUME Shape, Control, NEW n, NEW B, Placed(n, B), NEW t \in Threads, InBlock(t)
  PROVE  \E a : a = B[bi(t)] /\ Looking(t, a)
<1>1. Working(t) /\ pc[t] \in {"read", "parse"}
  BY DEF InBlock, Working, Reading
<1>2. /\ ThreadOK(th[t]) /\ LocalOK(th[t].l) /\ Linked(t) /\ RdOK /\ InputOK
      /\ t \in DOMAIN th /\ t \in DOMAIN pc /\ bi(t) \in Nat /\ th[t].l.codeRes = OK
  BY <1>1 DEF Shape, Control, Good, ThreadOK, LocalOK, bi, Flags
<1>3. HasPlace(t, B) /\ B \in [Nat -> Nat]
  BY <1>1 DEF Placed, Places
<1>4. PICK a : a = B[bi(t)]
  OBVIOUS
<1>5. a \in Nat /\ Reader(t, a) /\ th[t].l.res = OK /\ IsSeq(th[t].l.outBuf)
  BY <1>2, <1>3, <1>4 DEF HasPlace
<1>6. a <= rd.pos
  <2>1. rd.pos \in Nat
    BY <1>2 DEF RdOK
  <2>2. rd.cross \in Seq(Int) /\ th[t].l.size \in Int
    BY <1>2 DEF RdOK, LocalOK
  <2>f. Front(a) => a <= rd.pos
    BY <1>5, <2>1, <2>2 DEF Front
  <2>3. Holds(th[t].inBuf, a, th[t].l.start, th[t].l.size) => th[t].l.size >= 0
    <3>1. InBufSize \in Nat
      BY MtDecAssumption
    <3> QED BY <2>2, <3>1 DEF Holds
  <2>4. CASE pc[t] = "read"
    BY <1>5, <2>1, <2>2, <2>f, <2>3, <2>4 DEF Reader, AtRead
  <2>5. CASE pc[t] = "parse" /\ FromCross(t)
    BY <1>5, <2>f, <2>5 DEF Reader, AtCross
  <2>6. CASE pc[t] = "parse" /\ ~ FromCross(t)
    BY <1>5, <2>1, <2>2, <2>3, <2>6 DEF Reader, AtLink
  <2> QED BY <1>1, <2>4, <2>5, <2>6
<1> QED BY <1>2, <1>4, <1>5, <1>6 DEF Looking, Placed, Unbroken

(* An empty block holds nothing.                                           *)
LEMMA HoldsNothing ==
  ASSUME NEW buf, NEW a \in Int
  PROVE  Holds(buf, a, 0, 0)
<1>1. \A j \in Nat : j \in Int
  OBVIOUS
<1>2. \A j \in Nat : j >= 2 => Lk(j) \in Int /\ Lk(j) >= 0
  BY <1>1, LkOrder
<1>3. 0 - 0 = 0
  OBVIOUS
<1>4. Rest(buf, a + 0, 0)
  BY <1>2, MtDecAssumption DEF Rest
<1> QED BY <1>3, <1>4, MtDecAssumption DEF Holds

(* The end of the block is found, and stored in the thread's locals.       *)
LEMMA BlockFound ==
  ASSUME Shape, RdOK, RdOK', NEW w \in 0 .. MaxThreads, NEW n \in 0 .. MaxThreads, Round(w, n),
         NEW B, Placed(n, B), NEW t \in Threads, Looks(t), pc'[t] = "parsed",
         NEW a, a = B[bi(t)], NEW b \in Nat, a <= b, NEW m, th'[t].l = m, m.res = OK,
         m.outBuf = th[t].l.outBuf, IsSeq(th[t].l.outBuf), Sized(m, a, b), b <= rd'.pos,
         Holds(th'[t].inBuf, a, m.start, m.size), Reaches(t, b)',
         \A p : p <= a /\ Drained(p) => rd'.finished /\ rd'.pos = rd.pos /\ rd'.cross = << >>
  PROVE  \E C : Placed(n, C)'
<1>1. ~ InBlock(t)'
  BY DEF InBlock
<1>2. \A p : Outputs(p)' = Outputs(p)
  BY SameInput DEF Looks, Others
<1>3. HasBlock(t, a, b)'
  BY <1>2 DEF HasBlock, Sized
<1>4. (th[t].l.res = OK)' /\ IsSeq(th[t].l.outBuf)'
  OBVIOUS
<1> QED BY <1>1, <1>3, <1>4, LookEnds

(* ReadData cannot get a buffer: the block is left to the other decoder.   *)
LEMMA ReadNoLinkPlaced ==
  ASSUME Shape, Control, NEW w \in 0 .. MaxThreads, NEW n \in 0 .. MaxThreads, Round(w, n),
         NEW B, Placed(n, B), NEW t \in Threads, ReadNoLink(t)
  PROVE  \E C : Placed(n, C)'
<1>0. InBlock(t) /\ pc[t] = "read"
  BY DEF ReadNoLink, InBlock
<1>1. PICK a : a = B[bi(t)] /\ Looking(t, a)
  BY <1>0, LookingIs
<1> DEFINE l == th[t].l
           m == [l EXCEPT !.finish = TRUE, !.isAllocError = TRUE]
<1>2. th' = [th EXCEPT ![t].l = m] /\ pc' = [pc EXCEPT ![t] = "parsed"] /\ rd' = rd
      /\ wr' = wr /\ out' = out /\ input' = input
  BY DEF ReadNoLink, SetLocals, caller
<1>3. RdOK' /\ RdOK /\ Others(t)
  BY <1>1, ReadNoLinkControl, ThreadOthers DEF Thread, Looking
<1>4. LocalOK(l) /\ a \in Nat /\ l.start \in Int /\ l.size \in Int /\ rd.pos \in Nat
  BY <1>1 DEF Looking, LocalOK, RdOK
<1>5. /\ m.finish = TRUE /\ m.isAllocError = TRUE /\ m.needCode = l.needCode
      /\ m.state = l.state /\ m.size = l.size /\ m.start = l.start /\ m.inPreSize = l.inPreSize
      /\ m.codeRes = l.codeRes /\ m.coderRes = l.coderRes /\ m.outBuf = l.outBuf /\ m.res = l.res
      /\ m.blockIndex = l.blockIndex
  BY <1>4 DEF LocalOK
<1> HIDE DEF m
<1>6. th'[t].l = m /\ th'[t].inBuf = th[t].inBuf /\ pc'[t] = "parsed"
  BY <1>1, <1>2 DEF Looking, ThreadOK
<1>7. bi(t)' = bi(t) /\ Working(t)'
  BY <1>5, <1>6 DEF bi, Working, Reading
<1>8. Looks(t)
  <2>1. rd.finished => rd.res # OK \/ rd.pos = Len(input.bytes)
    BY <1>1 DEF Looking
  <2> QED BY <1>0, <1>2, <1>3, <1>4, <1>7, <2>1 DEF Looks
<1>9. Reader(t, a) /\ AtRead(t, a)
  BY <1>0, <1>1 DEF Looking, Reader
<1>b. PICK b : b = a + l.size
  OBVIOUS
<1>10. /\ b \in Nat /\ a <= b /\ b <= rd.pos /\ Front(b) /\ Holds(th[t].inBuf, a, l.start, l.size)
       /\ l.inPreSize = l.size
  <2>1. CASE l.links = 0
    <3>1. l.size = 0 /\ l.start = 0 /\ Front(a) /\ l.inPreSize = 0
      BY <1>9, <2>1 DEF AtRead
    <3>2. b = a
      BY <1>4, <1>b, <3>1
    <3> QED BY <1>1, <1>4, <3>1, <3>2, HoldsNothing DEF Looking
  <2>2. CASE l.links # 0
    <3>1. /\ rd.cross = << >> /\ rd.pos = b /\ Holds(th[t].inBuf, a, l.start, l.size)
          /\ l.inPreSize = l.size
      BY <1>9, <1>b, <2>2 DEF AtRead
    <3>2. b \in Nat /\ a <= b
      BY <1>1, <1>4, <3>1 DEF Looking
    <3>3. Front(b)
      BY <1>4, <3>1 DEF Front, RunFrom
    <3> QED BY <1>4, <3>1, <3>2, <3>3
  <2> QED BY <2>1, <2>2
<1>11. Sized(m, a, b)
  BY <1>4, <1>5, <1>9, <1>b, <1>10 DEF Sized, Reader, Unparsed, LeftToOther, NoMemory, OK
<1>12. Reaches(t, b)'
  <2>1. Front(b)'
    BY <1>2, <1>10 DEF Front
  <2>2. Unleveled(t)' /\ ~ RunsDry(t)'
    BY <1>5, <1>6, <1>9 DEF Unleveled, RunsDry, Reader, Unparsed
  <2> QED BY <2>1, <2>2 DEF Reaches
<1>13. \A p : p <= a /\ Drained(p) => rd'.finished /\ rd'.pos = rd.pos /\ rd'.cross = << >>
  BY <1>2 DEF Drained
<1>14. m.res = OK /\ m.outBuf = l.outBuf /\ IsSeq(l.outBuf) /\ b <= rd'.pos
       /\ Holds(th'[t].inBuf, a, m.start, m.size)
  BY <1>1, <1>2, <1>5, <1>6, <1>10 DEF Looking
<1> QED BY <1>1, <1>3, <1>6, <1>8, <1>10, <1>11, <1>12, <1>13, <1>14, BlockFound

(* ReadData takes the crossBlock.                                          *)
LEMMA ReadCrossPlaced ==
  ASSUME Shape, Control, NEW w \in 0 .. MaxThreads, NEW n \in 0 .. MaxThreads, Round(w, n),
         NEW B, Placed(n, B), NEW t \in Threads, ReadCross(t)
  PROVE  Placed(n, B)'
<1>0. InBlock(t) /\ pc[t] = "read" /\ FromCross(t)
  BY DEF ReadCross, InBlock
<1>1. PICK a : a = B[bi(t)] /\ Looking(t, a)
  BY <1>0, LookingIs
<1> DEFINE l == th[t].l
           size == Len(rd.cross)
           m == [l EXCEPT !.size = size, !.start = size]
<1>2. /\ th' = [th EXCEPT ![t] = [@ EXCEPT !.l = m, !.inBuf = LinkFilled(t, << >>)]]
      /\ pc' = [pc EXCEPT ![t] = "parse"] /\ rd' = rd
      /\ wr' = wr /\ out' = out /\ input' = input
  BY <1>1 DEF ReadCross, caller, Looking, ThreadOK, LocalOK
<1>3. RdOK' /\ RdOK /\ Others(t)
  BY <1>1, ReadCrossControl, ThreadOthers DEF Thread, Looking
<1>4. LocalOK(l) /\ rd.pos \in Nat /\ l.links = 0 /\ size \in Nat
  BY <1>0, <1>1 DEF Looking, LocalOK, RdOK, FromCross, Links
<1>5. /\ m.finish = l.finish /\ m.needCode = l.needCode /\ m.isAllocError = l.isAllocError
      /\ m.overflow = l.overflow /\ m.threadingError = l.threadingError
      /\ m.state = l.state /\ m.size = size /\ m.start = size /\ m.inPreSize = l.inPreSize
      /\ m.codeRes = l.codeRes /\ m.coderRes = l.coderRes /\ m.outBuf = l.outBuf /\ m.res = l.res
      /\ m.blockIndex = l.blockIndex /\ m.links = l.links /\ m.outPreSize = l.outPreSize
  BY <1>4 DEF LocalOK
<1> HIDE DEF m
<1>6. th'[t].l = m /\ pc'[t] = "parse"
  BY <1>1, <1>2 DEF Looking, ThreadOK
<1>7. bi(t)' = bi(t) /\ Working(t)' /\ InBlock(t)'
  BY <1>5, <1>6 DEF bi, Working, Reading, InBlock
<1>8. Looks(t)
  <2>1. rd.finished => rd.res # OK \/ rd.pos = Len(input.bytes)
    BY <1>1 DEF Looking
  <2> QED BY <1>0, <1>2, <1>3, <1>4, <1>7, <2>1 DEF Looks
<1>9. /\ Reader(t, a) /\ AtRead(t, a) /\ Front(a) /\ l.inPreSize = 0 /\ l.outPreSize = 0
  BY <1>0, <1>1, <1>4 DEF Looking, Reader, AtRead
<1>10. FromCross(t)' /\ AtCross(t, a)'
  BY <1>0, <1>2, <1>4, <1>5, <1>6, <1>9 DEF FromCross, Links, AtCross, Front
<1>11. Level(a)'
  <2>1. \A p : Outputs(p)' = Outputs(p)
    BY <1>2, SameInput
  <2> QED BY <1>2, <1>9, <2>1 DEF Reader, Level, Drained
<1>12. Reader(t, a)'
  BY <1>2, <1>5, <1>6, <1>9, <1>10, <1>11 DEF Reader, Unparsed, LeftToOther, NoMemory
<1>13. (th[t].l.res = OK)' /\ IsSeq(th[t].l.outBuf)'
  BY <1>1, <1>5, <1>6 DEF Looking
<1>14. \A p : p <= a /\ Drained(p) => rd'.finished /\ rd'.pos = rd.pos /\ rd'.cross = << >>
  BY <1>2 DEF Drained
<1> QED BY <1>1, <1>3, <1>7, <1>8, <1>12, <1>13, <1>14, LooksOn

(* What a read of the stream gives.                                        *)
LEMMA ReadMaxIs ==
  ASSUME InputOK, RdOK, NEW k \in Nat, NEW ok \in BOOLEAN, ReadMax(k, ok),
         rd.finished => rd.res # OK \/ rd.pos = Len(input.bytes),
         NEW f \in BOOLEAN, f <=> rd.finished \/ ~ ok \/ k # InBufSize,
         NEW res, res = IF ok THEN rd.res ELSE "READ"
  PROVE  /\ k <= InBufSize /\ rd.pos + k <= Len(input.bytes)
         /\ rd.finished => k = 0
         /\ f => res # OK \/ rd.pos + k = Len(input.bytes)
<1>1. Len(input.bytes) \in Nat /\ rd.pos \in 0 .. Len(input.bytes) /\ InBufSize \in Nat
      /\ rd.res \in {OK, "READ"}
  BY MtDecAssumption DEF InputOK, RdOK, Streams
<1> QED BY <1>1 DEF ReadMax, Smaller, OK

(* ReadData reads a link of the stream: the block goes on, or is broken    *)
(* off as a block before it failed.                                        *)
LEMMA ReadLinkPlaced ==
  ASSUME Shape, Control, NEW w \in 0 .. MaxThreads, NEW n \in 0 .. MaxThreads, Round(w, n),
         NEW B, Placed(n, B), NEW t \in Threads, ReadLink(t), sync'.res = OK
  PROVE  \E C : Placed(n, C)'
<1>0. InBlock(t) /\ pc[t] = "read" /\ ~ FromCross(t)
  BY DEF ReadLink, InBlock
<1>1. PICK a : a = B[bi(t)] /\ Looking(t, a)
  BY <1>0, LookingIs
<1> DEFINE l == th[t].l
           size(k)    == l.size + k
           finish(k, ok) == ~ ok \/ k # InBufSize
           checks(k)  == size(k) # l.checked
           was(k)     == checks(k) /\ InterruptedBefore(l.blockIndex)
           res(k, r)  == IF checks(k) THEN r ELSE OK
           mm(k, ok, r) == [l EXCEPT !.size = size(k), !.checked = size(k), !.last = k,
                                     !.start = IF Links(t) = 0 THEN k ELSE @,
                                     !.finish = finish(k, ok), !.res = res(k, r),
                                     !.wasInterrupted = was(k)]
<1>2. PICK k \in 0 .. InBufSize, ok \in BOOLEAN, r \in ProgressResults :
        /\ ReadMax(k, ok)
        /\ checks(k) \/ r = sync.res
        /\ rd' = [rd EXCEPT !.pos = @ + k, !.finished = @ \/ finish(k, ok),
                            !.res = IF ok THEN @ ELSE "READ"]
        /\ sync' = [sync EXCEPT !.res = r]
        /\ th' = [th EXCEPT ![t] = [@ EXCEPT !.inBuf = LinkFilled(t, NextBytes(k)), !.l = mm(k, ok, r)]]
        /\ pc' = [pc EXCEPT ![t] = IF res(k, r) = OK /\ ~ was(k) THEN "parse" ELSE "parsed"]
  BY DEF ReadLink
<1> DEFINE m == mm(k, ok, r)
           buf == LinkFilled(t, NextBytes(k))
<1>3. RdOK' /\ RdOK /\ Others(t) /\ wr' = wr /\ out' = out /\ input' = input /\ InputOK
  BY <1>1, ReadLinkControl, ThreadOthers DEF Thread, Looking, ReadLink, caller
<1>4. LocalOK(l) /\ rd.pos \in Nat /\ l.links \in Nat /\ k \in Nat /\ InBufSize \in Nat
      /\ l.size \in Int /\ l.start \in Int /\ Links(t) = l.links /\ a \in Nat
  BY <1>0, <1>1, MtDecAssumption DEF Looking, LocalOK, RdOK, Links
<1>5. /\ m.finish = finish(k, ok) /\ m.needCode = l.needCode /\ m.isAllocError = l.isAllocError
      /\ m.overflow = l.overflow /\ m.threadingError = l.threadingError
      /\ m.state = l.state /\ m.size = l.size + k /\ m.start = (IF l.links = 0 THEN k ELSE l.start)
      /\ m.inPreSize = l.inPreSize /\ m.last = k /\ m.wasInterrupted = was(k)
      /\ m.codeRes = l.codeRes /\ m.coderRes = l.coderRes /\ m.outBuf = l.outBuf /\ m.res = res(k, r)
      /\ m.blockIndex = l.blockIndex /\ m.links = l.links /\ m.outPreSize = l.outPreSize
  <2> HIDE DEF finish, was, res
  <2> QED BY <1>4 DEF LocalOK
<1>6. r = OK /\ res(k, r) = OK
  BY <1>2, <1>3 DEF Control, SyncOK
<1>7. /\ th'[t].l = m /\ th'[t].inBuf = buf
      /\ pc'[t] = IF was(k) THEN "parsed" ELSE "parse"
  BY <1>1, <1>2, <1>6 DEF Looking, ThreadOK
<1>8. /\ rd'.pos = rd.pos + k /\ rd'.cross = rd.cross /\ rd'.outParsed = rd.outParsed
      /\ (rd'.finished <=> rd.finished \/ ~ ok \/ k # InBufSize) /\ rd'.finished \in BOOLEAN
      /\ rd'.res = (IF ok THEN rd.res ELSE "READ") /\ rd'.blockIndex = rd.blockIndex
  <2>1. finish(k, ok) \in BOOLEAN /\ rd.finished \in BOOLEAN
    BY <1>3 DEF RdOK
  <2>2. rd'.finished = (rd.finished \/ finish(k, ok))
    BY <1>2, <1>3 DEF RdOK
  <2> QED BY <1>2, <1>3, <2>1, <2>2 DEF RdOK
<1> HIDE DEF m, buf, mm
<1>9. /\ rd.finished => k = 0
      /\ rd'.finished => rd'.res # OK \/ rd'.pos = Len(input.bytes)
  <2>1. rd.finished => rd.res # OK \/ rd.pos = Len(input.bytes)
    BY <1>1 DEF Looking
  <2> QED BY <1>2, <1>3, <1>4, <1>8, <2>1, ReadMaxIs
<1>10. bi(t)' = bi(t) /\ Working(t)'
  BY <1>5, <1>7 DEF bi, Working, Reading
<1>11. Looks(t)
  BY <1>0, <1>3, <1>4, <1>8, <1>9, <1>10 DEF Looks
<1>12. Reader(t, a) /\ AtRead(t, a) /\ Unparsed(l) /\ Level(a)
  BY <1>0, <1>1 DEF Looking, Reader
<1>13. PICK b : b = a + m.size
  OBVIOUS
<1>14. /\ rd.cross = << >> /\ rd.pos = a + l.size /\ l.inPreSize = l.size
       /\ Holds(buf, a, m.start, m.size)
       /\ l.links = 0 => l.size = 0 /\ l.outPreSize = 0
       /\ l.links # 0 => /\ l.start > 0 /\ l.size = l.start + Lk(l.links + 1)
                         /\ l.outPreSize = Outputs(a + l.size) - Outputs(a)
  <2>1. NextBytes(k) \in Seq(Int) /\ Len(NextBytes(k)) = k /\ RunFrom(NextBytes(k), rd.pos)
    BY <1>3, <1>4, NextBytesType DEF RunFrom
  <2>2. ThreadOK(th[t]) /\ Links(t) <= Len(th[t].inBuf)
    BY <1>0, <1>1 DEF Looking, Linked
  <2>3. Len(NextBytes(k)) <= InBufSize
    BY <1>2, <1>4, <2>1
  <2>4. CASE l.links = 0
    <3>1. l.size = 0 /\ l.inPreSize = 0 /\ l.outPreSize = 0 /\ Front(a)
      BY <1>12, <2>4 DEF AtRead
    <3>2. rd.cross = << >>
      BY <1>0, <1>4, <2>4 DEF FromCross
    <3>3. rd.pos = a
      BY <1>4, <3>1, <3>2 DEF Front
    <3>4. Holds(buf, a, k, k)
      BY <1>4, <2>1, <2>2, <2>3, <2>4, <3>3, HoldsFirst DEF buf
    <3>5. m.start = k /\ m.size = k
      BY <1>4, <1>5, <2>4, <3>1
    <3> QED BY <1>4, <2>4, <3>1, <3>2, <3>3, <3>4, <3>5
  <2>5. CASE l.links # 0
    <3>1. /\ rd.cross = << >> /\ rd.pos = a + l.size
          /\ l.start > 0 /\ l.size = l.start + Lk(l.links + 1) /\ l.inPreSize = l.size
          /\ Holds(th[t].inBuf, a, l.start, l.size)
          /\ l.outPreSize = Outputs(a + l.size) - Outputs(a)
      BY <1>12, <2>5 DEF AtRead
    <3>2. Links(t) > 0 /\ l.size = l.start + Lk(Links(t) + 1) /\ RunFrom(NextBytes(k), a + l.size)
      BY <1>4, <2>1, <2>5, <3>1
    <3>3. Holds(buf, a, l.start, l.size + Len(NextBytes(k)))
      <4>1. PICK s, x, y : s = NextBytes(k) /\ x = l.start /\ y = l.size
        OBVIOUS
      <4>2. /\ s \in Seq(Int) /\ Len(s) <= InBufSize /\ RunFrom(s, a + y) /\ a \in Int
            /\ x \in Int /\ y \in Int /\ x > 0 /\ y = x + Lk(Links(t) + 1)
            /\ Holds(th[t].inBuf, a, x, y)
        BY <1>4, <2>1, <2>3, <3>1, <3>2, <4>1
      <4>3. Holds(LinkFilled(t, s), a, x, y + Len(s))
        BY <2>2, <3>2, <4>2, HoldsMore
      <4> QED BY <4>1, <4>3 DEF buf
    <3>4. m.start = l.start /\ m.size = l.size + Len(NextBytes(k))
      BY <1>5, <2>1, <2>5
    <3>5. Holds(buf, a, m.start, m.size)
      BY <3>3, <3>4
    <3> QED BY <2>5, <3>1, <3>5
  <2> QED BY <2>4, <2>5
<1>15. b = rd'.pos /\ b \in Nat /\ a <= b
  <2>1. a <= rd.pos
    BY <1>1 DEF Looking
  <2>2. m.size = l.size + k /\ rd'.pos = rd.pos + k /\ rd.pos = a + l.size /\ b = a + m.size
    BY <1>5, <1>8, <1>13, <1>14
  <2>3. a \in Nat /\ k \in Nat /\ l.size \in Int /\ rd.pos \in Nat
    BY <1>4
  <2> QED BY <2>1, <2>2, <2>3
<1>16. \A p : Outputs(p)' = Outputs(p)
  BY <1>3, SameInput
<1>17. \A p : p <= a /\ Drained(p) => rd'.finished /\ rd'.pos = rd.pos /\ rd'.cross = << >>
  BY <1>4, <1>8, <1>9 DEF Drained
<1>18. (th[t].l.res = OK)' /\ IsSeq(th[t].l.outBuf)' /\ IsSeq(th[t].l.outBuf)
  BY <1>1, <1>5, <1>6, <1>7 DEF Looking
<1>19. CASE was(k)
  <2>1. pc'[t] = "parsed" /\ m.wasInterrupted
    BY <1>5, <1>7, <1>19
  <2>2. Sized(m, a, b)
    BY <1>4, <1>5, <1>12, <1>13, <1>14, <2>1 DEF Sized, Unparsed, LeftToOther, NoMemory, OK
  <2>3. Reaches(t, b)'
    <3>1. Front(b)'
      BY <1>4, <1>8, <1>14, <1>15 DEF Front, RunFrom
    <3>2. Unleveled(t)' /\ ~ RunsDry(t)'
      BY <1>5, <1>7, <1>12, <2>1 DEF Unleveled, RunsDry, Unparsed
    <3> QED BY <3>1, <3>2 DEF Reaches
  <2>4. m.res = OK /\ m.outBuf = l.outBuf /\ b <= rd'.pos /\ Holds(th'[t].inBuf, a, m.start, m.size)
    BY <1>5, <1>6, <1>7, <1>14, <1>15
  <2> QED BY <1>1, <1>3, <1>7, <1>11, <1>15, <1>17, <1>18, <2>1, <2>2, <2>3, <2>4, BlockFound
<1>20. CASE ~ was(k)
  <2>1. pc'[t] = "parse" /\ InBlock(t)'
    BY <1>7, <1>20 DEF InBlock
  <2>2. ~ FromCross(t)'
    BY <1>8, <1>14 DEF FromCross
  <2>3. /\ m.inPreSize = m.size - m.last /\ m.size \in Int /\ m.inPreSize = l.size
        /\ IF m.links = 0 THEN m.size = m.last /\ m.start = m.last
           ELSE m.start > 0 /\ m.size = m.start + Lk(m.links + 1) + m.last
    <3>1. m.size = l.size + k /\ m.last = k /\ l.inPreSize = l.size /\ m.inPreSize = l.inPreSize
          /\ m.links = l.links
      BY <1>5, <1>14
    <3>2. CASE l.links = 0
      BY <1>4, <1>5, <1>14, <3>1, <3>2
    <3>3. CASE l.links # 0
      <4>1. m.start = l.start /\ l.start > 0 /\ l.size = l.start + Lk(l.links + 1)
        BY <1>5, <1>14, <3>3
      <4>2. Lk(l.links + 1) \in Int
        BY <1>4, LkOrder
      <4> QED BY <1>4, <3>1, <3>3, <4>1, <4>2
    <3> QED BY <3>2, <3>3
  <2>4. m.outPreSize = Outputs(a + m.inPreSize) - Outputs(a)
    <3>1. CASE l.links = 0
      <4>1. a + 0 = a /\ m.outPreSize = 0 /\ m.inPreSize = 0
        BY <1>4, <1>5, <1>14, <2>3, <3>1
      <4>2. Outputs(a) \in Nat
        BY <1>4, OutputsNext
      <4> QED BY <4>1, <4>2
    <3>2. CASE l.links # 0
      BY <1>5, <1>14, <2>3, <3>2
    <3> QED BY <3>1, <3>2
  <2>5. ~ m.finish => m.last = InBufSize
    BY <1>5
  <2>6. AtLink(t, a)'
    <3>1. rd'.cross = << >> /\ rd'.pos = a + m.size
      BY <1>8, <1>13, <1>14, <1>15
    <3> QED BY <1>7, <1>14, <1>16, <2>3, <2>4, <2>5, <3>1 DEF AtLink
  <2>7. Level(a)'
    BY <1>4, <1>8, <1>9, <1>12, <1>16 DEF Level, Drained
  <2>8. m.finish => rd'.finished
    BY <1>5, <1>8
  <2>9. Unparsed(m)
    BY <1>5, <1>12 DEF Unparsed, LeftToOther, NoMemory
  <2>10. Reader(t, a)'
    BY <1>7, <2>1, <2>2, <2>6, <2>7, <2>8, <2>9 DEF Reader
  <2>11. Placed(n, B)'
    BY <1>1, <1>3, <1>11, <1>17, <1>18, <2>1, <2>10, LooksOn
  <2> QED BY <2>11
<1> QED BY <1>19, <1>20

(* What every case of the Parse loop stores.                               *)
ParsedLike(m, l, p) ==
  /\ m.needWrite = TRUE /\ m.state = p.state /\ m.inPreSize = l.inPreSize + p.used
  /\ m.outPreSize = p.out /\ m.outBuf = l.outBuf /\ m.coderRes = l.coderRes
  /\ m.codeRes = l.codeRes /\ m.res = l.res /\ m.threadingError = l.threadingError

(* Whatever the parser found, its answer is stored so.                     *)
LEMMA AfterParseLike ==
  ASSUME NEW l, LocalOK(l), NEW p, NEW m, m = AfterParse(l, p)
  PROVE  /\ ParsedLike(m, l, p) /\ DOMAIN m = DOMAIN l
         /\ m.links = l.links /\ m.size = l.size /\ m.start = l.start
         /\ m.isAllocError = l.isAllocError /\ m.overflow = l.overflow
         /\ m.needCode = l.needCode /\ m.finish = l.finish
BY DEF AfterParse, LocalOK, ParsedLike

(* A step of the Parse loop, whatever it finds.                            *)
LEMMA ParseLooks ==
  ASSUME Shape, Control, NEW t \in Threads, NEW a, Looking(t, a),
         ParseOverflow(t) \/ ParseContinue(t) \/ ParseEnd(t) \/ ParseNew(t)
  PROVE  /\ RdOK' /\ Looks(t) /\ UNCHANGED <<wr, out, input>> /\ InBlock(t) /\ pc[t] = "parse"
         /\ rd'.pos = rd.pos /\ rd'.finished = rd.finished
         /\ Given(t, a) /\ Found(t, a) /\ Reader(t, a)
<1>1. pc[t] = "parse" /\ InBlock(t)
  BY DEF ParseOverflow, ParseContinue, ParseEnd, ParseNew, InBlock
<1>2. RdOK' /\ Others(t) /\ Reads(t)
  BY ParseControl, ThreadOthers, ReadSteps DEF Thread
<1>3. UNCHANGED <<wr, out, input>>
  BY DEF ParseOverflow, ParseContinue, ParseEnd, ParseNew, StoreParsed, caller
<1>4. /\ rd'.pos = rd.pos /\ rd'.finished = rd.finished /\ rd'.res = rd.res
  <2>1. RdOK
    BY DEF Looking
  <2> QED BY <2>1 DEF ParseOverflow, ParseContinue, ParseEnd, ParseNew, RdOK
<1>5. bi(t)' = bi(t) /\ rd'.blockIndex = rd.blockIndex /\ Working(t)'
  BY <1>2 DEF Reads, Moves, bi, Working, Reading
<1>6. /\ rd.finished => rd.res # OK \/ rd.pos = Len(input.bytes)
      /\ rd.pos <= rd.pos
  BY DEF Looking, RdOK
<1>7. Looks(t)
  BY <1>1, <1>2, <1>3, <1>4, <1>5, <1>6 DEF Looks
<1>8. a \in Nat /\ RdOK /\ InputOK /\ ThreadOK(th[t]) /\ Linked(t) /\ Reader(t, a)
  BY DEF Looking
<1>9. Given(t, a)
  BY <1>1, <1>8, ParseGiven
<1>10. Found(t, a)
  BY <1>1, <1>8, <1>9, ParseFinds
<1> QED BY <1>1, <1>2, <1>3, <1>4, <1>7, <1>8, <1>9, <1>10

(* What it stores.                                                         *)
LEMMA ParseStores ==
  ASSUME NEW t \in Threads, NEW a, Looking(t, a), NEW k, NEW m, NEW next,
         StoreParsed(t, k, m, next)
  PROVE  th'[t].l = m /\ th'[t].inBuf = OwnLinks(t, k) /\ pc'[t] = next
BY DEF StoreParsed, Looking, ThreadOK

(* The block is too large: all of it is left.                              *)
LEMMA ParseOverflowPlaced ==
  ASSUME Shape, Control, NEW w \in 0 .. MaxThreads, NEW n \in 0 .. MaxThreads, Round(w, n),
         NEW B, Placed(n, B), NEW t \in Threads, ParseOverflow(t)
  PROVE  \E C : Placed(n, C)'
<1>0. InBlock(t)
  BY DEF ParseOverflow, InBlock
<1>1. PICK a : a = B[bi(t)] /\ Looking(t, a)
  BY <1>0, LookingIs
<1>2. /\ RdOK' /\ Looks(t) /\ UNCHANGED <<wr, out, input>> /\ InBlock(t) /\ pc[t] = "parse"
      /\ rd'.pos = rd.pos /\ rd'.finished = rd.finished
      /\ Given(t, a) /\ Found(t, a) /\ Reader(t, a)
  BY <1>1, ParseLooks
<1> DEFINE l == th[t].l
           p == Parsed(t)
           q == AfterParse(l, p)
           m == [q EXCEPT !.finish = TRUE, !.overflow = TRUE]
           src == Src(t)
<1>3. /\ LocalOK(l) /\ RdOK /\ a \in Nat /\ IsSeq(l.outBuf) /\ l.res = OK
  BY <1>1 DEF Looking
<1>4. /\ ParsedLike(m, l, p) /\ m.size = l.size /\ m.start = l.start
      /\ m.finish = TRUE /\ m.overflow = TRUE /\ m.needCode = l.needCode
  <2>1. /\ ParsedLike(q, l, p) /\ DOMAIN q = DOMAIN l /\ q.size = l.size /\ q.start = l.start
        /\ q.needCode = l.needCode
    BY <1>3, AfterParseLike
  <2> HIDE DEF q
  <2> QED BY <1>3, <2>1 DEF LocalOK, ParsedLike
<1>5. /\ StoreParsed(t, Len(src), m, "parsed")
      /\ rd' = [rd EXCEPT !.cross = << >>] /\ p.state = "OVERFLOW"
  BY DEF ParseOverflow
<1> HIDE DEF m, q, p, src
<1>6. th'[t].l = m /\ th'[t].inBuf = OwnLinks(t, Len(src)) /\ pc'[t] = "parsed"
  BY <1>1, <1>5, ParseStores
<1>7. rd'.cross = << >> /\ rd'.outParsed = rd.outParsed
  BY <1>3, <1>5 DEF RdOK
<1>8. /\ Len(src) \in Nat /\ l.inPreSize \in Nat /\ l.size = l.inPreSize + Len(src)
      /\ rd.pos = a + l.inPreSize + Len(src) /\ p.used \in 0 .. Len(src)
      /\ l.links \in Nat /\ (l.links = 0 => l.start = Len(src)) /\ l.start \in Int
  BY <1>2 DEF Given, Found, p, src
<1>9. PICK b : b = a + l.size
  OBVIOUS
<1>10. b \in Nat /\ a <= b /\ b = rd.pos /\ l.size \in Nat
  <2>1. PICK x, y : x = l.inPreSize /\ y = Len(src)
    OBVIOUS
  <2>2. x \in Nat /\ y \in Nat /\ a \in Nat /\ l.size = x + y /\ rd.pos = a + x + y /\ b = a + l.size
    BY <1>3, <1>8, <1>9, <2>1
  <2> HIDE DEF l
  <2> QED BY <2>2
<1>11. Holds(OwnLinks(t, Len(src)), a, l.start, l.size)
  <2>1. ThreadOK(th[t]) /\ Linked(t) /\ Len(src) \in 0 .. Len(src)
    BY <1>1, <1>8 DEF Looking
  <2>2. Holds(OwnLinks(t, Len(src)), a, IF l.links = 0 THEN Len(src) ELSE l.start,
              l.inPreSize + Len(src))
    BY <1>2, <1>3, <2>1, OwnHolds DEF src
  <2>3. (IF l.links = 0 THEN Len(src) ELSE l.start) = l.start
    BY <1>8
  <2> QED BY <1>8, <2>2, <2>3
<1>12. Unparsed(l)
  BY <1>2 DEF Reader
<1>13. Sized(m, a, b)
  <2>1. m.inPreSize <= m.size
    BY <1>4, <1>8 DEF ParsedLike
  <2>2. m.state # "NEW" /\ ~ m.needCode /\ m.coderRes = OK /\ LeftToOther(m)
    BY <1>4, <1>5, <1>12 DEF ParsedLike, Unparsed, LeftToOther
  <2> QED BY <1>4, <1>9, <2>1, <2>2 DEF Sized
<1>14. Reaches(t, b)'
  <2>1. Front(b)'
    BY <1>2, <1>7, <1>10 DEF Front, RunFrom
  <2>2. Unleveled(t)' /\ ~ RunsDry(t)'
    BY <1>4, <1>6, <1>12 DEF Unleveled, RunsDry, Unparsed
  <2> QED BY <2>1, <2>2 DEF Reaches
<1>15. m.res = OK /\ m.outBuf = l.outBuf /\ b <= rd'.pos /\ Holds(th'[t].inBuf, a, m.start, m.size)
  BY <1>2, <1>3, <1>4, <1>6, <1>10, <1>11 DEF ParsedLike
<1>16. \A x : x <= a /\ Drained(x) => rd'.finished /\ rd'.pos = rd.pos /\ rd'.cross = << >>
  BY <1>2, <1>7 DEF Drained
<1> QED BY <1>1, <1>2, <1>3, <1>6, <1>10, <1>13, <1>14, <1>15, <1>16, BlockFound

(* The block goes on in the next link.                                     *)
LEMMA ParseContinuePlaced ==
  ASSUME Shape, Control, NEW w \in 0 .. MaxThreads, NEW n \in 0 .. MaxThreads, Round(w, n),
         NEW B, Placed(n, B), NEW t \in Threads, ParseContinue(t)
  PROVE  Placed(n, B)'
<1>0. InBlock(t)
  BY DEF ParseContinue, InBlock
<1>1. PICK a : a = B[bi(t)] /\ Looking(t, a)
  BY <1>0, LookingIs
<1>2. /\ RdOK' /\ Looks(t) /\ UNCHANGED <<wr, out, input>> /\ InBlock(t) /\ pc[t] = "parse"
      /\ rd'.pos = rd.pos /\ rd'.finished = rd.finished
      /\ Given(t, a) /\ Found(t, a) /\ Reader(t, a)
  BY <1>1, ParseLooks
<1> DEFINE l == th[t].l
           p == Parsed(t)
           q == AfterParse(l, p)
           m == [q EXCEPT !.links = @ + 1]
           src == Src(t)
<1>3. /\ LocalOK(l) /\ RdOK /\ a \in Nat /\ IsSeq(l.outBuf) /\ l.res = OK
  BY <1>1 DEF Looking
<1>4. /\ ParsedLike(m, l, p) /\ m.size = l.size /\ m.start = l.start /\ m.links = l.links + 1
      /\ m.finish = l.finish /\ m.needCode = l.needCode /\ m.overflow = l.overflow
      /\ m.isAllocError = l.isAllocError
  <2>1. /\ ParsedLike(q, l, p) /\ DOMAIN q = DOMAIN l /\ q.size = l.size /\ q.start = l.start
        /\ q.needCode = l.needCode /\ q.links = l.links /\ q.finish = l.finish
        /\ q.overflow = l.overflow /\ q.isAllocError = l.isAllocError
    BY <1>3, AfterParseLike
  <2> HIDE DEF q
  <2> QED BY <1>3, <2>1 DEF LocalOK, ParsedLike
<1>5. /\ StoreParsed(t, p.used, m, "read")
      /\ rd' = [rd EXCEPT !.cross = << >>] /\ p.state = "CONTINUE" /\ ~ l.finish
  BY DEF ParseContinue
<1> HIDE DEF m, q, p, src
<1>6. th'[t].l = m /\ th'[t].inBuf = OwnLinks(t, p.used) /\ pc'[t] = "read"
  BY <1>1, <1>5, ParseStores
<1>7. rd'.cross = << >> /\ rd'.outParsed = rd.outParsed
  BY <1>3, <1>5 DEF RdOK
<1>8. /\ Len(src) \in Nat /\ l.inPreSize \in Nat /\ l.size = l.inPreSize + Len(src)
      /\ rd.pos = a + l.inPreSize + Len(src) /\ p.used = Len(src) /\ l.start \in Int
      /\ l.links \in Nat /\ (l.links = 0 => l.start = Len(src) /\ l.inPreSize = 0)
      /\ l.links > 0 => l.start > 0 /\ l.size = l.start + Lk(l.links + 1) + Len(src)
      /\ FromCross(t) => l.links = 0 /\ Len(src) > 0
      /\ ~ FromCross(t) => Len(src) = InBufSize
      /\ p.out = Outputs(a + l.inPreSize + p.used) - Outputs(a)
  BY <1>2, <1>5 DEF Given, Found, p, src
<1>9. l.size \in Nat /\ rd.pos = a + l.size /\ m.inPreSize = l.size
      /\ m.outPreSize = Outputs(a + l.size) - Outputs(a)
  <2>1. l.size \in Nat /\ rd.pos = a + l.size /\ m.inPreSize = l.size
    <3>1. PICK x, y : x = l.inPreSize /\ y = Len(src)
      OBVIOUS
    <3>2. x \in Nat /\ y \in Nat /\ a \in Nat /\ l.size = x + y /\ rd.pos = a + x + y
          /\ m.inPreSize = x + y
      BY <1>3, <1>4, <1>8, <3>1 DEF ParsedLike
    <3> HIDE DEF l
    <3> QED BY <3>2
  <2>2. m.outPreSize = p.out /\ a + l.inPreSize + p.used = a + l.size
    BY <1>3, <1>4, <1>8 DEF ParsedLike
  <2> QED BY <1>8, <2>1, <2>2
<1>10. Len(src) > 0
  BY <1>8, MtDecAssumption
<1>11. m.start > 0 /\ m.size = m.start + Lk(m.links + 1)
  <2>1. CASE l.links = 0
    <3>1. m.links + 1 = 2 /\ m.start = Len(src) /\ m.size = Len(src)
      BY <1>4, <1>8, <2>1
    <3>2. Lk(2) = 0
      BY LkOrder
    <3> QED BY <1>8, <1>10, <3>1, <3>2
  <2>2. CASE l.links # 0
    <3>1. Len(src) = InBufSize /\ l.start > 0 /\ l.size = l.start + Lk(l.links + 1) + Len(src)
      BY <1>8, <2>2
    <3>2. l.links + 1 \in Int /\ m.links + 1 = (l.links + 1) + 1
      BY <1>4, <1>8
    <3>3. Lk(m.links + 1) = Lk(l.links + 1) + InBufSize /\ Lk(l.links + 1) \in Int
      BY <3>2, LkNext
    <3>4. l.start \in Int /\ InBufSize \in Int
      BY <1>8, MtDecAssumption
    <3> QED BY <1>4, <3>1, <3>3, <3>4
  <2> QED BY <2>1, <2>2
<1>12. Holds(OwnLinks(t, p.used), a, m.start, m.size)
  <2>1. ThreadOK(th[t]) /\ Linked(t) /\ Len(src) \in 0 .. Len(src)
    BY <1>1, <1>8 DEF Looking
  <2>2. Holds(OwnLinks(t, Len(src)), a, IF l.links = 0 THEN Len(src) ELSE l.start,
              l.inPreSize + Len(src))
    BY <1>2, <1>3, <2>1, OwnHolds DEF src
  <2>3. (IF l.links = 0 THEN Len(src) ELSE l.start) = m.start
    BY <1>4, <1>8
  <2> QED BY <1>4, <1>8, <2>2, <2>3
<1>13. \A x : Outputs(x)' = Outputs(x)
  BY <1>2, SameInput
<1>14. AtRead(t, a)'
  <2>1. m.links # 0
    BY <1>4, <1>8
  <2>2. rd'.cross = << >> /\ rd'.pos = a + m.size
    BY <1>2, <1>4, <1>7, <1>9
  <2>3. m.inPreSize = m.size /\ m.outPreSize = Outputs(a + m.size) - Outputs(a)
    BY <1>4, <1>9
  <2> QED BY <1>6, <1>11, <1>12, <1>13, <2>1, <2>2, <2>3 DEF AtRead
<1>15. Level(a)'
  <2>1. Level(a)
    BY <1>2 DEF Reader
  <2> QED BY <1>2, <1>7, <1>13, <2>1 DEF Level, Drained
<1>16. Reader(t, a)'
  <2>1. Unparsed(l) /\ (l.finish => rd.finished)
    BY <1>2 DEF Reader
  <2>2. Unparsed(m)
    BY <1>4, <1>5, <2>1 DEF Unparsed, LeftToOther, NoMemory, ParsedLike
  <2> QED BY <1>2, <1>4, <1>6, <1>14, <1>15, <2>1, <2>2 DEF Reader
<1>17. (th[t].l.res = OK)' /\ IsSeq(th[t].l.outBuf)' /\ InBlock(t)'
  BY <1>3, <1>4, <1>6 DEF ParsedLike, InBlock
<1>18. \A x : x <= a /\ Drained(x) => rd'.finished /\ rd'.pos = rd.pos /\ rd'.cross = << >>
  BY <1>2, <1>7 DEF Drained
<1> QED BY <1>1, <1>2, <1>3, <1>16, <1>17, <1>18, LooksOn

(* What the parser does not accept follows what it accepts.                *)
LEMMA RestRuns ==
  ASSUME NEW s \in Seq(Int), NEW k \in 0 .. Len(s), NEW y \in Nat, RunFrom(s, y)
  PROVE  RunFrom(RestOf(s, k), y + k) /\ Len(RestOf(s, k)) = Len(s) - k
<1>1. /\ RestOf(s, k) \in Seq(Int) /\ Len(RestOf(s, k)) = Len(s) - k
      /\ \A j \in 1 .. Len(s) - k : RestOf(s, k)[j] = s[k + j]
  BY RestType
<1>2. \A j \in 1 .. Len(s) - k : s[k + j] = (y + k) + j
  <2>1. TAKE j \in 1 .. Len(s) - k
  <2>2. k + j \in 1 .. Len(s) /\ y + (k + j) = (y + k) + j
    OBVIOUS
  <2>3. s[k + j] = y + (k + j)
    BY <2>2 DEF RunFrom
  <2> QED BY <2>2, <2>3
<1> QED BY <1>1, <1>2 DEF RunFrom

(* A block that is cut where the parser stopped: what the thread has of it *)
(* and where the next one begins.                                          *)
Cut(t, a, b, m, rest) ==
  /\ b \in Nat /\ a <= b /\ b <= rd.pos /\ b = a + m.size /\ m.inPreSize = m.size
  /\ Holds(OwnLinks(t, Parsed(t).used), a, m.start, m.size)
  /\ RunFrom(rest, b) /\ rd.pos = b + Len(rest) /\ Len(rest) = Len(Src(t)) - Parsed(t).used
  /\ Len(rest) \in Nat /\ rest \in Seq(Int)
  /\ Parsed(t).state # "OVERFLOW" => Parsed(t).out = Outputs(b) - Outputs(a)

(* What the parser used is the thread's, and what is left over comes after it.*)
LEMMA BlockCut ==
  ASSUME NEW t \in Threads, NEW a, Looking(t, a), pc[t] = "parse", Given(t, a), Found(t, a),
         NEW rest, rest = RestOf(Src(t), Parsed(t).used),
         NEW m, ParsedLike(m, th[t].l, Parsed(t)), m.size = th[t].l.size - Len(rest),
         m.start = IF Links(t) = 0 THEN Parsed(t).used ELSE th[t].l.start,
         NEW b, b = a + th[t].l.inPreSize + Parsed(t).used
  PROVE  Cut(t, a, b, m, rest)
<1> DEFINE l == th[t].l
           p == Parsed(t)
           src == Src(t)
<1>1. PICK x, y, u : x = l.inPreSize /\ y = Len(src) /\ u = p.used
  OBVIOUS
<1>2. /\ src \in Seq(Int) /\ y \in Nat /\ x \in Nat /\ a \in Nat /\ l.size = x + y
      /\ RunFrom(src, a + x) /\ rd.pos = a + x + y /\ u \in 0 .. y
      /\ a + x \in Nat
      /\ p.state # "OVERFLOW" => p.out = Outputs(b) - Outputs(a)
  BY <1>1 DEF Given, Found, Looking
<1>3. /\ RunFrom(rest, (a + x) + u) /\ Len(rest) = y - u /\ rest \in Seq(Int)
  BY <1>1, <1>2, RestRuns, RestType
<1>4. m.inPreSize = x + u /\ m.size = l.size - Len(rest) /\ b = a + x + u
  BY <1>1 DEF ParsedLike
<1>5. Holds(OwnLinks(t, u), a, m.start, x + u)
  <2>1. ThreadOK(th[t]) /\ Linked(t) /\ RdOK /\ u \in 0 .. Len(src) /\ a \in Nat
    BY <1>1, <1>2 DEF Looking
  <2>2. Holds(OwnLinks(t, u), a, IF l.links = 0 THEN u ELSE l.start, l.inPreSize + u)
    BY <2>1, OwnHolds
  <2>3. (IF l.links = 0 THEN u ELSE l.start) = m.start
    BY <1>1 DEF Links
  <2> QED BY <1>1, <2>2, <2>3
<1> HIDE DEF l, p, src
<1>6. /\ m.size = x + u /\ b = (a + x) + u /\ rd.pos = b + Len(rest) /\ b \in Nat /\ a <= b
      /\ b <= rd.pos /\ Len(rest) \in Nat /\ b = a + m.size
  <2>1. PICK z, k, s, d : z = rd.pos /\ k = Len(rest) /\ s = m.size /\ d = l.size
    OBVIOUS
  <2>2. /\ x \in Nat /\ y \in Nat /\ a \in Nat /\ u \in Nat /\ u <= y /\ z = a + x + y
        /\ k = y - u /\ s = d - k /\ d = x + y /\ b = a + x + u
    <3>1. x \in Nat /\ y \in Nat /\ a \in Nat /\ u \in Nat /\ u <= y
      BY <1>2
    <3>2. z = a + x + y /\ d = x + y
      BY <1>2, <2>1
    <3>3. k = y - u
      BY <1>3, <2>1
    <3>4. s = d - k /\ b = a + x + u
      BY <1>4, <2>1
    <3> QED BY <3>1, <3>2, <3>3, <3>4
  <2>3. s = x + u /\ b = (a + x) + u /\ z = b + k /\ b \in Nat /\ a <= b /\ b <= z /\ k \in Nat
        /\ b = a + s
    BY <2>2
  <2> QED BY <2>1, <2>3
<1>7. p.state # "OVERFLOW" => p.out = Outputs(b) - Outputs(a)
  BY <1>2
<1>8. Holds(OwnLinks(t, Parsed(t).used), a, m.start, m.size)
  BY <1>1, <1>5, <1>6 DEF p
<1>9. m.inPreSize = m.size /\ Len(rest) = Len(Src(t)) - Parsed(t).used
  BY <1>1, <1>3, <1>4, <1>6 DEF p, src
<1> QED BY <1>3, <1>4, <1>6, <1>7, <1>8, <1>9 DEF Cut, p

(* The last block of the input.                                            *)
LEMMA ParseEndPlaced ==
  ASSUME Shape, Control, NEW w \in 0 .. MaxThreads, NEW n \in 0 .. MaxThreads, Round(w, n),
         NEW B, Placed(n, B), NEW t \in Threads, ParseEnd(t)
  PROVE  \E C : Placed(n, C)'
<1>0. InBlock(t)
  BY DEF ParseEnd, InBlock
<1>1. PICK a : a = B[bi(t)] /\ Looking(t, a)
  BY <1>0, LookingIs
<1>2. /\ RdOK' /\ Looks(t) /\ UNCHANGED <<wr, out, input>> /\ InBlock(t) /\ pc[t] = "parse"
      /\ rd'.pos = rd.pos /\ rd'.finished = rd.finished
      /\ Given(t, a) /\ Found(t, a) /\ Reader(t, a)
  BY <1>1, ParseLooks
<1> DEFINE l == th[t].l
           p == Parsed(t)
           q == AfterParse(l, p)
           src == Src(t)
           rest == RestOf(src, p.used)
           c == CutSizes(t, q, p.used, Len(rest))
           m == [c EXCEPT !.needCode = TRUE, !.finish = TRUE]
<1>3. /\ LocalOK(l) /\ RdOK /\ a \in Nat /\ IsSeq(l.outBuf) /\ l.res = OK
  BY <1>1 DEF Looking
<1>4. /\ ParsedLike(m, l, p) /\ m.size = l.size - Len(rest) /\ m.finish = TRUE /\ m.needCode = TRUE
      /\ m.start = (IF Links(t) = 0 THEN p.used ELSE l.start) /\ m.overflow = l.overflow
      /\ m.isAllocError = l.isAllocError
  <2>1. /\ ParsedLike(q, l, p) /\ DOMAIN q = DOMAIN l /\ q.size = l.size /\ q.start = l.start
        /\ q.overflow = l.overflow /\ q.isAllocError = l.isAllocError
    BY <1>3, AfterParseLike
  <2> HIDE DEF q, rest, p
  <2>2. c = [q EXCEPT !.size = @ - Len(rest), !.start = IF Links(t) = 0 THEN p.used ELSE @]
    BY DEF CutSizes
  <2> HIDE DEF c
  <2>3. /\ ParsedLike(c, l, p) /\ DOMAIN c = DOMAIN l /\ c.size = l.size - Len(rest)
        /\ c.start = (IF Links(t) = 0 THEN p.used ELSE l.start)
        /\ c.overflow = l.overflow /\ c.isAllocError = l.isAllocError
    BY <1>3, <2>1, <2>2 DEF LocalOK, ParsedLike
  <2> QED BY <1>3, <2>3 DEF LocalOK, ParsedLike
<1>5. /\ StoreParsed(t, p.used, m, "parsed")
      /\ rd' = [rd EXCEPT !.cross = IF FromCross(t) THEN rest ELSE @,
                          !.outParsed = IF p.state = "CONTINUE" THEN @ ELSE @ + p.out]
      /\ p.state \in {"MARK", "STOP", "ERROR"} \/ (p.state = "CONTINUE" /\ l.finish)
  BY DEF ParseEnd
<1>6. PICK b, r : b = a + l.inPreSize + p.used /\ r = rest
  OBVIOUS
<1>7. Cut(t, a, b, m, r)
  <2> HIDE DEF m
  <2> QED BY <1>1, <1>2, <1>4, <1>6, BlockCut
<1> HIDE DEF m, c, q, rest, src
<1>8. th'[t].l = m /\ th'[t].inBuf = OwnLinks(t, p.used) /\ pc'[t] = "parsed"
  BY <1>1, <1>5, ParseStores
<1>9. rd'.cross = (IF FromCross(t) THEN r ELSE rd.cross)
  BY <1>3, <1>5, <1>6 DEF RdOK
<1>10. Unparsed(l) /\ Level(a) /\ (l.finish => rd.finished)
  BY <1>2 DEF Reader
<1>11. p.state # "NEW" /\ m.state = p.state /\ m.needWrite /\ m.codeRes = l.codeRes
       /\ m.coderRes = OK /\ m.res = OK /\ m.outBuf = l.outBuf /\ ~ LeftToOther(m)
  BY <1>3, <1>4, <1>5, <1>10 DEF ParsedLike, LeftToOther, NoMemory, Unparsed
<1>12. Sized(m, a, b)
  <2>1. b = a + m.size /\ m.inPreSize <= m.size
    <3>1. PICK x : x = m.size
      OBVIOUS
    <3>2. x \in Int
      <4>1. l.size \in Int /\ Len(rest) \in Int
        BY <1>3, <1>6, <1>7 DEF LocalOK, Cut
      <4> QED BY <1>4, <3>1, <4>1
    <3> QED BY <1>7, <3>1, <3>2 DEF Cut
  <2> QED BY <1>4, <1>11, <2>1 DEF Sized
<1>13. Len(r) = 0 => r = << >>
  BY <1>7 DEF Cut
<1>14. ~ FromCross(t) => rd.cross = << >>
  BY <1>2 DEF Given
<1>15. r = << >> \/ Terminal(b)
  <2>1. SUFFICES ASSUME r # << >> PROVE Terminal(b)
    OBVIOUS
  <2>2. p.used < Len(Src(t)) /\ Len(Src(t)) \in Nat
    BY <1>2, <1>7, <1>13, <2>1 DEF Cut, Given, Found
  <2>3. p.state \in {"MARK", "STOP", "ERROR"} /\ (p.state \in {"MARK", "ERROR"} => Terminal(b))
    BY <1>2, <1>5, <1>6, <2>2 DEF Found
  <2>4. CASE p.state = "STOP"
    <3>1. input.outSize # NoSize /\ ~ input.finishMode /\ p.out = input.outSize - rd.outParsed
      BY <1>2, <2>4 DEF Found
    <3>2. p.out = Outputs(b) - Outputs(a)
      BY <1>7, <2>4 DEF Cut
    <3>3. rd.outParsed = Outputs(a)
      <4>1. rd.pos # a
        <5>1. PICK x, y : x = l.inPreSize /\ y = Len(Src(t))
          OBVIOUS
        <5>2. rd.pos = a + x + y /\ x \in Nat /\ y \in Nat /\ a \in Nat /\ y > 0
          BY <1>2, <1>3, <2>2, <5>1 DEF Given, Found
        <5> QED BY <5>2
      <4> QED BY <1>10, <4>1 DEF Level, Drained
    <3>4. input.outSize \in Int
      BY <1>1 DEF Looking, InputOK, NoSize
    <3>5. Outputs(b) \in Nat /\ Outputs(a) \in Nat
      <4>1. b \in Nat
        BY <1>7 DEF Cut
      <4> QED BY <1>3, <4>1, OutputsNext
    <3>6. Outputs(b) = input.outSize
      BY <3>1, <3>2, <3>3, <3>4, <3>5
    <3> QED BY <3>1, <3>6 DEF Terminal
  <2> QED BY <2>3, <2>4
<1>16. \A x : (Outputs(x)' = Outputs(x)) /\ (Terminal(x)' <=> Terminal(x))
  BY <1>2, SameInput
<1>17. Ends(t)' /\ Unleveled(t)'
  BY <1>4, <1>8, <1>11 DEF Ends, Unleveled
<1>18. Front(b)' \/ Dropped(b)'
  <2>1. CASE FromCross(t) \/ r = << >>
    <3>1. rd'.cross = r
      BY <1>9, <1>14, <2>1
    <3> QED BY <1>2, <1>7, <3>1 DEF Front, Cut
  <2>2. CASE ~ FromCross(t) /\ Terminal(b)
    <3>1. rd'.cross = << >> /\ b <= rd'.pos
      BY <1>2, <1>7, <1>9, <1>14, <2>2 DEF Cut
    <3> QED BY <1>16, <2>2, <3>1 DEF Dropped
  <2> QED BY <1>15, <2>1, <2>2
<1>19. RunsDry(t)' => Drained(b)'
  <2>1. SUFFICES ASSUME m.state = "CONTINUE" PROVE Drained(b)'
    BY <1>8 DEF RunsDry
  <2>2. p.used = Len(Src(t)) /\ l.finish /\ Len(Src(t)) \in Nat
    BY <1>2, <1>5, <1>11, <2>1 DEF Found, Given
  <2>3. Len(r) = 0 /\ rd.pos = b
    BY <1>7, <2>2 DEF Cut
  <2> QED BY <1>2, <1>9, <1>10, <1>13, <1>14, <2>2, <2>3 DEF Drained
<1>20. Reaches(t, b)'
  BY <1>17, <1>18, <1>19 DEF Reaches
<1>21. b \in Nat /\ a <= b /\ b <= rd'.pos /\ Holds(th'[t].inBuf, a, m.start, m.size)
  BY <1>2, <1>7, <1>8 DEF Cut
<1>22. \A x : x <= a /\ Drained(x) => rd'.finished /\ rd'.pos = rd.pos /\ rd'.cross = << >>
  <2>1. rd.cross = << >> => ~ FromCross(t)
    BY DEF FromCross
  <2> QED BY <1>2, <1>9, <2>1 DEF Drained
<1> QED BY <1>1, <1>2, <1>3, <1>8, <1>11, <1>12, <1>20, <1>21, <1>22, BlockFound

(* The next block is found: the rest is handed to it ...                   *)
LEMMA ParseNewCut ==
  ASSUME Shape, Control, NEW w \in 0 .. MaxThreads, NEW n \in 0 .. MaxThreads, Round(w, n),
         NEW B, Placed(n, B), NEW t \in Threads, ParseNew(t), NEW a, a = B[bi(t)], Looking(t, a),
         NEW p, p = Parsed(t), NEW r, r = RestOf(Src(t), p.used), p.state = "NEW",
         StoreParsed(t, p.used, [CutSizes(t, AfterParse(th[t].l, p), p.used, Len(r)) EXCEPT
                                   !.needCode = TRUE, !.finish = FALSE], "parsed"),
         rd' = [rd EXCEPT !.cross = r, !.crossBlock = TRUE, !.outParsed = @ + p.out]
  PROVE  \E C : Placed(n, C)'
<1>2. /\ RdOK' /\ Looks(t) /\ UNCHANGED <<wr, out, input>> /\ InBlock(t) /\ pc[t] = "parse"
      /\ rd'.pos = rd.pos /\ rd'.finished = rd.finished
      /\ Given(t, a) /\ Found(t, a) /\ Reader(t, a)
  BY ParseLooks
<1> DEFINE l == th[t].l
           q == AfterParse(l, p)
           c == CutSizes(t, q, p.used, Len(r))
           m == [c EXCEPT !.needCode = TRUE, !.finish = FALSE]
<1>3. /\ LocalOK(l) /\ RdOK /\ a \in Nat /\ IsSeq(l.outBuf) /\ l.res = OK /\ l.codeRes = OK
  BY DEF Looking
<1>4. /\ ParsedLike(m, l, p) /\ m.size = l.size - Len(r) /\ m.finish = FALSE /\ m.needCode = TRUE
      /\ m.start = (IF Links(t) = 0 THEN p.used ELSE l.start) /\ m.overflow = l.overflow
      /\ m.isAllocError = l.isAllocError
  <2>1. /\ ParsedLike(q, l, p) /\ DOMAIN q = DOMAIN l /\ q.size = l.size /\ q.start = l.start
        /\ q.overflow = l.overflow /\ q.isAllocError = l.isAllocError
    BY <1>3, AfterParseLike
  <2> HIDE DEF q
  <2>2. c = [q EXCEPT !.size = @ - Len(r), !.start = IF Links(t) = 0 THEN p.used ELSE @]
    BY DEF CutSizes
  <2> HIDE DEF c
  <2>3. /\ ParsedLike(c, l, p) /\ DOMAIN c = DOMAIN l /\ c.size = l.size - Len(r)
        /\ c.start = (IF Links(t) = 0 THEN p.used ELSE l.start)
        /\ c.overflow = l.overflow /\ c.isAllocError = l.isAllocError
    BY <1>3, <2>1, <2>2 DEF LocalOK, ParsedLike
  <2> QED BY <1>3, <2>3 DEF LocalOK, ParsedLike
<1>5. StoreParsed(t, p.used, m, "parsed")
  OBVIOUS
<1>6. PICK b : b = a + l.inPreSize + p.used
  OBVIOUS
<1> HIDE DEF m, c, q
<1>7. Cut(t, a, b, m, r)
  BY <1>2, <1>4, <1>6, BlockCut
<1>8. th'[t].l = m /\ th'[t].inBuf = OwnLinks(t, p.used) /\ pc'[t] = "parsed"
  BY <1>5, ParseStores
<1>9. rd'.cross = r /\ rd'.outParsed = rd.outParsed + p.out
  BY <1>3 DEF RdOK
<1>10. Unparsed(l) /\ Level(a)
  BY <1>2 DEF Reader
<1>11. m.state = "NEW" /\ m.needWrite /\ m.codeRes = OK
       /\ m.coderRes = OK /\ m.res = OK /\ m.outBuf = l.outBuf /\ ~ LeftToOther(m)
  BY <1>3, <1>4, <1>10 DEF ParsedLike, LeftToOther, NoMemory, Unparsed, OK
<1>12. p.out = Outputs(b) - Outputs(a) /\ m.outPreSize = p.out
  BY <1>4, <1>7 DEF Cut, ParsedLike
<1>13. Sized(m, a, b)
  <2>1. b = a + m.size /\ m.inPreSize = m.size /\ m.inPreSize <= m.size
    <3>1. PICK x : x = m.size
      OBVIOUS
    <3>2. x \in Int
      <4>1. l.size \in Int /\ Len(r) \in Int
        BY <1>3, <1>7 DEF LocalOK, Cut
      <4> QED BY <1>4, <3>1, <4>1
    <3> QED BY <1>7, <3>1, <3>2 DEF Cut
  <2> QED BY <1>4, <1>11, <1>12, <2>1 DEF Sized
<1>14. rd.pos # a
  <2>1. PICK x, y : x = l.inPreSize /\ y = Len(Src(t))
    OBVIOUS
  <2>2. rd.pos = a + x + y /\ x \in Nat /\ y \in Nat /\ a \in Nat /\ y > 0
    <3>1. p.used \in 0 .. Len(Src(t)) /\ p.used < Len(Src(t))
      BY <1>2 DEF Found
    <3> QED BY <1>2, <1>3, <2>1, <3>1 DEF Given
  <2> QED BY <2>2
<1>15. \A x : Outputs(x)' = Outputs(x)
  BY <1>2, SameInput
<1>16. Level(b)'
  <2>1. rd.outParsed = Outputs(a)
    BY <1>10, <1>14 DEF Level, Drained
  <2>2. Outputs(b) \in Nat /\ Outputs(a) \in Nat
    <3>1. b \in Nat
      BY <1>7 DEF Cut
    <3> QED BY <1>3, <3>1, OutputsNext
  <2>3. rd'.outParsed = Outputs(b)
    BY <1>9, <1>12, <2>1, <2>2
  <2> QED BY <1>15, <2>3 DEF Level
<1>17. Reaches(t, b)'
  <2>1. Front(b)'
    BY <1>2, <1>7, <1>9 DEF Front, Cut
  <2>2. ~ RunsDry(t)'
    BY <1>8, <1>11 DEF RunsDry
  <2> QED BY <1>16, <2>1, <2>2 DEF Reaches
<1>18. b \in Nat /\ a <= b /\ b <= rd'.pos /\ Holds(th'[t].inBuf, a, m.start, m.size)
  BY <1>2, <1>7, <1>8 DEF Cut
<1>19. \A x : x <= a /\ Drained(x) => rd'.finished /\ rd'.pos = rd.pos /\ rd'.cross = << >>
  <2>1. a <= rd.pos /\ rd.pos \in Int
    BY DEF Looking, RdOK
  <2> QED BY <1>3, <1>14, <2>1 DEF Drained
<1> QED BY <1>2, <1>3, <1>8, <1>11, <1>13, <1>17, <1>18, <1>19, BlockFound

(* ... or cannot be, and the whole of the input is left to the other.      *)
LEMMA ParseNewLeft ==
  ASSUME Shape, Control, NEW w \in 0 .. MaxThreads, NEW n \in 0 .. MaxThreads, Round(w, n),
         NEW B, Placed(n, B), NEW t \in Threads, ParseNew(t), NEW a, a = B[bi(t)], Looking(t, a),
         NEW p, p = Parsed(t), p.state = "NEW", ~ FromCross(t),
         StoreParsed(t, 0, [AfterParse(th[t].l, p) EXCEPT
                              !.needCode = TRUE, !.finish = TRUE, !.isAllocError = TRUE], "parsed"),
         rd' = [rd EXCEPT !.outParsed = @ + p.out]
  PROVE  \E C : Placed(n, C)'
<1>2. /\ RdOK' /\ Looks(t) /\ UNCHANGED <<wr, out, input>> /\ InBlock(t) /\ pc[t] = "parse"
      /\ rd'.pos = rd.pos /\ rd'.finished = rd.finished
      /\ Given(t, a) /\ Found(t, a) /\ Reader(t, a)
  BY ParseLooks
<1> DEFINE l == th[t].l
           q == AfterParse(l, p)
           m == [q EXCEPT !.needCode = TRUE, !.finish = TRUE, !.isAllocError = TRUE]
<1>3. /\ LocalOK(l) /\ RdOK /\ a \in Nat /\ IsSeq(l.outBuf) /\ l.res = OK /\ l.codeRes = OK
  BY DEF Looking
<1>4. /\ ParsedLike(m, l, p) /\ m.size = l.size /\ m.finish = TRUE /\ m.needCode = TRUE
      /\ m.start = l.start /\ m.isAllocError = TRUE
  <2>1. /\ ParsedLike(q, l, p) /\ DOMAIN q = DOMAIN l /\ q.size = l.size /\ q.start = l.start
    BY <1>3, AfterParseLike
  <2> HIDE DEF q
  <2> QED BY <1>3, <2>1 DEF LocalOK, ParsedLike
<1>5. StoreParsed(t, 0, m, "parsed")
  OBVIOUS
<1> HIDE DEF m, q
<1>6. th'[t].l = m /\ th'[t].inBuf = OwnLinks(t, 0) /\ pc'[t] = "parsed"
  BY <1>5, ParseStores
<1>7. OwnLinks(t, 0) = th[t].inBuf
  BY DEF OwnLinks
<1>8. rd'.cross = << >>
  BY <1>2, <1>3 DEF RdOK, Given
<1>9. PICK b : b = rd.pos
  OBVIOUS
<1>10. b = a + m.size /\ m.inPreSize <= m.size /\ b \in Nat /\ a <= b
  <2>1. PICK x, y, u : x = l.inPreSize /\ y = Len(Src(t)) /\ u = p.used
    OBVIOUS
  <2>2. PICK s, k : s = m.size /\ k = m.inPreSize
    OBVIOUS
  <2>3. /\ x \in Nat /\ y \in Nat /\ a \in Nat /\ b = a + x + y /\ s = x + y
    <3>1. rd.pos = a + x + y /\ l.size = x + y /\ x \in Nat /\ y \in Nat
      BY <1>2, <2>1 DEF Given
    <3> QED BY <1>3, <1>4, <1>9, <2>2, <3>1
  <2>4. u \in Nat /\ u <= y /\ k = x + u
    <3>1. p.used \in 0 .. y
      BY <1>2, <2>1 DEF Found
    <3> QED BY <1>4, <2>1, <2>2, <2>3, <3>1 DEF ParsedLike
  <2>5. b = a + s /\ k <= s /\ b \in Nat /\ a <= b
    BY <2>3, <2>4
  <2> QED BY <2>2, <2>5
<1>11. Unparsed(l)
  BY <1>2 DEF Reader
<1>12. m.state = "NEW" /\ m.needWrite /\ m.codeRes = OK
       /\ m.coderRes = OK /\ m.res = OK /\ m.outBuf = l.outBuf /\ LeftToOther(m)
  BY <1>3, <1>4, <1>11 DEF ParsedLike, LeftToOther, NoMemory, Unparsed
<1>13. Sized(m, a, b)
  BY <1>4, <1>10, <1>12 DEF Sized
<1>14. Reaches(t, b)'
  <2>1. Front(b)'
    BY <1>2, <1>8, <1>9, <1>10 DEF Front, RunFrom
  <2>2. Unleveled(t)' /\ ~ RunsDry(t)'
    BY <1>4, <1>6, <1>12 DEF Unleveled, RunsDry
  <2> QED BY <2>1, <2>2 DEF Reaches
<1>15. b <= rd'.pos /\ Holds(th'[t].inBuf, a, m.start, m.size)
  <2>1. Holds(th[t].inBuf, a, l.start, l.size)
    BY <1>2 DEF Given
  <2> QED BY <1>2, <1>4, <1>6, <1>7, <1>9, <1>10, <2>1
<1>16. \A x : x <= a /\ Drained(x) => rd'.finished /\ rd'.pos = rd.pos /\ rd'.cross = << >>
  BY <1>2, <1>8 DEF Drained
<1> QED BY <1>2, <1>3, <1>6, <1>10, <1>12, <1>13, <1>14, <1>15, <1>16, BlockFound

(* The next block is found.                                                *)
LEMMA ParseNewPlaced ==
  ASSUME Shape, Control, NEW w \in 0 .. MaxThreads, NEW n \in 0 .. MaxThreads, Round(w, n),
         NEW B, Placed(n, B), NEW t \in Threads, ParseNew(t)
  PROVE  \E C : Placed(n, C)'
<1>0. InBlock(t)
  BY DEF ParseNew, InBlock
<1>1. PICK a : a = B[bi(t)] /\ Looking(t, a)
  BY <1>0, LookingIs
<1>2. PICK p, r : p = Parsed(t) /\ r = RestOf(Src(t), p.used)
  OBVIOUS
<1>3. \/ /\ StoreParsed(t, p.used, [CutSizes(t, AfterParse(th[t].l, p), p.used, Len(r)) EXCEPT
                                   !.needCode = TRUE, !.finish = FALSE], "parsed")
         /\ rd' = [rd EXCEPT !.cross = r, !.crossBlock = TRUE, !.outParsed = @ + p.out]
      \/ /\ ~ FromCross(t)
         /\ StoreParsed(t, 0, [AfterParse(th[t].l, p) EXCEPT
                              !.needCode = TRUE, !.finish = TRUE, !.isAllocError = TRUE], "parsed")
         /\ rd' = [rd EXCEPT !.outParsed = @ + p.out]
  BY <1>2 DEF ParseNew
<1>4. p.state = "NEW"
  BY <1>2 DEF ParseNew
<1> QED BY <1>1, <1>2, <1>3, <1>4, ParseNewCut, ParseNewLeft

(* A step of a thread that has its block.                                  *)
Carries(t) ==
  /\ Working(t) /\ ~ InBlock(t) /\ Working(t)' /\ ~ InBlock(t)' /\ Others(t)
  /\ bi(t)' = bi(t) /\ th'[t].inBuf = th[t].inBuf /\ UNCHANGED <<wr, out>>
  /\ rd'.pos = rd.pos /\ rd'.cross = rd.cross /\ rd'.finished = rd.finished
  /\ rd'.res = rd.res /\ rd'.outParsed = rd.outParsed /\ rd'.blockIndex = rd.blockIndex

(* Such a step leaves the blocks where they are, if it keeps what the      *)
(* place of the next one depends on.                                       *)
LEMMA CarryKeeps ==
  ASSUME Shape, Control, NEW n, NEW B, Placed(n, B), NEW t \in Threads, Carries(t),
         NEW m, m = th'[t].l, m.size = th[t].l.size, m.start = th[t].l.start,
         m.res = OK, IsSeq(m.outBuf), NEW a, a = B[bi(t)], NEW b, b = B[bi(t) + 1], Sized(m, a, b),
         pc'[t] \notin {"parsed", "pass"} /\ ~ m.finish => m.size > 0,
         Ends(t) => Ends(t)', Unleveled(t) => Unleveled(t)', RunsDry(t)' => RunsDry(t)
  PROVE  Placed(n, B)'
<1>1. /\ Working(t) /\ ~ InBlock(t) /\ Working(t)' /\ ~ InBlock(t)' /\ input' = input
      /\ wr' = wr /\ out' = out /\ bi(t)' = bi(t)
      /\ \A u \in Threads : u # t => /\ th'[u] = th[u]
                                     /\ pc'[u] = pc[u] \/ (~ Working(u) /\ ~ Working(u)')
  BY DEF Carries, Others, Working, Reading
<1>2. /\ rd'.pos = rd.pos /\ rd'.cross = rd.cross /\ rd'.finished = rd.finished
      /\ rd'.res = rd.res /\ rd'.outParsed = rd.outParsed /\ rd'.blockIndex = rd.blockIndex
      /\ rd.pos \in Int
  BY DEF Carries, Control, RdOK
<1>3. \A u \in Threads : bi(u) \in Nat
  BY DEF Control, Good, ThreadOK, LocalOK, bi
<1>4. (\A p : Outputs(p)' = Outputs(p)) /\ (\A p : Terminal(p)' <=> Terminal(p))
  BY <1>1, SameInput
<1>5. Unbroken' /\ Places(B)
  BY <1>1, <1>2 DEF Placed, Unbroken, NeedContinue
<1>6. HasPlace(t, B)'
  <2>1. HasBlock(t, a, b)
    BY <1>1 DEF Placed, HasPlace
  <2>2. b <= rd.pos /\ Holds(th[t].inBuf, a, th[t].l.start, th[t].l.size)
    BY <2>1 DEF HasBlock
  <2>3. HasBlock(t, a, b)'
    BY <1>2, <1>4, <2>2 DEF HasBlock, Sized, Carries
  <2> QED BY <1>1, <2>3 DEF HasPlace
<1>7. ASSUME NEW u \in Threads, Working(u)' PROVE HasPlace(u, B)'
  <2>1. CASE u = t
    BY <1>6, <2>1
  <2>2. CASE u # t
    <3>1. th'[u] = th[u] /\ pc'[u] = pc[u] /\ Working(u)
      BY <1>1, <1>7, <2>2 DEF Working, Reading
    <3>2. HasPlace(u, B)
      BY <3>1 DEF Placed
    <3>3. B[bi(u) + 1] \in Int
      BY <1>3, <1>5 DEF Places
    <3>4. rd.pos <= rd'.pos /\ rd'.pos \in Int
      BY <1>2
    <3> QED BY <1>1, <1>2, <3>1, <3>2, <3>3, <3>4, PlaceStays
  <2> QED BY <2>1, <2>2
<1>8. ASSUME ~ \E u \in Threads : InBlock(u)' PROVE NextPlace(B[rd.blockIndex])'
  <2>1. ~ \E u \in Threads : InBlock(u)
    <3>1. SUFFICES ASSUME NEW u \in Threads, InBlock(u) PROVE FALSE
      OBVIOUS
    <3>2. u # t /\ Working(u)
      BY <1>1, <3>1 DEF InBlock, Working, Reading
    <3>3. InBlock(u)'
      BY <1>1, <3>1, <3>2 DEF InBlock
    <3> QED BY <1>8, <3>3
  <2>2. PICK e : e = B[rd.blockIndex]
    OBVIOUS
  <2>3. NextPlace(e)
    BY <2>1, <2>2 DEF Placed
  <2>4. \A u \in Threads : IsLast(u)' <=> IsLast(u)
    BY <1>1, <1>2 DEF IsLast, Working, Reading, bi
  <2>5. \A u \in Threads : u # t /\ Working(u) =>
          /\ Ends(u)' <=> Ends(u)
          /\ Unleveled(u)' <=> Unleveled(u)
          /\ RunsDry(u)' <=> RunsDry(u)
    BY <1>1 DEF Ends, Unleveled, RunsDry
  <2>6. \A u \in Threads : IsLast(u) =>
          /\ Ends(u) => Ends(u)'
          /\ Unleveled(u) => Unleveled(u)'
          /\ RunsDry(u)' => RunsDry(u)
    BY <2>5 DEF IsLast
  <2>7. /\ Front(e)' <=> Front(e)
        /\ Dropped(e)' <=> Dropped(e)
        /\ Drained(e)' <=> Drained(e)
        /\ Level(e)' <=> Level(e)
    BY <1>2, <1>4 DEF Front, Dropped, Drained, Level
  <2>8. (Front(e) \/ (Dropped(e) /\ \E u \in Threads : IsLast(u) /\ Ends(u)))'
    BY <2>3, <2>4, <2>6, <2>7 DEF NextPlace
  <2>9. (Level(e) \/ \E u \in Threads : IsLast(u) /\ Unleveled(u))'
    BY <2>3, <2>4, <2>6, <2>7 DEF NextPlace
  <2>10. (\A u \in Threads : IsLast(u) /\ RunsDry(u) => Drained(e))'
    BY <2>3, <2>4, <2>6, <2>7 DEF NextPlace
  <2>11. NextPlace(e)'
    BY <2>8, <2>9, <2>10 DEF NextPlace
  <2>12. e = B[rd'.blockIndex]
    BY <1>2, <2>2
  <2> QED BY <2>11, <2>12
<1>9. Written(B[rd.blockIndex - n])'
  <2>1. PICK p : p = B[rd.blockIndex - n]
    OBVIOUS
  <2>2. Written(p)
    BY <2>1 DEF Placed
  <2>3. Written(p)'
    BY <1>1, <1>2, <1>4, <2>2 DEF Written, Drained
  <2>4. p = B[rd'.blockIndex - n]
    BY <1>2, <2>1
  <2> QED BY <2>3, <2>4
<1> QED BY <1>5, <1>7, <1>8, <1>9 DEF Placed

(* A last look at the others, and the PreCode callback.                    *)
LEMMA PreCodePlaced ==
  ASSUME Shape, Control, NEW n, NEW B, Placed(n, B), NEW t \in Threads, PreCode(t), sync.res = OK
  PROVE  Placed(n, B)'
<1> DEFINE l == th[t].l
           looks == pc[t] = "parsed" /\ l.res = OK
           res == IF looks THEN sync.res ELSE l.res
           was == IF looks THEN InterruptedBefore(l.blockIndex) ELSE l.wasInterrupted
           called == res = OK /\ l.needCode /\ ~ was
           mm(code) == [l EXCEPT !.res = res, !.wasInterrupted = was, !.codeRes = code,
                                 !.prepared = called /\ code = OK,
                                 !.coderRes = IF code = "DATA" THEN code ELSE @,
                                 !.needCode = @ /\ code = OK,
                                 !.finish = @ \/ code # OK \/ res # OK \/ was]
<1>1. /\ pc[t] \in {"parsed", "pass"} /\ pc' = [pc EXCEPT ![t] = "start_next"]
      /\ rd' = rd /\ wr' = wr /\ out' = out /\ Working(t) /\ ~ InBlock(t)
  BY DEF PreCode, Working, Reading, InBlock
<1>2. PICK code \in {OK, "DATA", "MEM"} :
        /\ code = "DATA" <=> called /\ l.inPreSize = 0
        /\ code = "MEM" => called /\ Fails("mem")
        /\ SetLocals(t, mm(code))
  BY Zenon DEF PreCode
<1>3. /\ HasPlace(t, B) /\ l.res = OK /\ IsSeq(l.outBuf)
      /\ HasBlock(t, B[bi(t)], B[bi(t) + 1])
  BY <1>1 DEF Placed, HasPlace
<1>4. /\ Flags(t) /\ ThreadOK(th[t]) /\ LocalOK(l) /\ t \in DOMAIN th /\ t \in DOMAIN pc /\ SyncOK
      /\ l.codeRes = OK
  BY <1>1 DEF Control, Good, ThreadOK, Shape, Flags
<1>5. was \in BOOLEAN
  BY <1>4 DEF InterruptedBefore, SyncOK, LocalOK
<1>6. l.wasInterrupted => was
  BY <1>4 DEF Flags
<1>7. ~ was /\ ~ l.finish => l.needCode
  BY <1>1, <1>3, <1>4, <1>6 DEF Flags, Passer
<1>r. res = OK
  BY <1>3
<1>8. /\ code = "DATA" <=> l.needCode /\ ~ was /\ l.inPreSize = 0
      /\ code = "MEM" => l.needCode /\ ~ was
  BY <1>2, <1>r
<1>u. l.state # "NEW" /\ pc[t] = "parsed" /\ ~ l.finish => was
  BY <1>3, <1>4, <1>6 DEF Flags
<1> HIDE DEF was, res, called
<1> DEFINE m == mm(code)
<1>9. /\ LocalOK(m) /\ m.res = OK /\ (m.wasInterrupted <=> was) /\ m.codeRes = code
      /\ m.coderRes = (IF code = "DATA" THEN code ELSE l.coderRes)
      /\ m.needCode <=> l.needCode /\ code = OK
      /\ m.finish <=> l.finish \/ code # OK \/ was
      /\ m.size = l.size /\ m.start = l.start /\ m.outBuf = l.outBuf /\ m.state = l.state
      /\ m.inPreSize = l.inPreSize /\ m.outPreSize = l.outPreSize /\ m.needWrite = l.needWrite
      /\ m.isAllocError = l.isAllocError /\ m.threadingError = l.threadingError
      /\ m.overflow = l.overflow /\ m.blockIndex = l.blockIndex
  <2>1. DOMAIN m = DOMAIN l /\ LocalOK(l) /\ code \in Errors /\ res \in Errors /\ called \in BOOLEAN
    BY <1>r, <1>4, <1>5, Zenon DEF Errors, called
  <2>2. /\ m.res = res /\ m.wasInterrupted = was /\ m.codeRes = code
        /\ m.prepared = (called /\ code = OK)
        /\ m.coderRes = (IF code = "DATA" THEN code ELSE l.coderRes)
        /\ m.needCode = (l.needCode /\ code = OK)
        /\ m.finish = (l.finish \/ code # OK \/ res # OK \/ was)
    BY <2>1 DEF LocalOK
  <2>3. /\ m.size = l.size /\ m.start = l.start /\ m.outBuf = l.outBuf /\ m.state = l.state
        /\ m.inPreSize = l.inPreSize /\ m.outPreSize = l.outPreSize /\ m.needWrite = l.needWrite
        /\ m.isAllocError = l.isAllocError /\ m.threadingError = l.threadingError
        /\ m.overflow = l.overflow /\ m.blockIndex = l.blockIndex
        /\ m.links = l.links /\ m.last = l.last /\ m.inCodeSize = l.inCodeSize
    BY <2>1 DEF LocalOK
  <2> HIDE DEF m, l
  <2>4. LocalOK(m)
    BY <1>5, <2>1, <2>2, <2>3 DEF LocalOK
  <2> QED BY <1>r, <1>5, <2>1, <2>2, <2>3, <2>4 DEF LocalOK
<1>10. th'[t].l = m /\ th'[t].inBuf = th[t].inBuf /\ pc'[t] = "start_next"
  <2>1. th' = [th EXCEPT ![t].l = m]
    BY <1>2 DEF SetLocals
  <2> QED BY <1>1, <1>4, <2>1 DEF ThreadOK
<1> HIDE DEF m, mm
<1>11. Others(t)
  BY ThreadOthers DEF Thread
<1>12. Carries(t)
  <2>1. Working(t)' /\ ~ InBlock(t)' /\ bi(t)' = bi(t)
    BY <1>9, <1>10 DEF Working, Reading, InBlock, bi
  <2> QED BY <1>1, <1>10, <1>11, <2>1 DEF Carries
<1>13. PICK a, b : a = B[bi(t)] /\ b = B[bi(t) + 1]
  OBVIOUS
<1>14. Sized(l, a, b) /\ (l.needCode => l.needWrite) /\ l.inPreSize <= l.size
  BY <1>3, <1>13 DEF HasBlock, Sized
<1>15. LeftToOther(m) => LeftToOther(l) \/ code = "MEM"
  BY <1>9 DEF LeftToOther, NoMemory
<1>16. LeftToOther(l) => LeftToOther(m)
  BY <1>4, <1>9 DEF LeftToOther, NoMemory, OK
<1>17. l.coderRes = OK
  BY <1>4, <1>14 DEF Sized
<1>18. Sized(m, a, b)
  <2>1. b = a + m.size /\ m.inPreSize <= m.size
    BY <1>9, <1>14 DEF Sized
  <2>2. ~ m.needCode => m.wasInterrupted \/ LeftToOther(m) \/ m.codeRes # OK
    BY <1>4, <1>6, <1>9, <1>14, <1>16 DEF Sized
  <2>3. m.needCode => m.needWrite
    BY <1>9, <1>14
  <2>4. LeftToOther(m) => m.finish
    BY <1>9, <1>14, <1>15 DEF Sized, OK
  <2>5. m.coderRes # OK => m.codeRes # OK
    BY <1>9, <1>17 DEF OK
  <2>6. m.state = "NEW" /\ m.finish => LeftToOther(m) \/ m.codeRes # OK \/ m.wasInterrupted
    BY <1>4, <1>6, <1>9, <1>14, <1>16 DEF Sized
  <2>7. m.state = "NEW" /\ ~ m.finish =>
          m.inPreSize = m.size /\ m.outPreSize = Outputs(b) - Outputs(a)
    BY <1>9, <1>14 DEF Sized
  <2> QED BY <2>1, <2>2, <2>3, <2>4, <2>5, <2>6, <2>7 DEF Sized
<1>19. l.needCode /\ ~ was /\ code # "DATA" => l.size > 0
  <2>1. l.inPreSize \in Nat /\ l.size \in Int
    BY <1>4 DEF LocalOK
  <2> QED BY <1>8, <1>14, <2>1
<1>20. ~ m.finish => m.size > 0
  <2>1. code # OK => m.finish
    BY <1>9
  <2> QED BY <1>7, <1>9, <1>19, <2>1 DEF OK
<1>21. Ends(t) => Ends(t)'
  <2>1. LeftToOther(m) => m.size > 0 \/ (LeftToOther(l) /\ m.size = l.size)
    BY <1>8, <1>9, <1>15, <1>19
  <2> QED BY <1>9, <1>10, <2>1 DEF Ends
<1>22. Unleveled(t) => Unleveled(t)'
  BY <1>9, <1>10, <1>u DEF Unleveled
<1>23. RunsDry(t)' => RunsDry(t)
  BY <1>9, <1>10 DEF RunsDry
<1>24. m.res = OK /\ m.size = th[t].l.size /\ m.start = th[t].l.start /\ IsSeq(m.outBuf)
  BY <1>3, <1>9
<1> QED BY <1>10, <1>12, <1>13, <1>18, <1>20, <1>21, <1>22, <1>23, <1>24, CarryKeeps

(* The last block: no thread reads after this one.                         *)
LEMMA StartNonePlaced ==
  ASSUME Shape, Control, NEW n, NEW B, Placed(n, B), NEW t \in Threads, StartNone(t)
  PROVE  Placed(n, B)'
<1> DEFINE l == th[t].l
<1>1. /\ pc[t] = "start_next" /\ l.finish /\ pc' = [pc EXCEPT ![t] = AfterStart(l)]
      /\ th' = th /\ rd' = rd /\ wr' = wr /\ out' = out /\ Working(t) /\ ~ InBlock(t)
  BY DEF StartNone, Working, Reading, InBlock
<1>2. pc'[t] = AfterStart(l) /\ pc'[t] \in {"code", "wait_write"}
  BY <1>1 DEF AfterStart, Shape
<1>3. Others(t)
  BY ThreadOthers DEF Thread
<1>4. Carries(t)
  <2>1. Working(t)' /\ ~ InBlock(t)' /\ bi(t)' = bi(t)
    BY <1>1, <1>2 DEF Working, Reading, InBlock, bi
  <2> QED BY <1>1, <1>3, <2>1 DEF Carries
<1>5. PICK a, b, m : a = B[bi(t)] /\ b = B[bi(t) + 1] /\ m = l
  OBVIOUS
<1>6. m.res = OK /\ IsSeq(m.outBuf) /\ Sized(m, a, b)
  BY <1>1, <1>5 DEF Placed, HasPlace, HasBlock
<1>7. /\ Ends(t) => Ends(t)'
      /\ Unleveled(t) => Unleveled(t)'
      /\ RunsDry(t)' => RunsDry(t)
  BY <1>1 DEF Ends, Unleveled, RunsDry
<1>8. m = th'[t].l /\ m.size = th[t].l.size /\ m.start = th[t].l.start /\ m.finish
  BY <1>1, <1>5
<1> QED BY <1>4, <1>5, <1>6, <1>7, <1>8, CarryKeeps

(* The next thread is let read, or there cannot be one.                    *)
LEMMA StartNextPlaced ==
  ASSUME Shape, Control, NEW n, NEW B, Placed(n, B), NEW t \in Threads, StartNext(t)
  PROVE  Placed(n, B)'
<1> DEFINE l == th[t].l
<1>1. /\ pc[t] = "start_next" /\ ~ l.finish /\ wr' = wr /\ out' = out /\ Working(t) /\ ~ InBlock(t)
  BY DEF StartNext, Working, Reading, InBlock
<1>2. /\ ThreadOK(th[t]) /\ LocalOK(l) /\ t \in DOMAIN th /\ RdOK /\ IsRd(rd)
  BY DEF Control, Good, ThreadOK, Shape
<1>3. /\ rd'.pos = rd.pos /\ rd'.cross = rd.cross /\ rd'.finished = rd.finished
      /\ rd'.res = rd.res /\ rd'.outParsed = rd.outParsed /\ rd'.blockIndex = rd.blockIndex
  <2>1. \/ rd' = rd \/ rd' = [rd EXCEPT !.started = @ + 1] \/ rd' = [rd EXCEPT !.limit = rd.started]
    BY DEF StartNext
  <2> QED BY <1>2, <2>1 DEF RdOK
<1>4. bi(t)' = bi(t) /\ pc'[t] \in {"code", "wait_write"} /\ Others(t)
  BY StartNextControl, ThreadOthers DEF Thread
<1>5. PICK m : /\ th' = [th EXCEPT ![t].l = m]
               /\ \/ \E k : m = [l EXCEPT !.next = k]
                  \/ m = [l EXCEPT !.finish = TRUE, !.needCode = FALSE, !.threadingError = TRUE]
  BY DEF StartNext, SetLocals
<1>6. /\ m.res = l.res /\ m.outBuf = l.outBuf /\ m.size = l.size /\ m.start = l.start
      /\ m.inPreSize = l.inPreSize /\ m.wasInterrupted = l.wasInterrupted /\ m.codeRes = l.codeRes
      /\ m.coderRes = l.coderRes /\ m.needWrite = l.needWrite /\ m.state = l.state
      /\ m.outPreSize = l.outPreSize /\ m.isAllocError = l.isAllocError /\ m.overflow = l.overflow
  BY <1>2, <1>5 DEF LocalOK
<1>7. \/ m.finish = l.finish /\ m.needCode = l.needCode /\ m.threadingError = l.threadingError
      \/ m.finish = TRUE /\ m.needCode = FALSE /\ m.threadingError = TRUE
  BY <1>2, <1>5 DEF LocalOK
<1>8. th'[t].l = m /\ th'[t].inBuf = th[t].inBuf
  BY <1>2, <1>5 DEF ThreadOK
<1>9. Carries(t)
  <2>1. Working(t)' /\ ~ InBlock(t)'
    BY <1>4 DEF Working, Reading, InBlock
  <2> QED BY <1>1, <1>3, <1>4, <1>8, <2>1 DEF Carries
<1>10. PICK a, b : a = B[bi(t)] /\ b = B[bi(t) + 1]
  OBVIOUS
<1>11. l.res = OK /\ IsSeq(l.outBuf) /\ Sized(l, a, b) /\ l.size > 0
  BY <1>1, <1>10 DEF Placed, HasPlace, HasBlock
<1>12. Sized(m, a, b)
  <2>1. CASE m.finish = l.finish /\ m.needCode = l.needCode /\ m.threadingError = l.threadingError
    <3>1. LeftToOther(m) <=> LeftToOther(l)
      BY <1>6, <2>1 DEF LeftToOther, NoMemory
    <3> QED BY <1>6, <1>11, <2>1, <3>1 DEF Sized
  <2>2. CASE m.finish = TRUE /\ m.needCode = FALSE /\ m.threadingError = TRUE
    <3>1. LeftToOther(m)
      BY <2>2 DEF LeftToOther
    <3> QED BY <1>6, <1>11, <2>2, <3>1 DEF Sized
  <2> QED BY <1>7, <2>1, <2>2
<1>13. /\ Ends(t) => Ends(t)'
       /\ Unleveled(t) => Unleveled(t)'
       /\ RunsDry(t)' => RunsDry(t)
  BY <1>1, <1>6, <1>7, <1>8 DEF Ends, Unleveled, RunsDry
<1>14. m.res = OK /\ IsSeq(m.outBuf) /\ m.size > 0 /\ m.size = th[t].l.size
       /\ m.start = th[t].l.start
  BY <1>6, <1>11
<1> QED BY <1>8, <1>9, <1>10, <1>12, <1>13, <1>14, CarryKeeps

(* The Code callback: the block stays what it is.                          *)
LEMMA CodePlaced ==
  ASSUME Shape, Control, NEW n, NEW B, Placed(n, B), NEW t \in Threads,
         CodeFails(t) \/ CodeLink(t) \/ CodeUnprepared(t), sync'.res = OK
  PROVE  Placed(n, B)'
<1> DEFINE l == th[t].l
           c == Coded(t)
<1>1. /\ pc[t] = "code" /\ Working(t) /\ ~ InBlock(t) /\ rd' = rd /\ wr' = wr /\ out' = out
      /\ Flags(t) /\ ThreadOK(th[t]) /\ LocalOK(l) /\ t \in DOMAIN th /\ t \in DOMAIN pc /\ SyncOK
  BY DEF CodeFails, CodeLink, CodeUnprepared, Working, Reading, InBlock, Control, Good, ThreadOK,
         Shape
<1>2. Others(t)
  BY ThreadOthers DEF Thread
<1>3. PICK a, b : a = B[bi(t)] /\ b = B[bi(t) + 1]
  OBVIOUS
<1>4. l.res = OK /\ IsSeq(l.outBuf) /\ Sized(l, a, b) /\ (~ l.finish => l.size > 0)
  BY <1>1, <1>3 DEF Placed, HasPlace, HasBlock
<1>5. l.wasInterrupted => InterruptedBefore(l.blockIndex)
  BY <1>1 DEF Flags
<1>6. IsSeq(c.buf) /\ c.pos \in Int
  <2>1. c.pos \in Int
    BY <1>1, CodedTypes
  <2>2. PICK s : \E k \in Nat : c.buf = l.outBuf \o Output(input.bytes, s, k)
    BY <1>1, CodedTypes
  <2>3. PICK k \in Nat : c.buf = l.outBuf \o Output(input.bytes, s, k)
    BY <2>2
  <2>4. IsSeq(Output(input.bytes, s, k))
    BY OutputIs
  <2> HIDE DEF l, c
  <2> QED BY <1>4, <2>1, <2>3, <2>4, SeqJoins
<1>7. ASSUME NEW m, th'[t].l = m, th'[t].inBuf = th[t].inBuf,
             pc'[t] \in {"code", "wait_write"}, m.res = OK, IsSeq(m.outBuf), m.size = l.size, m.start = l.start, m.inPreSize = l.inPreSize,
             m.outPreSize = l.outPreSize, m.state = l.state, m.needWrite = l.needWrite,
             m.needCode = l.needCode, m.finish = l.finish, m.isAllocError = l.isAllocError,
             m.overflow = l.overflow, m.threadingError = l.threadingError,
             m.blockIndex = l.blockIndex, l.wasInterrupted => m.wasInterrupted,
             \/ m.codeRes = l.codeRes /\ m.coderRes = l.coderRes
             \/ m.codeRes \in {"DATA", "FAIL"}
      PROVE  Placed(n, B)'
  <2>1. th'[t].l = m /\ th'[t].inBuf = th[t].inBuf
    BY <1>7
  <2>2. Carries(t)
    <3>1. Working(t)' /\ ~ InBlock(t)' /\ bi(t)' = bi(t)
      BY <1>7, <2>1 DEF Working, Reading, InBlock, bi
    <3> QED BY <1>1, <1>2, <2>1, <3>1 DEF Carries
  <2>3. LeftToOther(m) => LeftToOther(l)
    BY <1>7 DEF LeftToOther, NoMemory
  <2>4. m.codeRes = OK => /\ m.codeRes = l.codeRes /\ m.coderRes = l.coderRes
                          /\ (LeftToOther(l) => LeftToOther(m))
    BY <1>7 DEF LeftToOther, NoMemory, OK
  <2>5. Sized(m, a, b)
    <3>1. CASE m.codeRes = OK
      BY <1>4, <1>7, <2>3, <2>4, <3>1 DEF Sized
    <3>2. CASE m.codeRes # OK
      BY <1>4, <1>7, <2>3, <3>2 DEF Sized
    <3> QED BY <3>1, <3>2
  <2>6. /\ Ends(t) => Ends(t)'
        /\ Unleveled(t) => Unleveled(t)'
        /\ RunsDry(t)' => RunsDry(t)
    BY <1>1, <1>7, <2>1, <2>3 DEF Ends, Unleveled, RunsDry
  <2>7. m = th'[t].l /\ m.size = th[t].l.size /\ m.start = th[t].l.start
        /\ (~ m.finish => m.size > 0)
    BY <1>4, <1>7, <2>1
  <2> QED BY <1>3, <1>7, <2>2, <2>5, <2>6, <2>7, CarryKeeps
<1> HIDE DEF c, l
<1> DEFINE m0 == AfterCode(l, c)
<1>8. /\ LocalOK(m0) /\ m0.res = OK /\ IsSeq(m0.outBuf) /\ m0.size = l.size /\ m0.start = l.start
      /\ m0.inPreSize = l.inPreSize
      /\ m0.outPreSize = l.outPreSize /\ m0.state = l.state /\ m0.needWrite = l.needWrite
      /\ m0.needCode = l.needCode /\ m0.finish = l.finish /\ m0.isAllocError = l.isAllocError
      /\ m0.overflow = l.overflow /\ m0.threadingError = l.threadingError
      /\ m0.blockIndex = l.blockIndex /\ m0.wasInterrupted = l.wasInterrupted
      /\ m0.codeRes = l.codeRes /\ m0.coderRes = l.coderRes
  BY <1>1, <1>4, <1>6 DEF AfterCode, LocalOK
<1> HIDE DEF m0
<1>t. ASSUME NEW m, th' = [th EXCEPT ![t].l = m]
      PROVE  th'[t].l = m /\ th'[t].inBuf = th[t].inBuf
  BY <1>1, <1>t DEF ThreadOK
<1>9. CASE CodeFails(t)
  <2> DEFINE m == [m0 EXCEPT !.codeRes = IF c.ok THEN "FAIL" ELSE "DATA",
                             !.coderRes = IF c.ok THEN OK ELSE "DATA"]
  <2>1. th' = [th EXCEPT ![t].l = m] /\ pc' = [pc EXCEPT ![t] = "wait_write"]
    BY <1>9 DEF CodeFails, SetLocals, c, l, m0
  <2>2. /\ m.res = OK /\ IsSeq(m.outBuf) /\ m.size = l.size /\ m.start = l.start
        /\ m.inPreSize = l.inPreSize
        /\ m.outPreSize = l.outPreSize /\ m.state = l.state /\ m.needWrite = l.needWrite
        /\ m.needCode = l.needCode /\ m.finish = l.finish /\ m.isAllocError = l.isAllocError
        /\ m.overflow = l.overflow /\ m.threadingError = l.threadingError
        /\ m.blockIndex = l.blockIndex /\ (l.wasInterrupted => m.wasInterrupted)
        /\ m.codeRes \in {"DATA", "FAIL"}
    BY <1>8 DEF LocalOK
  <2>3. pc'[t] \in {"code", "wait_write"}
    BY <1>1, <2>1
  <2> HIDE DEF m
  <2> QED BY <1>7, <1>t, <2>1, <2>2, <2>3
<1>10. CASE CodeLink(t)
  <2>1. CASE c.stop
    <3>1. th' = [th EXCEPT ![t].l = m0] /\ pc' = [pc EXCEPT ![t] = "wait_write"]
      BY <1>10, <2>1 DEF CodeLink, SetLocals, c, l, m0
    <3>2. pc'[t] \in {"code", "wait_write"}
      BY <1>1, <3>1
    <3> QED BY <1>7, <1>8, <1>t, <3>1, <3>2
  <2>2. CASE ~ c.stop
    <3> DEFINE was == InterruptedBefore(l.blockIndex)
    <3>1. PICK r \in ProgressResults :
            /\ sync' = [sync EXCEPT !.res = r]
            /\ SetLocals(t, [m0 EXCEPT !.res = r, !.wasInterrupted = was])
            /\ pc' = [pc EXCEPT ![t] = IF r = OK /\ ~ was THEN "code" ELSE "wait_write"]
      BY <1>10, <2>2 DEF CodeLink, m0, c, l
    <3> DEFINE m == [m0 EXCEPT !.res = r, !.wasInterrupted = was]
    <3>2. r = OK
      BY <1>1, <3>1 DEF SyncOK
    <3>3. th' = [th EXCEPT ![t].l = m]
      BY <3>1 DEF SetLocals
    <3>4. pc'[t] \in {"code", "wait_write"}
      BY <1>1, <3>1
    <3>5. l.wasInterrupted => was
      BY <1>5
    <3> HIDE DEF was
    <3>6. /\ m.res = OK /\ IsSeq(m.outBuf) /\ m.size = l.size /\ m.start = l.start
          /\ m.inPreSize = l.inPreSize
          /\ m.outPreSize = l.outPreSize /\ m.state = l.state /\ m.needWrite = l.needWrite
          /\ m.needCode = l.needCode /\ m.finish = l.finish /\ m.isAllocError = l.isAllocError
          /\ m.overflow = l.overflow /\ m.threadingError = l.threadingError
          /\ m.blockIndex = l.blockIndex /\ (l.wasInterrupted => m.wasInterrupted)
          /\ m.codeRes = l.codeRes /\ m.coderRes = l.coderRes
      BY <1>8, <3>2, <3>5 DEF LocalOK
    <3> HIDE DEF m
    <3> QED BY <1>7, <1>t, <3>3, <3>4, <3>6
  <2> QED BY <2>1, <2>2
<1>11. CASE CodeUnprepared(t)
  <2>0. pc' = [pc EXCEPT ![t] = "wait_write"]
    BY <1>11 DEF CodeUnprepared
  <2>1. pc'[t] \in {"code", "wait_write"}
    BY <1>1, <2>0
  <2>2. CASE SetLocals(t, [l EXCEPT !.codeRes = "DATA", !.coderRes = "DATA"])
    <3> DEFINE m == [l EXCEPT !.codeRes = "DATA", !.coderRes = "DATA"]
    <3>1. th' = [th EXCEPT ![t].l = m]
      BY <2>2 DEF SetLocals
    <3>2. /\ m.res = OK /\ IsSeq(m.outBuf) /\ m.size = l.size /\ m.start = l.start
          /\ m.inPreSize = l.inPreSize
          /\ m.outPreSize = l.outPreSize /\ m.state = l.state /\ m.needWrite = l.needWrite
          /\ m.needCode = l.needCode /\ m.finish = l.finish /\ m.isAllocError = l.isAllocError
          /\ m.overflow = l.overflow /\ m.threadingError = l.threadingError
          /\ m.blockIndex = l.blockIndex /\ (l.wasInterrupted => m.wasInterrupted)
          /\ m.codeRes \in {"DATA", "FAIL"}
      BY <1>1, <1>4 DEF LocalOK
    <3> HIDE DEF m
    <3> QED BY <1>7, <1>t, <2>1, <3>1, <3>2
  <2>3. CASE UNCHANGED <<th, sync>>
    <3>1. th'[t].l = l /\ th'[t].inBuf = th[t].inBuf
      BY <2>3 DEF l
    <3> QED BY <1>4, <1>7, <2>1, <3>1
  <2> QED BY <1>11, <2>2, <2>3 DEF CodeUnprepared, l
<1> QED BY <1>9, <1>10, <1>11

(* The blocks of those who work are the last n, the writer's the first.    *)
LEMMA InRound ==
  ASSUME Shape, NEW w \in 0 .. MaxThreads, NEW n \in 0 .. MaxThreads, Round(w, n)
  PROVE  /\ rd.blockIndex \in Nat /\ n \in Nat /\ rd.blockIndex - n \in Nat
         /\ rd.blockIndex - n <= rd.blockIndex /\ w \in Threads
         /\ n > 0 => Working(w) /\ bi(w) = rd.blockIndex - n
         /\ \A u \in Threads : Working(u) =>
              /\ bi(u) \in Nat /\ bi(u) + 1 \in Nat /\ bi(u) + 1 <= rd.blockIndex
              /\ bi(u) <= rd.blockIndex /\ n > 0
              /\ u # w => rd.blockIndex - n < bi(u)
<1>1. /\ rd.started \in 1 .. MaxThreads /\ w \in 0 .. rd.started - 1 /\ n \in 0 .. rd.started
      /\ MaxThreads \in Nat /\ \A u \in Threads : bi(u) \in Nat
      /\ rd.blockIndex \in Nat
  BY ThreadZero DEF Shape, IsRd, IsThread, IsLocal, bi, Round
<1>2. \A u \in Threads : Working(u) <=> u < rd.started /\ From(rd.started, w, u) < n
  BY DEF Round
<1>3. \A u \in Threads : Working(u) => bi(u) = rd.blockIndex - n + From(rd.started, w, u)
  BY DEF Round
<1>4. \A u \in Threads : u < rd.started =>
        From(rd.started, w, u) \in Nat /\ (u # w => From(rd.started, w, u) > 0)
  BY <1>1 DEF From, Threads
<1>5. w \in Threads /\ w < rd.started /\ From(rd.started, w, w) = 0
  BY <1>1 DEF Threads, From
<1>6. n > 0 => Working(w) /\ bi(w) = rd.blockIndex - n
  BY <1>1, <1>2, <1>3, <1>5
<1>7. rd.blockIndex - n \in Nat
  <2>1. CASE n > 0
    BY <1>1, <1>5, <1>6, <2>1
  <2>2. CASE n = 0
    BY <1>1, <2>2
  <2> QED BY <1>1, <2>1, <2>2
<1>8. ASSUME NEW u \in Threads, Working(u)
      PROVE  /\ bi(u) \in Nat /\ bi(u) + 1 \in Nat /\ bi(u) + 1 <= rd.blockIndex
             /\ bi(u) <= rd.blockIndex /\ n > 0
             /\ u # w => rd.blockIndex - n < bi(u)
  <2>1. PICK f : f = From(rd.started, w, u)
    OBVIOUS
  <2>2. f \in Nat /\ f < n /\ (u # w => f > 0) /\ bi(u) = rd.blockIndex - n + f /\ bi(u) \in Nat
    BY <1>1, <1>2, <1>3, <1>4, <1>8, <2>1
  <2> QED BY <1>1, <2>2
<1> QED BY <1>1, <1>5, <1>6, <1>7, <1>8

(* A thread takes the next block: it looks for its end, or passes.         *)
LEMMA WaitReadPlaced ==
  ASSUME Shape, Control, mainPc = "run",
         NEW w \in 0 .. MaxThreads, NEW n \in 0 .. MaxThreads, Round(w, n),
         NEW B, Placed(n, B), NEW t \in Threads, WaitRead(t), sync'.res = OK
  PROVE  \E C : Placed(n + 1, C)'
<1>1. /\ Pending(w, n) /\ ~ Working(t) /\ ~ exitThread /\ pc[t] = "wait_read"
      /\ t \in DOMAIN th /\ t \in DOMAIN pc /\ SyncOK /\ RdOK
  BY WaitReadKeeps DEF Round, WaitRead, Shape, Control
<1>2. /\ rd' = [rd EXCEPT !.blockIndex = @ + 1] /\ wr' = wr /\ out' = out
      /\ rd.blockIndex \in Nat
  BY <1>1 DEF WaitRead, Shape, IsRd
<1>3. /\ rd'.pos = rd.pos /\ rd'.cross = rd.cross /\ rd'.finished = rd.finished
      /\ rd'.res = rd.res /\ rd'.outParsed = rd.outParsed /\ rd'.blockIndex = rd.blockIndex + 1
      /\ rd.pos \in Nat /\ Len(rd.cross) \in Nat
  BY <1>1, <1>2 DEF RdOK
<1> DEFINE was == InterruptedBefore(rd.blockIndex)
<1>4. PICK r \in ProgressResults :
        /\ sync' = [sync EXCEPT !.res = r]
        /\ SetLocals(t, [Fresh EXCEPT !.blockIndex = rd.blockIndex, !.res = r,
                                      !.wasInterrupted = was, !.finish = rd.finished])
        /\ pc' = [pc EXCEPT ![t] = IF r = OK /\ ~ was THEN "read" ELSE "pass"]
  BY <1>1 DEF WaitRead
<1>5. r = OK
  BY <1>1, <1>4 DEF SyncOK
<1>6. was \in BOOLEAN
  BY <1>1 DEF InterruptedBefore, SyncOK
<1> HIDE DEF was
<1> DEFINE m == [Fresh EXCEPT !.blockIndex = rd.blockIndex, !.res = r,
                              !.wasInterrupted = was, !.finish = rd.finished]
<1>7. /\ m.blockIndex = rd.blockIndex /\ m.res = OK /\ (m.wasInterrupted <=> was)
      /\ m.finish = rd.finished /\ ~ m.needCode /\ ~ m.needWrite /\ m.coderRes = OK /\ m.codeRes = OK
      /\ m.size = 0 /\ m.start = 0 /\ m.links = 0 /\ m.inPreSize = 0 /\ m.outPreSize = 0
      /\ m.state = "CONTINUE" /\ ~ LeftToOther(m) /\ IsSeq(m.outBuf)
  <2>1. << >> \in Seq({})
    OBVIOUS
  <2> QED BY <1>5, <1>6, <2>1 DEF Fresh, LeftToOther, NoMemory, IsSeq, OK
<1> HIDE DEF m
<1>8. th'[t].l = m /\ pc'[t] = IF was THEN "pass" ELSE "read"
  <2>1. th' = [th EXCEPT ![t].l = m]
    BY <1>4 DEF SetLocals, m
  <2>2. th'[t] = [th[t] EXCEPT !.l = m] /\ "l" \in DOMAIN th[t]
    BY <1>1, <2>1 DEF Shape, IsThread
  <2> QED BY <1>1, <1>4, <1>5, <2>2
<1>9. Others(t)
  BY ThreadOthers DEF Thread
<1>10. input' = input /\ \A p : (Outputs(p)' = Outputs(p)) /\ (Terminal(p)' <=> Terminal(p))
  BY <1>9, SameInput DEF Others
<1>11. /\ rd.blockIndex - n \in Nat /\ rd.blockIndex - n <= rd.blockIndex /\ n \in Nat
       /\ \A u \in Threads : Working(u) =>
            bi(u) \in Nat /\ bi(u) + 1 \in Nat /\ bi(u) + 1 <= rd.blockIndex /\ bi(u) <= rd.blockIndex
  BY InRound
<1>12. PICK e : e = B[rd.blockIndex]
  OBVIOUS
<1>13. Front(e) /\ Level(e) /\ e \in Nat
  <2>1. \A u \in Threads : ~ InBlock(u)
    BY <1>1 DEF Pending, InBlock, Working, Reading
  <2>2. \A u \in Threads : IsLast(u) => ~ Ends(u) /\ ~ Unleveled(u)
    BY <1>1 DEF Pending, IsLast, Ends, Unleveled, Passes, Reading
  <2>3. NextPlace(e) /\ Places(B)
    BY <1>12, <2>1 DEF Placed
  <2> QED BY <1>2, <1>12, <2>2, <2>3 DEF NextPlace, Places
<1>14. Front(e)' /\ Level(e)' /\ e <= rd'.pos /\ Unbroken'
  <2>1. Unbroken
    BY DEF Placed
  <2>2. e <= rd.pos
    BY <1>3, <1>13 DEF Front
  <2> QED BY <1>2, <1>3, <1>10, <1>13, <2>1, <2>2 DEF Front, Level, Drained, Unbroken, NeedContinue
<1> DEFINE CC == [i \in Nat |-> IF i <= rd.blockIndex THEN B[i] ELSE e]
<1>15. PICK C : C = CC
  OBVIOUS
<1>16. /\ Places(C) /\ C[rd.blockIndex] = e /\ C[rd.blockIndex + 1] = e
       /\ \A i \in Nat : i <= rd.blockIndex => C[i] = B[i]
  <2>1. B \in [Nat -> Nat] /\ \A i, j \in Nat : i <= j => B[i] <= B[j]
    BY DEF Placed, Places
  <2>2. C \in [Nat -> Nat] /\ \A i \in Nat : C[i] = IF i <= rd.blockIndex THEN B[i] ELSE e
    BY <1>13, <1>15, <2>1
  <2>3. ASSUME NEW i \in Nat, NEW j \in Nat, i <= j PROVE C[i] <= C[j]
    <3>1. CASE j <= rd.blockIndex
      BY <1>2, <2>1, <2>2, <2>3, <3>1
    <3>2. CASE ~ (j <= rd.blockIndex) /\ i <= rd.blockIndex
      BY <1>2, <1>12, <2>1, <2>2, <3>2
    <3>3. CASE ~ (j <= rd.blockIndex) /\ ~ (i <= rd.blockIndex)
      BY <1>13, <2>2, <3>3
    <3> QED BY <3>1, <3>2, <3>3
  <2>4. C[rd.blockIndex] = e /\ C[rd.blockIndex + 1] = e
    BY <1>2, <1>12, <2>2
  <2> QED BY <2>2, <2>3, <2>4 DEF Places
<1>17. bi(t)' = rd.blockIndex /\ Working(t)' /\ (InBlock(t)' <=> ~ was)
  BY <1>7, <1>8 DEF bi, Working, Reading, InBlock
<1>18. HasPlace(t, C)'
  <2>0. (th[t].l.res = OK)' /\ IsSeq(th[t].l.outBuf)' /\ C[bi(t)'] = e /\ C[bi(t)' + 1] = e
    BY <1>7, <1>8, <1>16, <1>17
  <2>1. CASE ~ was
    <3>1. pc'[t] = "read" /\ Unparsed(m)
      BY <1>7, <1>8, <2>1 DEF Unparsed
    <3>2. AtRead(t, e)'
      BY <1>7, <1>8, <1>14 DEF AtRead
    <3>3. Reader(t, e)'
      BY <1>3, <1>7, <1>8, <1>14, <3>1, <3>2 DEF Reader
    <3> QED BY <1>17, <2>0, <2>1, <3>3 DEF HasPlace
  <2>2. CASE was
    <3>1. pc'[t] = "pass"
      BY <1>8, <2>2
    <3>2. PICK k : k = m
      OBVIOUS
    <3>3. Sized(k, e, e)'
      <4>1. e = e + 0 /\ 0 <= 0
        BY <1>13
      <4> QED BY <1>7, <2>2, <3>2, <4>1 DEF Sized
    <3>4. HasBlock(t, e, e)'
      <4>1. Holds(th'[t].inBuf, e, 0, 0)
        BY <1>13, HoldsNothing
      <4>2. th'[t].l = k /\ k.size = 0 /\ k.start = 0
        BY <1>7, <1>8, <3>2
      <4> QED BY <1>14, <3>1, <3>3, <4>1, <4>2 DEF HasBlock
    <3> QED BY <1>17, <2>0, <2>2, <3>4 DEF HasPlace
  <2> QED BY <2>1, <2>2
<1>19. ASSUME NEW u \in Threads, Working(u)' PROVE HasPlace(u, C)'
  <2>1. CASE u = t
    BY <1>18, <2>1
  <2>2. CASE u # t
    <3>1. th'[u] = th[u] /\ pc'[u] = pc[u] /\ Working(u) /\ ~ InBlock(u)
      BY <1>1, <1>9, <1>19, <2>2 DEF Others, Working, Reading, Pending, InBlock
    <3>2. HasPlace(u, B) /\ B \in [Nat -> Nat]
      BY <3>1 DEF Placed, Places
    <3>3. PICK i, j : i = bi(u) /\ j = bi(u) + 1
      OBVIOUS
    <3>4. i \in Nat /\ j \in Nat /\ i <= rd.blockIndex /\ j <= rd.blockIndex
      BY <1>11, <3>1, <3>3
    <3>5. C[i] = B[i] /\ C[j] = B[j] /\ B[j] \in Int
      BY <1>16, <3>2, <3>4
    <3>6. rd.pos \in Int /\ rd'.pos \in Int /\ rd.pos <= rd'.pos
      BY <1>3
    <3> QED BY <1>10, <3>1, <3>2, <3>3, <3>5, <3>6, PlaceStays
  <2> QED BY <2>1, <2>2
<1>20. (\E u \in Threads : InBlock(u)') \/ NextPlace(C[rd.blockIndex])'
  <2>1. CASE ~ was
    BY <1>17, <2>1
  <2>2. CASE was
    <3>1. ASSUME NEW u \in Threads, IsLast(u)', RunsDry(u)' PROVE FALSE
      <4>1. CASE u = t
        BY <1>7, <1>8, <3>1, <4>1 DEF RunsDry
      <4>2. CASE u # t
        <5>1. th'[u] = th[u] /\ pc'[u] = pc[u] /\ Working(u)
          BY <1>9, <3>1, <4>2 DEF Others, Working, Reading, IsLast
        <5>2. bi(u)' = bi(u) /\ bi(u) \in Nat /\ bi(u) + 1 <= rd.blockIndex
          BY <1>11, <5>1 DEF bi
        <5>3. bi(u)' = rd'.blockIndex - 1
          BY <3>1 DEF IsLast
        <5> QED BY <1>2, <1>3, <5>2, <5>3
      <4> QED BY <4>1, <4>2
    <3>2. NextPlace(e)'
      BY <1>14, <3>1 DEF NextPlace
    <3>3. e = C[rd'.blockIndex]
      BY <1>3, <1>16
    <3> QED BY <3>2, <3>3
  <2> QED BY <2>1, <2>2
<1>21. Written(C[rd.blockIndex - (n + 1)])'
  <2>1. PICK p : p = B[rd.blockIndex - n]
    OBVIOUS
  <2>2. Written(p)
    BY <2>1 DEF Placed
  <2>3. Written(p)'
    BY <1>2, <1>3, <1>10, <2>2 DEF Written, Drained
  <2>4. p = C[rd.blockIndex - n]
    BY <1>11, <1>16, <2>1
  <2>5. rd'.blockIndex - (n + 1) = rd.blockIndex - n
    BY <1>2, <1>3, <1>11
  <2> QED BY <2>3, <2>4, <2>5
<1> QED BY <1>14, <1>16, <1>19, <1>20, <1>21 DEF Placed

(* What the Write callback gives to the stream, and how much it says.      *)
LEMMA WriteGives ==
  ASSUME NEW l, LocalOK(l), NEW toStream \in BOOLEAN, NEW cb \in WriteResults(l, toStream)
  PROVE  /\ cb.recode /\ cb.res = OK => cb.out = out /\ cb.used = 0
         /\ ~ l.needWrite => cb.out = out /\ cb.used = 0
         /\ ~ cb.recode /\ cb.res = OK =>
              /\ cb.out.bytes = out.bytes \o l.outBuf /\ cb.used = l.inCodeSize
              /\ l.coderRes = OK /\ BlockFinished(l) =>
                   l.outPreSize = Len(l.outBuf) /\ l.inPreSize = l.inCodeSize
<1> DEFINE wrote(res, bytes, cont) ==
             [res |-> res, cont |-> cont, recode |-> FALSE, used |-> l.inCodeSize,
              out |-> [bytes |-> out.bytes \o bytes, failed |-> out.failed \/ res # OK]]
           short == /\ l.coderRes = OK /\ BlockFinished(l)
                    /\ l.outPreSize # Len(l.outBuf) \/ l.inPreSize # l.inCodeSize
<1>0. ASSUME NEW res, NEW cont, cb = Kept(res, cont)
      PROVE  cb.recode /\ cb.out = out /\ cb.used = 0
  BY <1>0 DEF Kept
<1>1. CASE ~ l.needWrite
  <2>1. cb = Kept(l.res, ~ l.finish)
    BY <1>1 DEF WriteResults
  <2> QED BY <1>0, <2>1
<1>2. CASE l.needWrite /\ ~ toStream
  <2>1. cb = Kept(OK, FALSE)
    BY <1>2 DEF WriteResults
  <2> QED BY <1>0, <1>2, <2>1
<1>3. CASE l.needWrite /\ toStream
  <2>1. \/ short /\ cb = [Kept("FAIL", FALSE) EXCEPT !.used = l.inCodeSize]
        \/ ~ short /\ cb = wrote(OK, l.outBuf, l.state \in {"CONTINUE", "NEW"})
        \/ \E k : cb = wrote("WRITE", FirstBytes(l.outBuf, k), FALSE)
    BY <1>3 DEF WriteResults
  <2>2. CASE short /\ cb = [Kept("FAIL", FALSE) EXCEPT !.used = l.inCodeSize]
    BY <1>3, <2>2 DEF Kept, OK
  <2>3. CASE ~ short /\ cb = wrote(OK, l.outBuf, l.state \in {"CONTINUE", "NEW"})
    <3>1. /\ cb.res = OK /\ ~ cb.recode /\ cb.used = l.inCodeSize
          /\ cb.out.bytes = out.bytes \o l.outBuf
      BY <2>3
    <3> QED BY <1>3, <2>3, <3>1
  <2>4. CASE \E k : cb = wrote("WRITE", FirstBytes(l.outBuf, k), FALSE)
    BY <1>3, <2>4 DEF OK
  <2> QED BY <2>1, <2>2, <2>3, <2>4
<1> QED BY <1>1, <1>2, <1>3

(* What a writer records when nothing went wrong before.                   *)
LEMMA RecordedFirst ==
  ASSUME WrOK, NEW l, LocalOK(l), ~ wr.interrupted
  PROVE  /\ Recorded(l).interrupted <=> l.codeRes # OK \/ LeftToOther(l)
         /\ Recorded(l).allocError <=> NoMemory(l)
         /\ Recorded(l).threadingError <=> l.threadingError
         /\ Recorded(l).overflow <=> l.overflow
         /\ Recorded(l).inProcessed = wr.inProcessed
         /\ LeftToOther(l) <=> NoMemory(l) \/ l.threadingError \/ l.overflow
<1>1. NoMemory(l) \in BOOLEAN /\ LeftToOther(l) \in BOOLEAN
  BY DEF LocalOK, NoMemory, LeftToOther
<1>2. LeftToOther(l) <=> NoMemory(l) \/ l.threadingError \/ l.overflow
  BY DEF LeftToOther
<1> HIDE DEF NoMemory, LeftToOther
<1> QED BY <1>1, <1>2 DEF Recorded, WrOK, LocalOK

(* A step of the writer after which the call goes on: the block is        *)
(* written, or it is left to the other decoder with what comes after it.   *)
WroteIt(t) ==
  LET l == th[t].l
  IN  /\ ~ LeftToOther(l) /\ l.codeRes = OK /\ l.needCode /\ l.needWrite
      /\ wr'.inProcessed = wr.inProcessed + l.inCodeSize
      /\ ~ wr'.interrupted /\ wr'.numFilled = 0 /\ ~ NeedContinue'
      /\ out'.bytes = out.bytes \o l.outBuf
      /\ l.coderRes = OK /\ BlockFinished(l) =>
           l.outPreSize = Len(l.outBuf) /\ l.inPreSize = l.inCodeSize
      /\ \E cont : HandOn(t, cont) /\ (cont <=> l.state \in {"CONTINUE", "NEW"})

LeftIt(t) ==
  LET l == th[t].l
  IN  /\ LeftToOther(l) /\ l.finish /\ HandOn(t, FALSE) /\ out' = out
      /\ wr.inProcessed \in Int => wr'.inProcessed = wr.inProcessed
      /\ wr'.filledStart = t
      /\ wr'.numFilled = (IF l.size # 0 THEN 1 ELSE 0)
      /\ th'[t].inBuf = th[t].inBuf
      /\ l.size # 0 => th'[t].start = l.start /\ th'[t].size = l.size

(* A writer after which the call goes on did one or the other.             *)
LEMMA WriteGoesOn ==
  ASSUME Shape, Control, NEW t \in Threads, Write(t), Continues',
         ~ wr.interrupted, wr.numFilled = 0, th[t].l.res = OK, ~ th[t].l.wasInterrupted,
         LeftToOther(th[t].l) => th[t].l.finish,
         ~ th[t].l.needCode => LeftToOther(th[t].l) \/ th[t].l.codeRes # OK,
         th[t].l.needCode => th[t].l.needWrite
  PROVE  WroteIt(t) \/ LeftIt(t)
<1> DEFINE l == th[t].l
           was == l.wasInterrupted \/ wr.interrupted
           w == Recorded(l)
           wants == l.needWrite /\ (wr.interrupted \/ ~ LeftToOther(l))
           res(r) == IF l.needCode THEN r ELSE l.res
           failed(cb) == l.needWrite /\ cb.res # OK
           w1(cb) == [w EXCEPT !.interrupted = @ \/ failed(cb), !.inProcessed = @ + cb.used]
           keep(cb) == /\ cb.recode
                       /\ \/ ~ l.needCode \/ cb.res # OK \/ w1(cb).interrupted
                          \/ l.codeRes # OK \/ was \/ w.numFilled # 0
<1>1. /\ Good(t) /\ ThreadOK(th[t]) /\ t \in DOMAIN th /\ t \in DOMAIN pc /\ pc[t] = "wait_write"
      /\ SyncOK /\ WrOK /\ LocalOK(l) /\ l.blockIndex \in Nat
  BY DEF Control, Good, Write, Shape, ThreadOK, LocalOK
<1>3. PICK r \in IF l.needCode THEN ProgressResults ELSE {sync.res} :
        \E cb \in WriteResults([l EXCEPT !.res = res(r)], res(r) = OK /\ wants /\ ~ was) :
          /\ wr' = Filled(t, w1(cb), keep(cb))
          /\ th' = IF keep(cb) /\ (l.size # 0 \/ ~ l.finish)
                   THEN [th EXCEPT ![t] = [@ EXCEPT !.l = Fresh, !.start = l.start,
                                                    !.size = l.size]]
                   ELSE [th EXCEPT ![t].l = Fresh]
          /\ out' = cb.out
          /\ IF failed(cb) \/ (l.needWrite /\ ~ cb.cont /\ ~ l.finish)
             THEN Interrupts(r, l.blockIndex)
             ELSE sync' = [sync EXCEPT !.res = r]
          /\ HandOn(t, cb.cont)
  BY DEF Write
<1> DEFINE lr == [l EXCEPT !.res = res(r)]
           toStream == res(r) = OK /\ wants /\ ~ was
<1>4. PICK cb \in WriteResults(lr, toStream) :
          /\ wr' = Filled(t, w1(cb), keep(cb))
          /\ th' = IF keep(cb) /\ (l.size # 0 \/ ~ l.finish)
                   THEN [th EXCEPT ![t] = [@ EXCEPT !.l = Fresh, !.start = l.start,
                                                    !.size = l.size]]
                   ELSE [th EXCEPT ![t].l = Fresh]
          /\ out' = cb.out
          /\ IF failed(cb) \/ (l.needWrite /\ ~ cb.cont /\ ~ l.finish)
             THEN Interrupts(r, l.blockIndex)
             ELSE sync' = [sync EXCEPT !.res = r]
          /\ HandOn(t, cb.cont)
  BY <1>3
<1>5. r = OK /\ sync'.res = OK /\ (wr'.interrupted => NeedContinue')
  <2>1. sync'.res = OK /\ (wr'.interrupted => NeedContinue')
    BY DEF Continues
  <2>2. Interrupts(r, l.blockIndex) \/ sync' = [sync EXCEPT !.res = r]
    BY <1>4
  <2>3. sync'.res = r
    BY <1>1, <2>2 DEF Interrupts, SyncOK
  <2> QED BY <2>1, <2>3
<1>6. /\ LocalOK(lr) /\ lr.needWrite = l.needWrite /\ lr.finish = l.finish /\ lr.state = l.state
      /\ lr.res = OK /\ lr.outBuf = l.outBuf /\ lr.inCodeSize = l.inCodeSize
      /\ lr.coderRes = l.coderRes /\ lr.outPreSize = l.outPreSize /\ lr.inPreSize = l.inPreSize
  BY <1>1, <1>5 DEF LocalOK, Errors
<1>7. toStream <=> l.needWrite /\ ~ LeftToOther(l)
  BY <1>5
<1>b. toStream \in BOOLEAN
  OBVIOUS
<1> HIDE DEF lr, toStream
<1>8. \/ ~ l.needWrite /\ cb.res = OK /\ cb.cont = ~ l.finish /\ cb.recode
      \/ l.needWrite /\ ~ toStream /\ cb.res = OK /\ ~ cb.cont /\ cb.recode
      \/ l.needWrite /\ toStream /\ cb.res = "FAIL" /\ ~ cb.cont /\ cb.recode
      \/ /\ l.needWrite /\ toStream /\ cb.res = OK /\ ~ cb.recode
         /\ cb.cont <=> l.state \in {"CONTINUE", "NEW"}
      \/ l.needWrite /\ toStream /\ cb.res = "WRITE" /\ ~ cb.cont /\ ~ cb.recode
  BY <1>6, <1>b, WriteAnswers
<1>g. /\ cb.recode /\ cb.res = OK => cb.out = out /\ cb.used = 0
      /\ ~ cb.recode /\ cb.res = OK =>
              /\ cb.out.bytes = out.bytes \o l.outBuf /\ cb.used = l.inCodeSize
              /\ l.coderRes = OK /\ BlockFinished(l) =>
                   l.outPreSize = Len(l.outBuf) /\ l.inPreSize = l.inCodeSize
  <2>1. /\ cb.recode /\ cb.res = OK => cb.out = out /\ cb.used = 0
        /\ ~ cb.recode /\ cb.res = OK =>
              /\ cb.out.bytes = out.bytes \o lr.outBuf /\ cb.used = lr.inCodeSize
              /\ lr.coderRes = OK /\ BlockFinished(lr) =>
                   lr.outPreSize = Len(lr.outBuf) /\ lr.inPreSize = lr.inCodeSize
    BY <1>6, <1>b, WriteGives
  <2>2. BlockFinished(lr) <=> BlockFinished(l)
    BY <1>6 DEF BlockFinished
  <2> HIDE DEF l
  <2> QED BY <1>6, <2>1, <2>2
<1>9. /\ DOMAIN w = DOMAIN wr
      /\ w.filledStart = wr.filledStart /\ w.numFilled = wr.numFilled
      /\ w.interrupted <=> l.codeRes # OK \/ LeftToOther(l)
      /\ (w.allocError \/ w.threadingError \/ w.overflow) <=> LeftToOther(l)
      /\ w.inProcessed = wr.inProcessed
  BY <1>1, RecordedIs, RecordedFirst
<1> DEFINE k == w1(cb)
<1>10. /\ DOMAIN k = DOMAIN wr /\ (k.interrupted <=> w.interrupted \/ failed(cb))
       /\ k.allocError = w.allocError /\ k.threadingError = w.threadingError
       /\ k.overflow = w.overflow /\ k.filledStart = wr.filledStart /\ k.numFilled = wr.numFilled
       /\ k.inProcessed = wr.inProcessed + cb.used
  <2> HIDE DEF w
  <2> QED BY <1>9, <1>1 DEF WrOK
<1>11. keep(cb) <=> /\ cb.recode
                    /\ ~ l.needCode \/ cb.res # OK \/ k.interrupted \/ l.codeRes # OK
  BY <1>9
<1>12. wr' = Filled(t, k, keep(cb))
  BY <1>4
<1> HIDE DEF k, w
<1>13. /\ wr'.interrupted <=> k.interrupted
       /\ NeedContinue' <=> LeftToOther(l)
       /\ wr'.inProcessed = wr.inProcessed + cb.used
       /\ keep(cb) => wr'.filledStart = t /\ wr'.numFilled = (IF l.size # 0 \/ ~ l.finish THEN 1 ELSE 0)
       /\ ~ keep(cb) => wr'.numFilled = 0
  <2>1. CASE keep(cb)
    <3>1. wr' = [k EXCEPT !.filledStart = t,
                          !.numFilled = IF l.size # 0 \/ ~ l.finish THEN 1 ELSE 0]
      <4> HIDE DEF keep
      <4> QED BY <1>10, <1>12, <2>1 DEF Filled
    <3> HIDE DEF keep, failed
    <3> QED BY <1>1, <1>9, <1>10, <2>1, <3>1 DEF WrOK, NeedContinue
  <2>2. CASE ~ keep(cb)
    <3>1. wr' = k
      <4> HIDE DEF keep
      <4> QED BY <1>12, <2>2 DEF Filled
    <3> HIDE DEF keep, failed
    <3> QED BY <1>1, <1>9, <1>10, <2>2, <3>1 DEF WrOK, NeedContinue
  <2> QED BY <2>1, <2>2
<1>14. HandOn(t, cb.cont) /\ out' = cb.out
  BY <1>4
<1>15. CASE ~ LeftToOther(l)
  <2>1. ~ k.interrupted
    BY <1>5, <1>13, <1>15
  <2>2. l.codeRes = OK /\ ~ failed(cb) /\ l.needCode /\ l.needWrite
    BY <1>9, <1>10, <1>15, <2>1
  <2>3. toStream /\ cb.res = OK /\ ~ cb.recode /\ (cb.cont <=> l.state \in {"CONTINUE", "NEW"})
    <3>1. toStream
      BY <1>7, <1>15, <2>2
    <3>2. l.needWrite /\ (l.needWrite => cb.res = OK)
      BY <2>2
    <3> HIDE DEF l, failed, keep, was, wants
    <3> QED BY <1>8, <3>1, <3>2, Zenon DEF OK
  <2>4. ~ keep(cb)
    BY <1>11, <2>3
  <2> HIDE DEF keep, failed
  <2>5. \E cont : HandOn(t, cont) /\ (cont <=> l.state \in {"CONTINUE", "NEW"})
    <3>1. HandOn(t, cb.cont)
      BY <1>14
    <3>2. cb.cont <=> l.state \in {"CONTINUE", "NEW"}
      BY <2>3
    <3> HIDE DEF l
    <3> WITNESS cb.cont
    <3> QED BY <3>1, <3>2
  <2>6. /\ cb.out.bytes = out.bytes \o l.outBuf /\ cb.used = l.inCodeSize
        /\ l.coderRes = OK /\ BlockFinished(l) =>
              l.outPreSize = Len(l.outBuf) /\ l.inPreSize = l.inCodeSize
    BY <1>g, <2>3
  <2>7. /\ ~ wr'.interrupted /\ ~ NeedContinue' /\ wr'.inProcessed = wr.inProcessed + l.inCodeSize
        /\ wr'.numFilled = 0 /\ out'.bytes = out.bytes \o l.outBuf
    BY <1>13, <1>14, <1>15, <2>1, <2>4, <2>6
  <2>8. WroteIt(t)
    BY <1>15, <2>2, <2>5, <2>6, <2>7 DEF WroteIt
  <2> QED BY <2>8
<1>16. CASE LeftToOther(l)
  <2>1. l.finish /\ ~ toStream
    BY <1>7, <1>16
  <2>2. cb.res = OK /\ cb.recode /\ ~ cb.cont
    BY <1>8, <2>1
  <2>3. keep(cb)
    BY <1>9, <1>10, <1>11, <1>16, <2>2
  <2>4. cb.out = out /\ cb.used = 0
    BY <1>g, <2>2
  <2>5. HandOn(t, FALSE)
    BY <1>14, <2>2 DEF HandOn
  <2>6. /\ th'[t].inBuf = th[t].inBuf
        /\ l.size # 0 => th'[t].start = l.start /\ th'[t].size = l.size
    <3>1. th' = IF l.size # 0 \/ ~ l.finish
                THEN [th EXCEPT ![t] = [@ EXCEPT !.l = Fresh, !.start = l.start, !.size = l.size]]
                ELSE [th EXCEPT ![t].l = Fresh]
      BY <1>4, <2>3
    <3> HIDE DEF l
    <3> QED BY <1>1, <3>1 DEF ThreadOK
  <2> HIDE DEF keep, failed
  <2>7. /\ out' = out /\ wr'.filledStart = t
        /\ wr'.numFilled = (IF l.size # 0 THEN 1 ELSE 0)
    BY <1>13, <1>14, <2>1, <2>3, <2>4
  <2>8. wr.inProcessed \in Int => wr'.inProcessed = wr.inProcessed
    BY <1>13, <2>4
  <2> QED BY <1>16, <2>1, <2>5, <2>6, <2>7, <2>8 DEF LeftIt
<1> QED BY <1>15, <1>16

(* Whose turn it is to write: the oldest thread, whom no block before its  *)
(* own can have interrupted, as the call goes on.                          *)
LEMMA WriterHas ==
  ASSUME Shape, Control, Blamed, mainPc = "run",
         NEW w \in 0 .. MaxThreads, NEW n \in 0 .. MaxThreads, Round(w, n),
         NEW B, Placed(n, B), NEW t \in Threads, Write(t), Continues'
  PROVE  /\ t = w /\ n > 0 /\ bi(t) = rd.blockIndex - n /\ Working(t) /\ pc[t] = "wait_write"
         /\ ~ InBlock(t) /\ th[t].l.res = OK /\ IsSeq(th[t].l.outBuf) /\ ~ th[t].l.wasInterrupted
         /\ HasBlock(t, B[bi(t)], B[bi(t) + 1]) /\ LocalOK(th[t].l) /\ Flags(t)
         /\ WroteIt(t) \/ LeftIt(t)
         /\ rd' = rd /\ Others(t) /\ ~ Working(t)' /\ RdOK
<1>1. pc[t] = "wait_write" /\ canWrite[t] /\ rd' = rd /\ Working(t) /\ ~ InBlock(t)
  BY DEF Write, Working, InBlock
<1>2. /\ LocalOK(th[t].l) /\ Flags(t) /\ SyncOK /\ RdOK /\ t \in DOMAIN pc
  BY <1>1 DEF Control, Good, ThreadOK, Shape
<1>3. Unbroken /\ HasPlace(t, B)
  BY <1>1 DEF Placed
<1>4. /\ th[t].l.res = OK /\ IsSeq(th[t].l.outBuf) /\ HasBlock(t, B[bi(t)], B[bi(t) + 1])
  BY <1>1, <1>3 DEF HasPlace
<1>5. t = w
  BY <1>1 DEF Round
<1>6. /\ rd.blockIndex \in Nat /\ n \in Nat /\ n > 0 /\ bi(t) = rd.blockIndex - n
      /\ \A u \in Threads : Working(u) => bi(u) \in Nat /\ (u # w => bi(t) < bi(u))
  BY <1>1, <1>5, InRound
<1>7. PICK cont : Writes(t, cont)
  <2>1. wr.numFilled \in Nat
    BY <1>3 DEF Unbroken
  <2> QED BY <2>1, WriteControl
<1>8. sync.res = OK /\ HandOn(t, cont)
  <2>1. sync'.res = OK
    BY DEF Continues
  <2> QED BY <1>7, <2>1 DEF Writes
<1>9. ~ th[t].l.wasInterrupted
  <2>1. SUFFICES ASSUME th[t].l.wasInterrupted PROVE FALSE
    OBVIOUS
  <2>2. sync.needInterrupt /\ bi(t) > sync.index /\ sync.index \in Nat
    BY <1>2, <2>1 DEF Flags, InterruptedBefore, SyncOK, bi
  <2>3. ~ wr.interrupted
    BY <1>3 DEF Unbroken
  <2>4. PICK u \in Threads : Failed(u) /\ bi(u) <= sync.index
    BY <1>8, <2>2, <2>3 DEF Blamed
  <2>5. Working(u) /\ bi(u) \in Nat /\ bi(t) \in Nat /\ bi(t) <= bi(u)
    BY <1>1, <1>5, <1>6, <2>4 DEF Failed
  <2> QED BY <2>2, <2>4, <2>5
<1>10. WroteIt(t) \/ LeftIt(t)
  <2>1. ~ wr.interrupted /\ wr.numFilled = 0
    BY <1>3 DEF Unbroken
  <2>2. /\ LeftToOther(th[t].l) => th[t].l.finish
        /\ ~ th[t].l.needCode => LeftToOther(th[t].l) \/ th[t].l.codeRes # OK
        /\ th[t].l.needCode => th[t].l.needWrite
    BY <1>4, <1>9 DEF HasBlock, Sized
  <2> QED BY <1>4, <1>9, <2>1, <2>2, WriteGoesOn
<1>11. Others(t) /\ ~ Working(t)'
  <2>1. Others(t)
    BY ThreadOthers DEF Thread
  <2>2. pc'[t] \in {"wait_read", "none"}
    BY <1>2, <1>8 DEF HandOn
  <2> QED BY <2>1, <2>2 DEF Working, Reading
<1> QED BY <1>1, <1>2, <1>4, <1>5, <1>6, <1>9, <1>10, <1>11

(* The block is written, and there are more.                               *)
LEMMA WritePlaced ==
  ASSUME Shape, Control, Blamed, mainPc = "run",
         NEW w \in 0 .. MaxThreads, NEW n \in 0 .. MaxThreads, Round(w, n),
         NEW B, Placed(n, B), NEW t \in Threads, Write(t), Continues', WroteIt(t),
         ~ th[t].l.finish
  PROVE  Placed(n - 1, B)'
<1> DEFINE l == th[t].l
<1>1. /\ t = w /\ n > 0 /\ bi(t) = rd.blockIndex - n /\ Working(t) /\ pc[t] = "wait_write"
      /\ ~ InBlock(t) /\ l.res = OK /\ IsSeq(l.outBuf) /\ ~ l.wasInterrupted
      /\ HasBlock(t, B[bi(t)], B[bi(t) + 1]) /\ LocalOK(l) /\ Flags(t)
      /\ rd' = rd /\ Others(t) /\ ~ Working(t)' /\ RdOK
  BY WriterHas
<1>2. /\ rd.blockIndex \in Nat /\ n \in Nat /\ rd.blockIndex - n \in Nat
      /\ \A u \in Threads : Working(u) => bi(u) \in Nat /\ bi(u) + 1 \in Nat
  BY InRound
<1>3. input' = input /\ \A p : (Outputs(p)' = Outputs(p)) /\ (Terminal(p)' <=> Terminal(p))
  BY <1>1, SameInput DEF Others
<1>4. Unbroken /\ Places(B) /\ B \in [Nat -> Nat]
  BY DEF Placed, Places
<1>5. /\ wr'.inProcessed = wr.inProcessed + l.inCodeSize /\ out'.bytes = out.bytes \o l.outBuf
      /\ ~ wr'.interrupted /\ wr'.numFilled = 0 /\ ~ NeedContinue'
      /\ l.codeRes = OK
      /\ l.coderRes = OK /\ BlockFinished(l) =>
           l.outPreSize = Len(l.outBuf) /\ l.inPreSize = l.inCodeSize
  BY DEF WroteIt
<1>6. IsSeq(out'.bytes) /\ Len(out'.bytes) = Len(out.bytes) + Len(l.outBuf)
  <2>1. IsSeq(out.bytes) /\ IsSeq(l.outBuf)
    BY <1>1, <1>4 DEF Unbroken
  <2> HIDE DEF l
  <2> QED BY <1>5, <2>1, SeqJoins
<1>7. Unbroken'
  BY <1>1, <1>3, <1>4, <1>5, <1>6 DEF Unbroken
<1>8. PICK a, b : a = B[bi(t)] /\ b = B[bi(t) + 1]
  OBVIOUS
<1>9. a \in Nat /\ b \in Nat /\ HasBlock(t, a, b)
  BY <1>1, <1>2, <1>4, <1>8
<1>10. l.state = "NEW"
  BY <1>1 DEF Flags
<1>11. /\ b = a + l.size /\ l.size > 0 /\ l.size \in Int /\ b <= rd.pos /\ rd.pos \in Nat
       /\ l.inCodeSize = l.size /\ Len(l.outBuf) = Outputs(b) - Outputs(a)
  <2>1. Sized(l, a, b) /\ b <= rd.pos /\ l.size > 0
    BY <1>1, <1>9 DEF HasBlock
  <2>2. l.coderRes = OK /\ BlockFinished(l)
    BY <1>5, <1>10, <2>1 DEF Sized, BlockFinished
  <2>3. l.inPreSize = l.size /\ l.outPreSize = Outputs(b) - Outputs(a) /\ b = a + l.size
    BY <1>10, <2>1 DEF Sized
  <2> QED BY <1>1, <1>5, <2>1, <2>2, <2>3 DEF LocalOK, RdOK
<1>12. Written(B[rd.blockIndex - (n - 1)])'
  <2>1. Written(a)
    BY <1>1, <1>8 DEF Placed
  <2>2. ~ Drained(a)
    BY <1>9, <1>11 DEF Drained
  <2>3. a = wr.inProcessed /\ Len(out.bytes) = Outputs(a)
    BY <2>1, <2>2 DEF Written
  <2>4. wr'.inProcessed = b
    <3> HIDE DEF l
    <3> QED BY <1>5, <1>9, <1>11, <2>3
  <2>5. Len(out'.bytes) = Outputs(b)
    <3>1. Outputs(a) \in Nat /\ Outputs(b) \in Nat
      BY <1>9, OutputsNext
    <3> HIDE DEF l
    <3> QED BY <1>6, <1>11, <2>3, <3>1
  <2>6. Written(b)'
    BY <1>3, <2>4, <2>5 DEF Written
  <2>7. b = B[rd'.blockIndex - (n - 1)]
    <3>1. rd'.blockIndex - (n - 1) = bi(t) + 1
      BY <1>1, <1>2
    <3> QED BY <1>8, <3>1
  <2> QED BY <2>6, <2>7
<1>13. ASSUME NEW u \in Threads, Working(u)' PROVE HasPlace(u, B)'
  <2>1. u # t /\ th'[u] = th[u] /\ pc'[u] = pc[u] /\ Working(u)
    BY <1>1, <1>13 DEF Others, Working, Reading
  <2>2. HasPlace(u, B)
    BY <2>1 DEF Placed
  <2>3. B[bi(u) + 1] \in Int
    BY <1>2, <1>4, <2>1
  <2>4. rd.pos \in Int /\ rd'.pos \in Int /\ rd.pos <= rd'.pos
    BY <1>1, <1>11
  <2> QED BY <1>1, <1>3, <2>1, <2>2, <2>3, <2>4, PlaceStays
<1>14. (\E u \in Threads : InBlock(u)') \/ NextPlace(B[rd.blockIndex])'
  <2>1. ASSUME NEW u \in Threads, InBlock(u) PROVE InBlock(u)'
    <3>1. u # t /\ pc'[u] = pc[u]
      BY <1>1, <2>1 DEF Others, InBlock
    <3> QED BY <2>1, <3>1 DEF InBlock
  <2>2. ASSUME NextPlace(B[rd.blockIndex]) PROVE NextPlace(B[rd.blockIndex])'
    <3>1. PICK e : e = B[rd.blockIndex]
      OBVIOUS
    <3>2. NextPlace(e)
      BY <2>2, <3>1
    <3>3. ~ Ends(t) /\ ~ Unleveled(t)
      BY <1>1 DEF Ends, Unleveled
    <3>4. \A u \in Threads : Working(u) /\ u # t =>
            /\ IsLast(u)' <=> IsLast(u)
            /\ Ends(u)' <=> Ends(u)
            /\ Unleveled(u)' <=> Unleveled(u)
            /\ RunsDry(u)' <=> RunsDry(u)
      BY <1>1 DEF Others, IsLast, Working, Reading, bi, Ends, Unleveled, RunsDry
    <3>5. \A u \in Threads : IsLast(u)' => IsLast(u) /\ u # t
      BY <1>1 DEF Others, IsLast, Working, Reading, bi
    <3>6. /\ Front(e)' <=> Front(e)
          /\ Dropped(e)' <=> Dropped(e)
          /\ Drained(e)' <=> Drained(e)
          /\ Level(e)' <=> Level(e)
      BY <1>1, <1>3 DEF Front, Dropped, Drained, Level
    <3>7. (Front(e) \/ (Dropped(e) /\ \E u \in Threads : IsLast(u) /\ Ends(u)))'
      <4>1. CASE Front(e)
        BY <3>6, <4>1
      <4>2. CASE Dropped(e) /\ \E u \in Threads : IsLast(u) /\ Ends(u)
        <5>1. PICK u \in Threads : IsLast(u) /\ Ends(u)
          BY <4>2
        <5>2. u # t /\ Working(u)
          BY <3>3, <5>1 DEF IsLast
        <5> QED BY <3>4, <3>6, <4>2, <5>1, <5>2
      <4> QED BY <3>2, <4>1, <4>2 DEF NextPlace
    <3>8. (Level(e) \/ \E u \in Threads : IsLast(u) /\ Unleveled(u))'
      <4>1. CASE Level(e)
        BY <3>6, <4>1
      <4>2. CASE \E u \in Threads : IsLast(u) /\ Unleveled(u)
        <5>1. PICK u \in Threads : IsLast(u) /\ Unleveled(u)
          BY <4>2
        <5>2. u # t /\ Working(u)
          BY <3>3, <5>1 DEF IsLast
        <5> QED BY <3>4, <5>1, <5>2
      <4> QED BY <3>2, <4>1, <4>2 DEF NextPlace
    <3>9. (\A u \in Threads : IsLast(u) /\ RunsDry(u) => Drained(e))'
      BY <3>2, <3>4, <3>5, <3>6 DEF NextPlace, IsLast
    <3>10. NextPlace(e)'
      BY <3>7, <3>8, <3>9 DEF NextPlace
    <3>11. e = B[rd'.blockIndex]
      BY <1>1, <3>1
    <3> QED BY <3>10, <3>11
  <2> QED BY <2>1, <2>2 DEF Placed
<1> QED BY <1>4, <1>7, <1>12, <1>13, <1>14 DEF Placed

(* What MtDec_Code leaves to the other decoder: nothing; or what was read  *)
(* beyond the blocks that were written; or a block and what is beyond it.  *)
EndOK ==
  LET x == wr.inProcessed
      f == wr.filledStart
      e == x + th[f].size
  IN  \/ wr.numFilled = 0 /\ rd.cross = << >> /\ rd.finished
      \/ wr.numFilled = 0 /\ x \in Nat /\ Front(x) /\ Len(out.bytes) = Outputs(x)
      \/ /\ wr.numFilled = 1 /\ x \in Nat /\ th[f].size > 0
         /\ Holds(th[f].inBuf, x, th[f].start, th[f].size)
         /\ Len(out.bytes) = Outputs(x) /\ (Front(e) \/ Dropped(e))

(* Who writes the last block is alone.                                     *)
LEMMA LastAlone ==
  ASSUME Shape, NEW w \in 0 .. MaxThreads, NEW n \in 0 .. MaxThreads, Round(w, n),
         NEW t \in Threads, Working(t), n = 1
  PROVE  /\ t = w /\ IsLast(t) /\ rd.blockIndex - 1 = bi(t) /\ rd.blockIndex = bi(t) + 1
         /\ \A u \in Threads : Working(u) => u = t
<1>1. /\ rd.blockIndex \in Nat /\ w \in Threads /\ Working(w) /\ bi(w) = rd.blockIndex - 1
      /\ \A u \in Threads : Working(u) =>
           /\ bi(u) \in Nat /\ bi(u) + 1 <= rd.blockIndex
           /\ u # w => rd.blockIndex - 1 < bi(u)
  BY InRound
<1>2. \A u \in Threads : Working(u) => u = w
  BY <1>1
<1> QED BY <1>1, <1>2 DEF IsLast

(* The last block of a round is written, and there may be more: the input  *)
(* was read to its end.                                                    *)
LEMMA WriteDries ==
  ASSUME Shape, Control, Blamed, mainPc = "run",
         NEW w \in 0 .. MaxThreads, NEW n \in 0 .. MaxThreads, Round(w, n),
         NEW B, Placed(n, B), NEW t \in Threads, Write(t), Continues', WroteIt(t),
         th[t].l.finish, n = 1, th[t].l.state \in {"CONTINUE", "NEW"}
  PROVE  Placed(0, B)'
<1> DEFINE l == th[t].l
<1>1. /\ t = w /\ bi(t) = rd.blockIndex - n /\ Working(t) /\ pc[t] = "wait_write"
      /\ ~ InBlock(t) /\ IsSeq(l.outBuf) /\ ~ l.wasInterrupted
      /\ HasBlock(t, B[bi(t)], B[bi(t) + 1])
      /\ rd' = rd /\ Others(t) /\ ~ Working(t)' /\ RdOK
  BY WriterHas
<1>2. IsLast(t) /\ rd.blockIndex \in Nat /\ \A u \in Threads : Working(u) => u = t
  BY <1>1, LastAlone, InRound
<1>3. input' = input /\ \A p : (Outputs(p)' = Outputs(p)) /\ (Terminal(p)' <=> Terminal(p))
  BY <1>1, SameInput DEF Others
<1>4. Unbroken /\ Places(B) /\ B \in [Nat -> Nat]
  BY DEF Placed, Places
<1>5. /\ out'.bytes = out.bytes \o l.outBuf
      /\ ~ wr'.interrupted /\ wr'.numFilled = 0 /\ ~ NeedContinue' /\ l.codeRes = OK
      /\ l.needCode /\ ~ LeftToOther(l)
  BY DEF WroteIt
<1>6. IsSeq(out'.bytes)
  <2>1. IsSeq(out.bytes) /\ IsSeq(l.outBuf)
    BY <1>1, <1>4 DEF Unbroken
  <2> HIDE DEF l
  <2> QED BY <1>5, <2>1, SeqJoins
<1>7. Unbroken'
  BY <1>1, <1>3, <1>4, <1>5, <1>6 DEF Unbroken
<1>8. l.state = "CONTINUE"
  BY <1>1, <1>5 DEF HasBlock, Sized
<1>9. PICK e : e = B[rd.blockIndex]
  OBVIOUS
<1>10. Drained(e) /\ e \in Nat
  <2>1. ~ \E u \in Threads : InBlock(u)
    BY <1>1, <1>2 DEF InBlock, Working, Reading
  <2>2. NextPlace(e)
    BY <1>9, <2>1 DEF Placed
  <2>3. RunsDry(t)
    BY <1>5, <1>8 DEF RunsDry
  <2> QED BY <1>2, <1>4, <1>9, <2>2, <2>3 DEF NextPlace
<1>11. \A u \in Threads : ~ Working(u)'
  <2>1. TAKE u \in Threads
  <2>2. CASE u = t
    BY <1>1, <2>2
  <2>3. CASE u # t
    BY <1>1, <1>2, <2>3 DEF Others, Working, Reading
  <2> QED BY <2>2, <2>3
<1>12. Front(e)' /\ Level(e)' /\ Drained(e)'
  <2>1. Drained(e)'
    BY <1>1, <1>10 DEF Drained
  <2>2. Front(e)'
    BY <1>1, <1>10 DEF Front, Drained, RunFrom
  <2> QED BY <2>1, <2>2 DEF Level
<1>13. NextPlace(B[rd.blockIndex])'
  <2>1. NextPlace(e)'
    BY <1>11, <1>12 DEF NextPlace, IsLast
  <2>2. e = B[rd'.blockIndex]
    BY <1>1, <1>9
  <2> QED BY <2>1, <2>2
<1>14. Written(B[rd.blockIndex - 0])'
  <2>1. Written(e)'
    BY <1>12 DEF Written
  <2>2. e = B[rd'.blockIndex - 0]
    BY <1>1, <1>2, <1>9
  <2> QED BY <2>1, <2>2
<1> QED BY <1>4, <1>7, <1>11, <1>13, <1>14 DEF Placed

(* The last block is left to the other decoder.                            *)
LEMMA WriteLeaves ==
  ASSUME Shape, Control, Blamed, mainPc = "run",
         NEW w \in 0 .. MaxThreads, NEW n \in 0 .. MaxThreads, Round(w, n),
         NEW B, Placed(n, B), NEW t \in Threads, Write(t), Continues', LeftIt(t), n = 1
  PROVE  EndOK' /\ IsSeq(out'.bytes)
<1> DEFINE l == th[t].l
<1>1. /\ t = w /\ bi(t) = rd.blockIndex - n /\ Working(t) /\ pc[t] = "wait_write"
      /\ ~ InBlock(t) /\ HasBlock(t, B[bi(t)], B[bi(t) + 1]) /\ LocalOK(l)
      /\ rd' = rd /\ Others(t) /\ ~ Working(t)' /\ RdOK
  BY WriterHas
<1>2. /\ IsLast(t) /\ rd.blockIndex \in Nat /\ rd.blockIndex = bi(t) + 1
      /\ bi(t) \in Nat /\ \A u \in Threads : Working(u) => u = t
  BY <1>1, LastAlone, InRound
<1>3. input' = input /\ \A p : (Outputs(p)' = Outputs(p)) /\ (Terminal(p)' <=> Terminal(p))
  BY <1>1, SameInput DEF Others
<1>4. Unbroken /\ Places(B) /\ B \in [Nat -> Nat] /\ IsSeq(out.bytes)
  BY DEF Placed, Places, Unbroken
<1>5. /\ LeftToOther(l) /\ out' = out
      /\ wr.inProcessed \in Int => wr'.inProcessed = wr.inProcessed
      /\ wr'.filledStart = t /\ wr'.numFilled = (IF l.size # 0 THEN 1 ELSE 0)
      /\ th'[t].inBuf = th[t].inBuf
      /\ l.size # 0 => th'[t].start = l.start /\ th'[t].size = l.size
  BY DEF LeftIt
<1>6. PICK a, e : a = B[bi(t)] /\ e = B[rd.blockIndex]
  OBVIOUS
<1>7. a \in Nat /\ e \in Nat /\ HasBlock(t, a, e)
  BY <1>1, <1>2, <1>4, <1>6
<1>8. /\ e = a + l.size /\ e <= rd.pos /\ Holds(th[t].inBuf, a, l.start, l.size)
      /\ l.size \in Int /\ l.size >= 0
  <2>1. Sized(l, a, e) /\ e <= rd.pos /\ Holds(th[t].inBuf, a, l.start, l.size)
    BY <1>7 DEF HasBlock
  <2>2. l.start \in Nat /\ l.start <= l.size
    <3>1. InBufSize \in Nat
      BY MtDecAssumption
    <3> QED BY <2>1, <3>1 DEF Holds
  <2> QED BY <1>1, <2>1, <2>2 DEF Sized, LocalOK
<1>9. Front(e) \/ (Dropped(e) /\ l.size # 0)
  <2>1. ~ \E u \in Threads : InBlock(u)
    BY <1>1, <1>2 DEF InBlock, Working, Reading
  <2>2. NextPlace(e)
    BY <1>6, <2>1 DEF Placed
  <2>3. ASSUME NEW u \in Threads, IsLast(u), Ends(u) PROVE l.size # 0
    <3>1. u = t
      BY <1>2, <2>3 DEF IsLast
    <3> QED BY <1>5, <1>8, <2>3, <3>1 DEF Ends
  <2> QED BY <2>2, <2>3 DEF NextPlace
<1>10. Written(a)
  BY <1>1, <1>6 DEF Placed
<1>11. (Front(e)' <=> Front(e)) /\ (Dropped(e)' <=> Dropped(e))
  BY <1>1, <1>3 DEF Front, Dropped
<1>12. CASE Drained(a)
  <2>1. rd'.cross = << >> /\ rd'.finished
    BY <1>1, <1>12 DEF Drained
  <2>2. l.size = 0
    BY <1>7, <1>8, <1>12 DEF Drained
  <2> QED BY <1>4, <1>5, <2>1, <2>2 DEF EndOK
<1>13. CASE ~ Drained(a)
  <2>1. wr.inProcessed = a /\ Len(out.bytes) = Outputs(a)
    BY <1>10, <1>13 DEF Written
  <2>2. wr'.inProcessed = a /\ Len(out'.bytes) = Outputs(a)'
    BY <1>3, <1>5, <1>7, <2>1
  <2>3. CASE l.size = 0
    <3>1. e = a /\ Front(a) /\ wr'.numFilled = 0
      <4> HIDE DEF l
      <4> QED BY <1>5, <1>7, <1>8, <1>9, <2>3
    <3>2. Front(a)'
      BY <1>11, <3>1
    <3>3. EndOK'
      BY <1>7, <2>2, <3>1, <3>2 DEF EndOK
    <3> QED BY <1>4, <1>5, <3>3
  <2>4. CASE l.size # 0
    <3>1. /\ wr'.numFilled = 1 /\ th'[t].size = l.size /\ th'[t].start = l.start
          /\ wr'.filledStart = t /\ l.size > 0
      BY <1>5, <1>8, <2>4
    <3>2. Holds(th'[t].inBuf, a, th'[t].start, th'[t].size)
      BY <1>5, <1>8, <3>1
    <3>3. Front(e)' \/ Dropped(e)'
      BY <1>9, <1>11
    <3>4. PICK z : z = l.size
      OBVIOUS
    <3>5. e = a + z /\ th'[t].size = z /\ z > 0
      BY <1>8, <3>1, <3>4
    <3> HIDE DEF l
    <3>6. EndOK'
      BY <1>7, <2>2, <3>1, <3>2, <3>3, <3>5 DEF EndOK
    <3> QED BY <1>4, <1>5, <3>6
  <2> QED BY <2>3, <2>4
<1> QED BY <1>12, <1>13

(* A writer that learnt before it that the call switches records nothing.  *)
LEMMA WriteKeepsSwitch ==
  ASSUME WrOK, NEW t \in Threads, Write(t), wr.interrupted
  PROVE  wr'.interrupted /\ (NeedContinue' <=> NeedContinue)
<1> DEFINE l == th[t].l
           was == l.wasInterrupted \/ wr.interrupted
           w == Recorded(l)
           wants == l.needWrite /\ (wr.interrupted \/ ~ LeftToOther(l))
           res(r) == IF l.needCode THEN r ELSE l.res
           failed(cb) == l.needWrite /\ cb.res # OK
           w1(cb) == [w EXCEPT !.interrupted = @ \/ failed(cb), !.inProcessed = @ + cb.used]
           keep(cb) == /\ cb.recode
                       /\ \/ ~ l.needCode \/ cb.res # OK \/ w1(cb).interrupted
                          \/ l.codeRes # OK \/ was \/ w.numFilled # 0
<1>1. \E r \in IF l.needCode THEN ProgressResults ELSE {sync.res} :
        \E cb \in WriteResults([l EXCEPT !.res = res(r)], res(r) = OK /\ wants /\ ~ was) :
          wr' = Filled(t, w1(cb), keep(cb))
  BY DEF Write
<1>2. PICK cb : wr' = Filled(t, w1(cb), keep(cb))
  BY <1>1
<1>3. w = wr
  BY DEF Recorded
<1> DEFINE k == w1(cb)
<1>4. /\ DOMAIN k = DOMAIN wr /\ k.interrupted /\ k.allocError = wr.allocError
      /\ k.threadingError = wr.threadingError /\ k.overflow = wr.overflow
  BY <1>3 DEF WrOK
<1>5. wr' = Filled(t, k, keep(cb))
  BY <1>2
<1> HIDE DEF k, keep
<1>6. /\ wr'.interrupted /\ wr'.allocError = k.allocError
      /\ wr'.threadingError = k.threadingError /\ wr'.overflow = k.overflow
  BY <1>4, <1>5 DEF Filled, WrOK
<1> QED BY <1>4, <1>6 DEF NeedContinue

(* A failure of the progress callback stays.                               *)
LEMMA FailureStays ==
  ASSUME Inv, NEW t \in Threads, Thread(t)
  PROVE  /\ sync'.res = OK => sync.res = OK
         /\ ~ Write(t) => wr' = wr /\ out' = out
<1>1. Shape /\ Control /\ WrOK /\ SyncOK /\ wr.numFilled \in Nat
  BY ThreadZero DEF Inv, Control, Bounds, Shape, IsRd
<1>2. ASSUME ~ Write(t) PROVE wr' = wr /\ out' = out
  BY <1>2 DEF Thread, WaitRead, ReadNoLink, ReadCross, ReadLink, ParseOverflow, ParseContinue,
              ParseEnd, ParseNew, PreCode, StoreParsed, StartNext, StartNone, CodeFails,
              CodeLink, CodeUnprepared
<1>3. ASSUME sync'.res = OK PROVE sync.res = OK
  <2>1. CASE Write(t)
    BY <1>1, <1>3, <2>1, WriteControl DEF Writes
  <2>2. CASE WaitRead(t) /\ exitThread
    BY <1>3, <2>2 DEF WaitRead
  <2>3. CASE WaitRead(t) /\ ~ exitThread
    BY <1>1, <1>3, <2>3, WaitReadControl
  <2>4. CASE \/ ReadNoLink(t) \/ ReadCross(t) \/ ReadLink(t) \/ ParseOverflow(t)
             \/ ParseContinue(t) \/ ParseEnd(t) \/ ParseNew(t) \/ PreCode(t)
    BY <1>1, <1>3, <2>4, ReadSync
  <2>5. CASE StartNext(t) \/ StartNone(t)
    BY <1>3, <2>5 DEF StartNext, StartNone
  <2>6. CASE CodeFails(t) \/ CodeLink(t) \/ CodeUnprepared(t)
    BY <1>1, <1>3, <2>6, CodeControl
  <2> QED BY <2>1, <2>2, <2>3, <2>4, <2>5, <2>6 DEF Thread
<1> QED BY <1>2, <1>3

(* What goes on after a step of a thread went on before it.                *)
LEMMA ContinuesBefore ==
  ASSUME Inv, NEW t \in Threads, Thread(t), Continues'
  PROVE  Continues /\ sync'.res = OK
<1>1. sync'.res = OK /\ sync.res = OK
  BY FailureStays DEF Continues
<1>2. wr.interrupted => NeedContinue
  <2>1. CASE Write(t)
    BY <2>1, WriteKeepsSwitch DEF Continues, Inv, Control
  <2>2. CASE ~ Write(t)
    BY <2>2, FailureStays DEF Continues, NeedContinue
  <2> QED BY <2>1, <2>2
<1> QED BY <1>1, <1>2 DEF Continues

(* While MtDec_Code runs and no failure was met that ends it, the blocks   *)
(* are in their places, or what the other decoder needs is where it looks. *)
InPlace(w, n) == Round(w, n) /\ \E B : Placed(n, B)
AtEnd == Ending /\ (NeedContinue => EndOK /\ IsSeq(out.bytes))
RunKept ==
  mainPc = "run" /\ Continues => AtEnd \/ \E w, n \in 0 .. MaxThreads : InPlace(w, n)

(* The writer keeps the places.                                            *)
LEMMA WriteKept ==
  ASSUME Shape, Control, Blamed, mainPc = "run",
         NEW w \in 0 .. MaxThreads, NEW n \in 0 .. MaxThreads, Round(w, n),
         NEW B, Placed(n, B), NEW t \in Threads, Write(t), Continues'
  PROVE  (AtEnd \/ \E v, m \in 0 .. MaxThreads : InPlace(v, m))'
<1>0. 0 \in 0 .. MaxThreads /\ MaxThreads \in Nat
  BY ThreadZero
<1>1. WroteIt(t) \/ LeftIt(t)
  BY WriterHas
<1>2. CASE WroteIt(t)
  <2>1. PICK cont : HandOn(t, cont) /\ (cont <=> th[t].l.state \in {"CONTINUE", "NEW"})
    BY <1>2 DEF WroteIt
  <2>2. CASE ~ th[t].l.finish
    <3>1. n \in 1 .. rd.started /\ \E v \in 0 .. MaxThreads : Round(v, n - 1)'
      BY <2>1, <2>2, WriteKeeps
    <3>2. n - 1 \in 0 .. MaxThreads
      BY <1>0, <3>1
    <3>3. Placed(n - 1, B)'
      BY <1>2, <2>2, WritePlaced
    <3> QED BY <3>1, <3>2, <3>3 DEF InPlace
  <2>3. CASE th[t].l.finish
    <3>1. n = 1 /\ ((cont /\ Round(0, 0)') \/ (~ cont /\ Ending'))
      BY <2>1, <2>3, WriteKeeps
    <3>2. CASE cont /\ Round(0, 0)'
      <4>1. Placed(0, B)'
        BY <1>2, <2>1, <2>3, <3>1, <3>2, WriteDries
      <4> QED BY <1>0, <3>2, <4>1 DEF InPlace
    <3>3. CASE ~ cont /\ Ending'
      BY <1>2, <3>3 DEF WroteIt, AtEnd
    <3> QED BY <3>1, <3>2, <3>3
  <2> QED BY <2>2, <2>3
<1>3. CASE LeftIt(t)
  <2>1. th[t].l.finish /\ HandOn(t, FALSE)
    BY <1>3 DEF LeftIt
  <2>2. n = 1 /\ Ending'
    BY <2>1, WriteKeeps
  <2>3. EndOK' /\ IsSeq(out'.bytes)
    BY <1>3, <2>2, WriteLeaves
  <2> QED BY <2>2, <2>3 DEF AtEnd
<1> QED BY <1>1, <1>2, <1>3

(* Every step of MtDec_ThreadFunc2 does.                                   *)
LEMMA ThreadKept ==
  ASSUME Inv, RunKept, NEW t \in Threads, Thread(t)
  PROVE  RunKept'
<1>0. SUFFICES ASSUME mainPc' = "run", Continues'
               PROVE  (AtEnd \/ \E w, n \in 0 .. MaxThreads : InPlace(w, n))'
  BY DEF RunKept
<1>1. Continues /\ sync'.res = OK
  BY <1>0, ContinuesBefore
<1>2. Shape /\ Tokens /\ Control /\ Blamed /\ Tokens'
  BY NextTokens DEF Inv, Next
<1>3. CASE WaitRead(t) /\ exitThread
  <2>1. UNCHANGED <<rd, wr, th, out, input, mainPc>>
    BY <1>3 DEF WaitRead, caller
  <2>2. Ending' /\ ~ \E w, n \in 0 .. MaxThreads : Round(w, n)
    BY <1>0, <1>2, <1>3 DEF WaitRead, Round, Tokens
  <2>3. AtEnd
    BY <1>0, <1>1, <2>1, <2>2 DEF RunKept, InPlace
  <2>4. \A p : (Outputs(p)' = Outputs(p)) /\ (Terminal(p)' <=> Terminal(p))
    BY <2>1, SameInput
  <2>5. EndOK => EndOK'
    BY <2>1, <2>4 DEF EndOK, Front, Dropped
  <2> QED BY <2>1, <2>2, <2>3, <2>5 DEF AtEnd, NeedContinue
<1>4. CASE ~ (WaitRead(t) /\ exitThread)
  <2>1. mainPc = "run" /\ \E w, n \in 0 .. MaxThreads : Round(w, n)
    BY <1>2, <1>4, ThreadRuns
  <2>2. ~ Ending
    <3>1. PICK w, n \in 0 .. MaxThreads : Round(w, n)
      BY <2>1
    <3>2. rd.started \in 1 .. MaxThreads /\ MaxThreads \in Nat
      BY <1>2, ThreadZero DEF Shape, IsRd
    <3>3. w \in Threads /\ canWrite[w]
      BY <3>1, <3>2 DEF Round, Threads
    <3> QED BY <3>3 DEF Ending
  <2>3. PICK w, n \in 0 .. MaxThreads : InPlace(w, n)
    BY <1>1, <2>1, <2>2 DEF RunKept, AtEnd
  <2>4. PICK B : Round(w, n) /\ Placed(n, B)
    BY <2>3 DEF InPlace
  <2>5. CASE WaitRead(t)
    <3>1. n + 1 \in 0 .. MaxThreads /\ Round(w, n + 1)'
      BY <1>2, <2>1, <2>4, <2>5, WaitReadKeeps
    <3>2. \E C : Placed(n + 1, C)'
      BY <1>1, <1>2, <2>1, <2>4, <2>5, WaitReadPlaced
    <3> QED BY <3>1, <3>2 DEF InPlace
  <2>6. CASE \/ ReadNoLink(t) \/ ReadCross(t) \/ ReadLink(t) \/ ParseOverflow(t)
             \/ ParseContinue(t) \/ ParseEnd(t) \/ ParseNew(t) \/ PreCode(t)
    <3>1. Round(w, n)'
      BY <1>2, <2>4, <2>6, ReadSteps, ReadKeeps
    <3>2. \E C : Placed(n, C)'
      BY <1>1, <1>2, <2>4, <2>6, ReadNoLinkPlaced, ReadCrossPlaced, ReadLinkPlaced,
         ParseOverflowPlaced, ParseContinuePlaced, ParseEndPlaced, ParseNewPlaced, PreCodePlaced
         DEF Continues
    <3> QED BY <3>1, <3>2 DEF InPlace
  <2>7. CASE StartNext(t)
    <3>1. Round(w, n)'
      BY <1>2, <2>1, <2>4, <2>7, StartNextKeeps
    <3>2. Placed(n, B)'
      BY <1>2, <2>4, <2>7, StartNextPlaced
    <3> QED BY <3>1, <3>2 DEF InPlace
  <2>8. CASE StartNone(t)
    <3>1. Round(w, n)'
      BY <1>2, <2>4, <2>8, StartNoneKeeps
    <3>2. Placed(n, B)'
      BY <1>2, <2>4, <2>8, StartNonePlaced
    <3> QED BY <3>1, <3>2 DEF InPlace
  <2>9. CASE CodeFails(t) \/ CodeLink(t) \/ CodeUnprepared(t)
    <3>1. Round(w, n)'
      BY <1>2, <2>4, <2>9, CodeSteps, CodeKeeps
    <3>2. Placed(n, B)'
      BY <1>1, <1>2, <2>4, <2>9, CodePlaced
    <3> QED BY <3>1, <3>2 DEF InPlace
  <2>10. CASE Write(t)
    BY <1>0, <1>2, <2>1, <2>4, <2>10, WriteKept
  <2> QED BY <2>5, <2>6, <2>7, <2>8, <2>9, <2>10 DEF Thread
<1> QED BY <1>3, <1>4

-----------------------------------------------------------------------------
(* The single-threaded decoder was given the input up to st.expect.  What  *)
(* it has not asked for yet is in the links of one thread, in the          *)
(* crossBlock, and in the stream; or nothing more is read.                 *)
ToServe(x) ==
  LET f == wr.filledStart
      e == x + th[f].size
  IN  \/ wr.numFilled = 0 /\ Front(x)
      \/ /\ wr.numFilled = 1
         /\ Front(e) \/ (Dropped(e) /\ (mainPc = "read" => x < e))
         /\ IF st.inLim = 0
            THEN th[f].size > 0 /\ Holds(th[f].inBuf, x, th[f].start, th[f].size)
            ELSE /\ th[f].start = 0 /\ Len(th[f].inBuf) > 0 /\ th[f].size >= 0
                 /\ Rest(th[f].inBuf, x, th[f].size)

StGiven(x) ==
  /\ x \in Nat /\ st.expect = x + 1 /\ IsSeq(out.bytes)
  /\ mainPc = "read" => Len(out.bytes) = Outputs(x)
  /\ mainPc = "decode" =>
       \E y \in Nat : /\ Len(st.src) \in Nat \ {0} /\ x = y + Len(st.src) /\ x <= rd.pos
                      /\ RunFrom(st.src, y) /\ Len(out.bytes) = Outputs(y)
  /\ ToServe(x)

StOK ==
  IF st.tMode THEN \E x : StGiven(x) ELSE rd.finished \/ st.expect = rd.pos + 1

StDomain == DOMAIN st = {"tMode", "inLim", "src", "expect", "inOrder"}
OutDomain == DOMAIN out = {"bytes", "failed"}

(* Where the input is, from the call to its answer.                        *)
Handed ==
  /\ StDomain /\ OutDomain /\ st.inOrder
  /\ mainPc \in {"run", "prepare"} => st = St0
  /\ mainPc \in {"run", "prepare"} /\ input.threads = 1 =>
       mainPc = "prepare" /\ wr.numFilled = 0 /\ rd.cross = << >>
  /\ mainPc = "prepare" => EndOK /\ IsSeq(out.bytes)
  /\ mainPc \in {"read", "decode"} => StOK
  /\ RunKept

(* The handle as MtDec_Construct leaves it.                                *)
LEMMA InitHanded == Init => Handed
BY DEF Init, Handed, StDomain, OutDomain, St0, RunKept

(* A new call: nothing is read yet.                                        *)
LEMMA CallHanded ==
  ASSUME Shape, Tokens, Call
  PROVE  Handed'
<1>1. Shape' /\ Tokens'
  BY CallKeeps
<1>2. /\ rd' = [Rd0 EXCEPT !.limit = input'.threads, !.crossBlock = rd.crossBlock]
      /\ wr' = Wr0 /\ sync' = Sync0 /\ st' = St0
      /\ out' = [bytes |-> << >>, failed |-> FALSE] /\ mainPc = "idle"
  BY DEF Call
<1>3. /\ rd'.blockIndex = 1 /\ rd'.started = 1 /\ rd'.cross = << >> /\ rd'.pos = 0 /\ ~ rd'.finished
      /\ rd'.outParsed = 0
  BY <1>2 DEF Rd0
<1>4. /\ wr'.numFilled = 0 /\ wr'.inProcessed = 0 /\ ~ wr'.interrupted /\ ~ NeedContinue'
  BY <1>2 DEF Wr0, NeedContinue
<1>5. Len(out'.bytes) = 0 /\ IsSeq(out'.bytes)
  <2>1. << >> \in Seq({}) /\ Len(<< >>) = 0
    OBVIOUS
  <2> QED BY <1>2, <2>1 DEF IsSeq
<1>6. Outputs(0)' = 0
  BY FS_EmptySet DEF Outputs
<1>7. Front(0)' /\ Level(0)'
  BY <1>3, <1>6 DEF Front, Level, RunFrom
<1>8. CASE mainPc' = "prepare"
  <2>1. EndOK'
    BY <1>4, <1>5, <1>6, <1>7 DEF EndOK
  <2>2. StDomain' /\ OutDomain' /\ st'.inOrder
    BY <1>2 DEF StDomain, OutDomain, St0
  <2> QED BY <1>2, <1>3, <1>4, <1>5, <1>8, <2>1, <2>2 DEF Handed, RunKept
<1>9. CASE mainPc' = "run"
  <2>1. \A t \in Threads : ~ Working(t)'
    <3>1. /\ pc' = [pc EXCEPT ![0] = "wait_read"]
          /\ \A t \in Threads : ~ Working(t)
      BY <1>2, <1>9 DEF Call, Tokens
    <3> QED BY <3>1 DEF Working, Reading, Shape
  <2>2. canWrite'[0]
    BY <1>9, ThreadZero DEF Call, Shape
  <2>3. PICK w, n \in 0 .. MaxThreads : Round(w, n)'
    BY <1>1, <1>9, <2>2, ThreadZero DEF Tokens, Ending
  <2>4. n = 0
    <3>1. w = 0 /\ n \in 0 .. 1
      BY <1>3, <2>3 DEF Round
    <3>2. ~ (From(1, 0, 0) < n)
      <4>1. Working(0)' <=> 0 < rd'.started /\ From(rd'.started, 0, 0) < n
        BY <2>3, <3>1, ThreadZero DEF Round
      <4> QED BY <1>3, <2>1, <4>1, ThreadZero
    <3> QED BY <3>1, <3>2 DEF From
  <2> DEFINE B == [i \in Nat |-> 0]
  <2>5. Places(B) /\ B[1] = 0
    BY DEF Places
  <2> HIDE DEF B
  <2>6. NextPlace(0)'
    BY <1>7, <2>1 DEF NextPlace, IsLast
  <2>7. NextPlace(B[rd.blockIndex])'
    BY <1>3, <2>5, <2>6
  <2>8. Written(B[rd.blockIndex - 0])'
    <3>1. B[rd'.blockIndex - 0] = 0
      BY <1>3, <2>5
    <3>2. Written(0)'
      BY <1>4, <1>5, <1>6 DEF Written
    <3> QED BY <3>1, <3>2
  <2>9. Unbroken'
    BY <1>3, <1>4, <1>5 DEF Unbroken
  <2>10. Placed(0, B)'
    BY <2>1, <2>5, <2>7, <2>8, <2>9 DEF Placed
  <2>11. RunKept'
    BY <2>3, <2>4, <2>10 DEF RunKept, InPlace
  <2>12. StDomain' /\ OutDomain' /\ st'.inOrder
    BY <1>2 DEF StDomain, OutDomain, St0
  <2>13. input'.threads # 1
    BY <1>9 DEF Call
  <2> QED BY <1>2, <1>9, <2>11, <2>12, <2>13 DEF Handed
<1> QED BY <1>8, <1>9 DEF Call

(* The step from MtDec_Code to the other decoder.                          *)
LEMMA CodeReturnsHanded ==
  ASSUME Inv, Handed, CodeReturns
  PROVE  Handed'
<1>1. /\ mainPc = "run" /\ pc[0] = "none" /\ mainPc' \in {"idle", "prepare"}
      /\ UNCHANGED <<input, rd, wr, th, st, out>>
      /\ mainPc' = "prepare" => sync.res = OK /\ NeedContinue
  BY DEF CodeReturns, Return
<1>2. StDomain' /\ OutDomain' /\ st'.inOrder /\ st' = St0 /\ input'.threads # 1
  BY <1>1 DEF Handed, StDomain, OutDomain
<1>3. ASSUME mainPc' = "prepare" PROVE EndOK' /\ IsSeq(out'.bytes)
  <2>1. Continues
    BY <1>1, <1>3 DEF Continues
  <2>2. ~ \E w, n \in 0 .. MaxThreads : InPlace(w, n)
    BY <1>1 DEF InPlace, Round
  <2>3. EndOK /\ IsSeq(out.bytes)
    BY <1>1, <1>3, <2>1, <2>2 DEF Handed, RunKept, AtEnd
  <2>4. \A p : (Outputs(p)' = Outputs(p)) /\ (Terminal(p)' <=> Terminal(p))
    BY <1>1, SameInput
  <2>5. EndOK'
    BY <1>1, <2>3, <2>4 DEF EndOK, Front, Dropped
  <2> QED BY <1>1, <2>3, <2>5
<1> QED BY <1>1, <1>2, <1>3 DEF Handed, RunKept

(* What is served next follows on what was served before.                  *)
LEMMA ServedInOrder ==
  ASSUME StDomain, st.inOrder, NEW data, Len(data) \in Nat, NEW x \in Nat, st.expect = x + 1,
         RunFrom(data, x), Served(data)
  PROVE  /\ StDomain' /\ st'.inOrder /\ st'.tMode = st.tMode /\ st'.src = data
         /\ st'.inLim = Len(data) /\ st'.expect = (x + Len(data)) + 1
         /\ mainPc' = IF data = << >> THEN "read" ELSE "decode"
<1>1. \A k \in 1 .. Len(data) : data[k] = st.expect + k - 1
  BY DEF RunFrom
<1> DEFINE b == st.inOrder /\ \A k \in 1 .. Len(data) : data[k] = st.expect + k - 1
<1>2. b /\ b \in BOOLEAN
  BY <1>1
<1>3. /\ st' = [st EXCEPT !.src = data, !.inLim = Len(data), !.expect = @ + Len(data),
                          !.inOrder = b]
      /\ mainPc' = IF data = << >> THEN "read" ELSE "decode"
  BY DEF Served
<1> HIDE DEF b
<1> QED BY <1>2, <1>3 DEF StDomain

(* The first bytes of a link.                                              *)
LEMMA FirstOfLink ==
  ASSUME NEW link \in Link, NEW k \in 0 .. InBufSize, NEW x \in Nat,
         \A j \in 1 .. k : link[j] = x + j
  PROVE  Len(FirstBytes(link, k)) = k /\ RunFrom(FirstBytes(link, k), x)
         /\ FirstBytes(link, k) \in Seq(Int)
<1>1. InBufSize \in Nat
  BY MtDecAssumption
<1>2. link \in Seq(Int) /\ Len(link) = InBufSize
  BY <1>1 DEF Link
<1>3. Len(FirstBytes(link, k)) = k /\ \A j \in 1 .. k : FirstBytes(link, k)[j] = link[j]
  BY <1>1, <1>2 DEF FirstBytes
<1>4. FirstBytes(link, k) \in Seq(Int)
  BY <1>1, <1>2 DEF FirstBytes
<1> QED BY <1>3, <1>4 DEF RunFrom

(* The links but the first one, which was full.                            *)
LEMMA RestMoves ==
  ASSUME NEW buf \in Seq(Link), NEW x \in Nat, NEW size \in Nat, Rest(buf, x, size),
         size > 0, NEW lim, lim = Smaller(InBufSize, size), Len(buf) > 0
  PROVE  /\ lim \in 1 .. InBufSize /\ lim <= size
         /\ Len(RestOf(buf, 1)) > 0 /\ RestOf(buf, 1)[1] \in Link
         /\ \A j \in 1 .. lim : RestOf(buf, 1)[1][j] = x + j
         /\ Rest(RestOf(buf, 1), x + lim, size - lim)
<1>1. InBufSize \in Nat \ {0} /\ Len(buf) \in Nat
  BY MtDecAssumption
<1>2. lim \in 1 .. InBufSize /\ lim <= size /\ (lim = InBufSize \/ lim = size)
  BY <1>1 DEF Smaller
<1>3. Lk(2) = 0 /\ \A k \in Int : Lk(k) \in Int
  BY LkOrder
<1>4. ASSUME NEW j \in 1 .. lim PROVE 2 <= Len(buf) /\ buf[2][j] = x + j
  <2>1. j \in 1 .. InBufSize /\ j <= size /\ 2 \in Nat
    BY <1>1, <1>2
  <2>2. Lk(2) + j <= size => 2 <= Len(buf) /\ buf[2][j] = x + Lk(2) + j
    BY <2>1 DEF Rest
  <2>3. Lk(2) + j <= size /\ x + Lk(2) + j = x + j
    <3>1. PICK z : z = Lk(2)
      OBVIOUS
    <3>2. z = 0 /\ j \in Int
      BY <1>1, <1>3, <2>1, <3>1
    <3>3. z + j <= size /\ x + z + j = x + j
      BY <2>1, <3>2
    <3> QED BY <3>1, <3>3
  <2> QED BY <2>2, <2>3
<1>5. 2 <= Len(buf)
  BY <1>2, <1>4
<1> DEFINE r == RestOf(buf, 1)
<1>6. r \in Seq(Link) /\ Len(r) = Len(buf) - 1 /\ \A k \in 1 .. Len(r) : r[k] = buf[k + 1]
  BY <1>1, <1>5 DEF RestOf
<1> HIDE DEF r
<1>7. r[1] = buf[2] /\ r[1] \in Link /\ Len(r) > 0
  <2>1. 1 \in 1 .. Len(r) /\ Len(r) \in Nat
    BY <1>1, <1>5, <1>6
  <2>2. r[1] = buf[1 + 1] /\ r[1] \in Link
    BY <1>6, <2>1
  <2> QED BY <2>1, <2>2
<1>8. Rest(r, x + lim, size - lim)
  <2>1. SUFFICES ASSUME NEW k \in Nat, NEW j \in 1 .. InBufSize, k >= 2, Lk(k) + j <= size - lim
                 PROVE  k <= Len(r) /\ r[k][j] = (x + lim) + Lk(k) + j
    BY DEF Rest
  <2>2. Lk(k) >= 0 /\ Lk(k) \in Int /\ Lk(k + 1) = Lk(k) + InBufSize /\ k + 1 \in Nat /\ k + 1 >= 2
    <3>1. k \in Int
      OBVIOUS
    <3> QED BY <2>1, <3>1, LkNext, LkOrder
  <2>3. lim = InBufSize
    BY <1>2, <2>1, <2>2
  <2>4. Lk(k + 1) + j <= size
    BY <1>1, <2>1, <2>2, <2>3
  <2>5. k + 1 <= Len(buf) /\ buf[k + 1][j] = x + Lk(k + 1) + j
    BY <2>2, <2>4 DEF Rest
  <2>6. k \in 1 .. Len(r)
    BY <1>1, <1>6, <2>1, <2>5
  <2>7. r[k] = buf[k + 1]
    BY <1>6, <2>6
  <2>8. x + Lk(k + 1) + j = (x + lim) + Lk(k) + j
    BY <1>1, <2>2, <2>3
  <2> QED BY <2>5, <2>6, <2>7, <2>8
<1> QED BY <1>2, <1>4, <1>7, <1>8 DEF r

(* Served in order, with the rest in its place, the decoder has its input. *)
LEMMA ServedIsHanded ==
  ASSUME Handed, st.tMode, NEW x, StGiven(x), mainPc = "read",
         NEW data, Len(data) \in Nat \ {0}, RunFrom(data, x), Served(data),
         UNCHANGED <<input, out>>, NEW z, z = x + Len(data), rd.pos \in Int, z <= rd.pos,
         rd'.pos = rd.pos, ToServe(z)'
  PROVE  Handed'
<1>1. x \in Nat /\ st.expect = x + 1 /\ IsSeq(out.bytes) /\ Len(out.bytes) = Outputs(x)
  BY DEF StGiven
<1>2. /\ StDomain' /\ st'.inOrder /\ st'.tMode /\ st'.src = data /\ st'.expect = z + 1
      /\ mainPc' = "decode"
  <2>1. data # << >>
    OBVIOUS
  <2> QED BY <1>1, <2>1, ServedInOrder DEF Handed
<1>3. StGiven(z)'
  <2>2. z \in Nat
    BY <1>1
  <2>3. Len(out'.bytes) = Outputs(x)'
    BY <1>1, SameInput
  <2>4. RunFrom(st'.src, x)
    BY <1>2
  <2>5. (\E y \in Nat : /\ Len(st.src) \in Nat \ {0} /\ z = y + Len(st.src) /\ z <= rd.pos
                        /\ RunFrom(st.src, y) /\ Len(out.bytes) = Outputs(y))'
    <3>1. /\ Len(st'.src) \in Nat \ {0} /\ z = x + Len(st'.src) /\ z <= rd'.pos
      BY <1>2
    <3>2. PICK y \in Nat : y = x
      BY <1>1
    <3> QED BY <2>3, <2>4, <3>1, <3>2
  <2> QED BY <1>1, <1>2, <2>2, <2>5 DEF StGiven
<1> QED BY <1>2, <1>3 DEF Handed, OutDomain, StOK, RunKept

(* MtDec_Read serves the links of the thread that holds input, then the    *)
(* crossBlock, then nothing.                                               *)
LEMMA MtDec_ReadHanded ==
  ASSUME Inv, Handed, MtDec_Read
  PROVE  Handed'
<1> DEFINE f     == wr.filledStart
           used  == st.inLim # 0
           empty == used /\ th[f].size = 0
           t     == IF empty THEN (IF f + 1 = rd.started THEN 0 ELSE f + 1) ELSE f
           links == IF used /\ ~ empty THEN RestOf(th[t].inBuf, 1) ELSE th[t].inBuf
           lim   == IF th[t].start # 0 THEN th[t].start ELSE Smaller(InBufSize, th[t].size)
           freed == IF empty THEN [th EXCEPT ![f].inBuf = << >>] ELSE th
           last  == empty /\ wr.numFilled = 1
<1>1. /\ mainPc = "read" /\ st.tMode /\ UNCHANGED <<input, out>>
      /\ RdOK /\ WrOK /\ rd.pos \in Nat /\ InBufSize \in Nat \ {0}
  <2>1. Len(input.bytes) \in Nat
    BY DEF Inv, Control, InputOK, Streams
  <2>2. RdOK /\ WrOK /\ InBufSize \in Nat \ {0}
    BY MtDecAssumption DEF Inv, Control
  <2>3. rd.pos \in Nat
    BY <2>1, <2>2 DEF RdOK
  <2> QED BY <2>2, <2>3 DEF MtDec_Read
<1>2. f \in Threads /\ f \in DOMAIN th /\ ThreadOK(th[f])
  <2>1. rd.started \in 1 .. MaxThreads /\ MaxThreads \in Nat /\ f \in 0 .. rd.started - 1
    BY ThreadZero DEF Inv, Shape, IsRd, Bounds
  <2>2. f \in Threads
    BY <2>1 DEF Threads
  <2> QED BY <2>2 DEF Inv, Shape, Control, Good
<1>3. PICK x : StGiven(x)
  BY <1>1 DEF Handed, StOK
<1>4. x \in Nat /\ st.expect = x + 1 /\ ToServe(x)
  BY <1>3 DEF StGiven
<1>5. PICK size, start, buf : size = th[f].size /\ start = th[f].start /\ buf = th[f].inBuf
  OBVIOUS
<1>6. size \in Int /\ start \in Int /\ buf \in Seq(Link)
  BY <1>2, <1>5 DEF ThreadOK
<1>7. PICK e : e = x + size
  OBVIOUS
<1>8. \/ wr.numFilled = 0 /\ Front(x)
      \/ /\ wr.numFilled = 1
         /\ Front(e) \/ (Dropped(e) /\ x < e)
         /\ IF st.inLim = 0 THEN size > 0 /\ Holds(buf, x, start, size)
            ELSE start = 0 /\ Len(buf) > 0 /\ size >= 0 /\ Rest(buf, x, size)
  BY <1>1, <1>4, <1>5, <1>7 DEF ToServe
<1>9. \/ /\ wr.numFilled # 0 /\ ~ last
         /\ Served(FirstBytes(links[1], lim))
         /\ th' = [freed EXCEPT ![t] = [freed[t] EXCEPT !.inBuf = links, !.start = 0,
                                                        !.size = @ - lim]]
         /\ wr' = IF empty THEN [wr EXCEPT !.numFilled = @ - 1, !.filledStart = t] ELSE wr
         /\ UNCHANGED rd
      \/ /\ wr.numFilled = 0 \/ last
         /\ wr' = [wr EXCEPT !.numFilled = 0]
         /\ rd' = [rd EXCEPT !.cross = << >>, !.crossBlock = rd.cross # << >>]
         /\ \/ rd.cross # << >> /\ Served(rd.cross)
            \/ /\ rd.cross = << >>
               /\ st' = [st EXCEPT !.tMode = FALSE, !.src = << >>, !.inLim = 0]
               /\ UNCHANGED mainPc
  BY DEF MtDec_Read
<1>10. ASSUME wr.numFilled = 1, ~ last, NEW z, NEW k \in 1 .. InBufSize, k <= size, z = x + k,
              NEW link \in Link, \A j \in 1 .. k : link[j] = x + j,
              Served(FirstBytes(link, k)), UNCHANGED <<rd, wr>>,
              th'[f].start = 0, th'[f].size = size - k, Len(th'[f].inBuf) > 0,
              Rest(th'[f].inBuf, z, size - k)
       PROVE  Handed'
  <2>1. PICK data : data = FirstBytes(link, k)
    OBVIOUS
  <2>2. k \in 0 .. InBufSize /\ k \in Nat
    BY <1>1, <1>10
  <2>3. Len(data) = k /\ RunFrom(data, x) /\ Served(data)
    BY <1>4, <1>10, <2>1, <2>2, FirstOfLink
  <2>4. z \in Nat /\ e = z + (size - k) /\ size - k >= 0
    BY <1>4, <1>6, <1>7, <1>10, <2>2
  <2>5. Front(e) \/ Dropped(e)
    BY <1>8, <1>10
  <2>6. z <= rd.pos
    <3>1. e <= rd.pos
      <4>1. CASE Dropped(e)
        BY <4>1 DEF Dropped
      <4>2. CASE Front(e)
        <5>1. Len(rd.cross) \in Nat
          BY <1>1 DEF RdOK
        <5>2. rd.pos = e + Len(rd.cross) /\ e \in Int
          BY <1>4, <1>6, <1>7, <4>2 DEF Front
        <5> QED BY <1>1, <5>1, <5>2
      <4> QED BY <2>5, <4>1, <4>2
    <3>2. e \in Int /\ z <= e
      BY <1>6, <2>2, <2>4
    <3> QED BY <1>1, <2>4, <3>1, <3>2
  <2>7. st'.inLim = k /\ mainPc' = "decode"
    <3>1. Len(data) \in Nat /\ data # << >>
      BY <1>10, <2>2, <2>3
    <3> QED BY <1>4, <2>3, <3>1, ServedInOrder DEF Handed
  <2>8. Front(e)' \/ Dropped(e)'
    BY <1>1, <1>10, <2>5, SameInput DEF Front, Dropped
  <2>9. ToServe(z)'
    BY <1>10, <2>4, <2>7, <2>8 DEF ToServe
  <2>10. Len(data) \in Nat \ {0} /\ z = x + Len(data) /\ rd'.pos = rd.pos /\ rd.pos \in Int
    BY <1>1, <1>10, <2>2, <2>3
  <2> QED BY <1>1, <1>3, <2>3, <2>6, <2>9, <2>10, ServedIsHanded
<1>11. CASE wr.numFilled # 0 /\ ~ last
  <2>1. wr.numFilled = 1 /\ ~ empty
    BY <1>8, <1>11
  <2>2. /\ t = f /\ freed = th /\ links = (IF used THEN RestOf(buf, 1) ELSE buf)
        /\ lim = IF start # 0 THEN start ELSE Smaller(InBufSize, size)
    BY <1>5, <2>1
  <2>3. /\ Served(FirstBytes(links[1], lim)) /\ UNCHANGED <<rd, wr>>
        /\ th' = [th EXCEPT ![f] = [th[f] EXCEPT !.inBuf = links, !.start = 0, !.size = @ - lim]]
    BY <1>9, <1>11, <2>1, <2>2
  <2>4. th'[f].start = 0 /\ th'[f].size = size - lim /\ th'[f].inBuf = links
    <3> HIDE DEF links, lim, f
    <3> QED BY <1>2, <1>5, <2>3 DEF ThreadOK
  <2>5. CASE st.inLim = 0
    <3>1. links = buf /\ size > 0 /\ Holds(buf, x, start, size)
      BY <1>8, <2>1, <2>2, <2>5
    <3>2. /\ start \in 1 .. InBufSize /\ start <= size /\ Len(buf) > 0
          /\ \A j \in 1 .. start : buf[1][j] = x + j
          /\ Rest(buf, x + start, size - start)
      BY <1>1, <3>1 DEF Holds
    <3>3. buf[1] \in Link /\ lim = start
      BY <1>6, <2>2, <3>2
    <3>4. PICK z : z = x + start
      OBVIOUS
    <3> HIDE DEF links, lim, f, last
    <3> QED BY <1>10, <1>11, <2>1, <2>3, <2>4, <3>1, <3>2, <3>3, <3>4
  <2>6. CASE st.inLim # 0
    <3>1. /\ start = 0 /\ Len(buf) > 0 /\ size >= 0 /\ Rest(buf, x, size) /\ size # 0
          /\ links = RestOf(buf, 1) /\ lim = Smaller(InBufSize, size)
      BY <1>5, <1>8, <2>1, <2>2, <2>6
    <3>2. size \in Nat /\ size > 0
      BY <1>6, <3>1
    <3> HIDE DEF links, lim, f, last
    <3>3. /\ lim \in 1 .. InBufSize /\ lim <= size /\ Len(links) > 0 /\ links[1] \in Link
          /\ \A j \in 1 .. lim : links[1][j] = x + j
          /\ Rest(links, x + lim, size - lim)
      BY <1>4, <1>6, <3>1, <3>2, RestMoves
    <3>4. PICK z : z = x + lim
      OBVIOUS
    <3> QED BY <1>10, <1>11, <2>1, <2>3, <2>4, <3>3, <3>4
  <2> QED BY <2>5, <2>6
<1>12. CASE wr.numFilled = 0 \/ last
  <2>1. Front(x)
    <3>1. CASE wr.numFilled = 0
      BY <1>8, <3>1
    <3>2. CASE last
      <4>1. e = x /\ wr.numFilled = 1
        BY <1>4, <1>5, <1>7, <3>2
      <4> QED BY <1>4, <1>8, <4>1
    <3> QED BY <1>12, <3>1, <3>2
  <2>2. RunFrom(rd.cross, x) /\ rd.pos = x + Len(rd.cross) /\ Len(rd.cross) \in Nat
    BY <1>1, <2>1 DEF Front, RdOK
  <2>3. /\ wr'.numFilled = 0 /\ rd'.cross = << >> /\ rd'.pos = rd.pos
        /\ \/ rd.cross # << >> /\ Served(rd.cross)
           \/ /\ rd.cross = << >>
              /\ st' = [st EXCEPT !.tMode = FALSE, !.src = << >>, !.inLim = 0]
              /\ UNCHANGED mainPc
    BY <1>1, <1>9, <1>12 DEF RdOK, WrOK
  <2>4. CASE rd.cross # << >> /\ Served(rd.cross)
    <3>1. PICK data, z : data = rd.cross /\ z = x + Len(data)
      OBVIOUS
    <3>2. data \in Seq(Int) /\ Len(data) \in Nat \ {0}
      <4>1. data \in Seq(Int) /\ data # << >>
        BY <1>1, <2>4, <3>1 DEF RdOK
      <4> QED BY <4>1
    <3>3. ToServe(z)'
      <4>1. Front(z)'
        <5>1. Len(rd'.cross) = 0 /\ z \in Nat /\ z = rd'.pos
          BY <1>4, <2>2, <2>3, <3>1
        <5> QED BY <5>1 DEF Front, RunFrom
      <4> QED BY <2>3, <4>1 DEF ToServe
    <3>4. z <= rd.pos /\ rd.pos \in Int
      BY <1>1, <2>2, <3>1
    <3> QED BY <1>1, <1>3, <2>2, <2>3, <2>4, <3>1, <3>2, <3>3, <3>4, ServedIsHanded
  <2>5. CASE rd.cross = << >>
    <3>1. st' = [st EXCEPT !.tMode = FALSE, !.src = << >>, !.inLim = 0] /\ mainPc' = mainPc
      BY <2>3, <2>5
    <3>2. StDomain' /\ st'.inOrder /\ ~ st'.tMode /\ st'.expect = x + 1
      BY <1>4, <3>1 DEF Handed, StDomain
    <3>3. x = rd'.pos
      BY <1>4, <2>2, <2>3, <2>5
    <3> QED BY <1>1, <3>1, <3>2, <3>3 DEF Handed, OutDomain, StOK, RunKept
  <2> QED BY <2>3, <2>4, <2>5
<1> QED BY <1>11, <1>12

(* MtDec_PrepareRead leaves the links that hold input.                     *)
LEMMA PrepareHanded ==
  ASSUME Inv, Handed, Prepare
  PROVE  Handed'
<1> DEFINE f == wr.filledStart
           tMode == input.threads # 1
           more == wr.numFilled # 0 \/ rd.cross # << >>
<1>1. /\ mainPc = "prepare" /\ mainPc' \in {"read", "idle"} /\ UNCHANGED <<input, wr, out>>
      /\ st' = [st EXCEPT !.tMode = tMode /\ more, !.expect = wr.inProcessed + 1]
      /\ rd' = IF tMode /\ rd.cross = << >> THEN [rd EXCEPT !.crossBlock = FALSE] ELSE rd
  BY DEF Prepare, Return
<1>2. /\ StDomain /\ st.inOrder /\ st.inLim = 0 /\ EndOK /\ IsSeq(out.bytes)
      /\ ~ tMode => wr.numFilled = 0 /\ rd.cross = << >>
  BY <1>1 DEF Handed, St0
<1>3. /\ StDomain' /\ st'.inOrder /\ st'.inLim = 0 /\ st'.expect = wr.inProcessed + 1
      /\ st'.tMode <=> tMode /\ more
  <2>1. PICK b : b = (tMode /\ more)
    OBVIOUS
  <2>2. b \in BOOLEAN
    BY <2>1
  <2>3. st' = [st EXCEPT !.tMode = b, !.expect = wr.inProcessed + 1]
    BY <1>1, <2>1
  <2>4. StDomain' /\ st'.inOrder /\ st'.inLim = 0 /\ st'.expect = wr.inProcessed + 1 /\ st'.tMode = b
    BY <1>2, <2>3 DEF StDomain
  <2> HIDE DEF more
  <2> QED BY <2>1, <2>4
<1>4. RdOK /\ WrOK /\ rd.pos \in Nat
  <2>1. Len(input.bytes) \in Nat
    BY DEF Inv, Control, InputOK, Streams
  <2>2. RdOK /\ WrOK
    BY DEF Inv, Control
  <2> QED BY <2>1, <2>2 DEF RdOK
<1>5. rd'.cross = rd.cross /\ rd'.pos = rd.pos /\ rd'.finished = rd.finished
  BY <1>1, <1>4 DEF RdOK
<1>6. f \in Threads /\ ThreadOK(th[f]) /\ (tMode /\ wr.numFilled = 1 => th'[f] = th[f])
  <2>1. /\ rd.started \in 1 .. MaxThreads /\ MaxThreads \in Nat /\ f \in 0 .. rd.started - 1
        /\ f \in Threads
    <3>1. rd.started \in 1 .. MaxThreads /\ MaxThreads \in Nat /\ f \in 0 .. rd.started - 1
      BY ThreadZero DEF Inv, Shape, IsRd, Bounds
    <3> QED BY <3>1 DEF Threads
  <2>2. wr.numFilled = 1 => HoldsInput(f)
    BY <2>1 DEF HoldsInput, Distance
  <2>3. tMode => th' = [t \in Threads |-> IF HoldsInput(t) THEN th[t]
                                          ELSE [th[t] EXCEPT !.inBuf = << >>]]
    BY DEF Prepare
  <2>4. tMode /\ wr.numFilled = 1 => th'[f] = th[f]
    <3> HIDE DEF tMode, f
    <3> QED BY <2>1, <2>2, <2>3
  <2> QED BY <2>1, <2>4 DEF Inv, Control, Good
<1>o. OutDomain'
  BY <1>1 DEF Handed, OutDomain
<1>7. CASE mainPc' = "idle"
  BY <1>3, <1>o, <1>7 DEF Handed, RunKept
<1>8. CASE mainPc' = "read"
  <2>1. SUFFICES StOK'
    BY <1>3, <1>o, <1>8 DEF Handed, RunKept
  <2>2. CASE ~ (tMode /\ more)
    <3>1. wr.numFilled = 0 /\ rd.cross = << >>
      BY <1>2, <2>2
    <3>2. rd.finished \/ (wr.inProcessed \in Nat /\ rd.pos = wr.inProcessed)
      <4>1. CASE rd.finished
        BY <4>1
      <4>2. CASE ~ rd.finished
        <5>1. wr.inProcessed \in Nat /\ Front(wr.inProcessed)
          BY <1>2, <3>1, <4>2 DEF EndOK
        <5>2. Len(rd.cross) = 0
          BY <3>1
        <5> QED BY <5>1, <5>2 DEF Front
      <4> QED BY <4>1, <4>2
    <3> QED BY <1>3, <1>5, <2>2, <3>2 DEF StOK
  <2>3. CASE tMode /\ more
    <3>1. PICK x : x = wr.inProcessed
      OBVIOUS
    <3>2. PICK size, start, buf : size = th[f].size /\ start = th[f].start /\ buf = th[f].inBuf
      OBVIOUS
    <3>3. PICK e : e = x + size
      OBVIOUS
    <3>4. size \in Int
      BY <1>6, <3>2 DEF ThreadOK
    <3>5. /\ x \in Nat /\ Len(out.bytes) = Outputs(x)
          /\ \/ wr.numFilled = 0 /\ Front(x)
             \/ /\ wr.numFilled = 1 /\ size > 0 /\ Holds(buf, x, start, size)
                /\ Front(e) \/ Dropped(e)
      <4>1. \/ wr.numFilled = 0 /\ rd.cross = << >> /\ rd.finished
            \/ wr.numFilled = 0 /\ x \in Nat /\ Front(x) /\ Len(out.bytes) = Outputs(x)
            \/ /\ wr.numFilled = 1 /\ x \in Nat /\ size > 0 /\ Holds(buf, x, start, size)
               /\ Len(out.bytes) = Outputs(x) /\ (Front(e) \/ Dropped(e))
        BY <1>2, <3>1, <3>2, <3>3 DEF EndOK
      <4> QED BY <2>3, <4>1
    <3>6. \A p : (Outputs(p)' = Outputs(p)) /\ (Terminal(p)' <=> Terminal(p))
      BY <1>1, SameInput
    <3>7. \A p : (Front(p)' <=> Front(p)) /\ (Dropped(p)' <=> Dropped(p))
      BY <1>5, <3>6 DEF Front, Dropped
    <3>8. ToServe(x)'
      <4>1. CASE wr.numFilled = 0 /\ Front(x)
        BY <1>1, <3>7, <4>1 DEF ToServe
      <4>2. CASE /\ wr.numFilled = 1 /\ size > 0 /\ Holds(buf, x, start, size)
                 /\ Front(e) \/ Dropped(e)
        <5>1. th'[f].size = size /\ th'[f].start = start /\ th'[f].inBuf = buf
          BY <1>6, <2>3, <3>2, <4>2
        <5>2. wr'.filledStart = f /\ wr'.numFilled = 1
          BY <1>1, <4>2
        <5>3. Front(e)' \/ (Dropped(e)' /\ x < e)
          BY <3>3, <3>4, <3>5, <3>7, <4>2
        <5>4. Holds(th'[f].inBuf, x, th'[f].start, th'[f].size)
          BY <4>2, <5>1
        <5> HIDE DEF f
        <5> QED BY <1>3, <3>3, <4>2, <5>1, <5>2, <5>3, <5>4 DEF ToServe
      <4> QED BY <3>5, <4>1, <4>2
    <3>9. StGiven(x)'
      BY <1>1, <1>2, <1>3, <1>8, <3>1, <3>5, <3>6, <3>8 DEF StGiven
    <3> QED BY <1>3, <2>3, <3>9 DEF StOK
  <2> QED BY <2>2, <2>3
<1> QED BY <1>1, <1>7, <1>8

(* Lzma2Dec_Decode_ST reads the stream on from where it was read to.       *)
LEMMA StReadHanded ==
  ASSUME Inv, Handed, StRead
  PROVE  Handed'
<1>1. /\ mainPc = "read" /\ ~ st.tMode /\ mainPc' = "decode"
      /\ StDomain /\ st.inOrder /\ RdOK /\ (rd.finished \/ st.expect = rd.pos + 1) /\ OutDomain'
  BY DEF StRead, Handed, StOK, Inv, Control, OutDomain
<1>2. rd.pos \in Nat /\ InBufSize \in Nat
  <2>1. Len(input.bytes) \in Nat
    BY DEF Inv, Control, InputOK, Streams
  <2> QED BY <1>1, <2>1, MtDecAssumption DEF RdOK
<1>3. CASE rd.finished
  <2>1. st' = [st EXCEPT !.src = << >>] /\ rd' = rd
    BY <1>3, Zenon DEF StRead
  <2>2. StDomain' /\ st'.inOrder /\ ~ st'.tMode /\ rd'.finished
    BY <1>1, <1>3, <2>1 DEF StDomain
  <2> QED BY <1>1, <2>2 DEF Handed, StOK, RunKept
<1>4. CASE ~ rd.finished
  <2>1. \E k \in 0 .. InBufSize, ok \in BOOLEAN :
             /\ ReadMax(k, ok)
             /\ rd' = [rd EXCEPT !.pos = @ + k, !.finished = k = 0 \/ ~ ok,
                                 !.res = IF ok THEN OK ELSE "READ"]
             /\ st' = [st EXCEPT !.src = NextBytes(k), !.expect = @ + k,
                         !.inOrder = @ /\ (k # 0 => rd.pos + 1 = st.expect)]
    BY <1>4, Zenon DEF StRead
  <2>2. PICK k \in 0 .. InBufSize, ok \in BOOLEAN :
             /\ ReadMax(k, ok)
             /\ rd' = [rd EXCEPT !.pos = @ + k, !.finished = k = 0 \/ ~ ok,
                                 !.res = IF ok THEN OK ELSE "READ"]
             /\ st' = [st EXCEPT !.src = NextBytes(k), !.expect = @ + k,
                         !.inOrder = @ /\ (k # 0 => rd.pos + 1 = st.expect)]
    BY <2>1, Zenon
  <2> DEFINE b == st.inOrder /\ (k # 0 => rd.pos + 1 = st.expect)
             fin == k = 0 \/ ~ ok
             r == IF ok THEN OK ELSE "READ"
  <2>3. b /\ b \in BOOLEAN /\ st.expect = rd.pos + 1
    BY <1>1, <1>4
  <2>4. /\ rd' = [rd EXCEPT !.pos = @ + k, !.finished = fin, !.res = r]
        /\ st' = [st EXCEPT !.src = NextBytes(k), !.expect = @ + k, !.inOrder = b]
    BY <2>2
  <2> HIDE DEF b, fin, r
  <2>5. /\ StDomain' /\ st'.inOrder /\ ~ st'.tMode /\ st'.expect = st.expect + k
        /\ rd'.pos = rd.pos + k
    BY <1>1, <2>3, <2>4 DEF StDomain, RdOK
  <2>6. st'.expect = rd'.pos + 1
    BY <1>2, <2>3, <2>5
  <2> QED BY <1>1, <2>5, <2>6 DEF Handed, StOK, RunKept
<1> QED BY <1>3, <1>4

(* It asks for more only after it used what it was given.                  *)
LEMMA StDecodeHanded ==
  ASSUME Inv, Handed, StDecode
  PROVE  Handed'
<1> DEFINE n == Len(out.bytes)
           d == Decode(input.bytes, st.src, n, input.outSize, ~ input.finishMode)
           answer == StAnswer(d, n + Len(d.out))
<1>1. /\ mainPc = "decode" /\ mainPc' \in {"read", "idle"} /\ UNCHANGED <<input, rd, wr, th, st>>
      /\ StDomain /\ st.inOrder /\ StOK /\ OutDomain
  BY DEF StDecode, Return, Handed
<1>2. StDomain' /\ st'.inOrder /\ OutDomain'
  <2>1. \/ out' = [out EXCEPT !.bytes = @ \o d.out]
        \/ \E k : out' = [bytes |-> out.bytes \o FirstBytes(d.out, k), failed |-> TRUE]
    BY DEF StDecode
  <2> HIDE DEF d
  <2>2. OutDomain'
    BY <1>1, <2>1 DEF OutDomain
  <2> QED BY <1>1, <2>2 DEF StDomain
<1>3. CASE mainPc' = "idle"
  BY <1>2, <1>3 DEF Handed, RunKept
<1>4. CASE mainPc' = "read"
  <2>1. answer = "more" /\ out' = [out EXCEPT !.bytes = @ \o d.out]
    <3>1. \/ /\ out' = [out EXCEPT !.bytes = @ \o d.out]
             /\ Return(answer) \/ (answer = "more" /\ mainPc' = "read") \/ Return("PROGRESS")
          \/ Return("WRITE")
      BY DEF StDecode
    <3> HIDE DEF answer, d
    <3> QED BY <1>4, <3>1 DEF Return
  <2>2. SUFFICES StOK'
    BY <1>2, <1>4 DEF Handed, RunKept
  <2>3. CASE ~ st.tMode
    BY <1>1, <2>3 DEF StOK
  <2>4. CASE st.tMode
    <3>1. PICK x : StGiven(x)
      BY <1>1, <2>4 DEF StOK
    <3>2. x \in Nat /\ st.expect = x + 1 /\ IsSeq(out.bytes) /\ ToServe(x)
      BY <3>1 DEF StGiven
    <3>3. PICK y \in Nat : /\ Len(st.src) \in Nat \ {0} /\ x = y + Len(st.src) /\ x <= rd.pos
                           /\ RunFrom(st.src, y) /\ Len(out.bytes) = Outputs(y)
      BY <1>1, <3>1 DEF StGiven
    <3>4. IsSeq(d.out) /\ n + Len(d.out) = Outputs(x) /\ ~ Terminal(x)
      <4>1. InputOK /\ rd.res \in {OK, "READ"} /\ rd.pos \in 0 .. Len(input.bytes)
        BY DEF Inv, Control, RdOK
      <4>2. n \in Nat
        BY <3>3, OutputsNext
      <4>3. Len(input.bytes) \in Nat
        BY <4>1 DEF InputOK, Streams
      <4>4. PICK src, m, dd : src = st.src /\ m = n /\ dd = d
        OBVIOUS
      <4>5. /\ Len(src) \in Nat /\ RunFrom(src, y) /\ y + Len(src) <= Len(input.bytes)
            /\ x = y + Len(src) /\ m = Outputs(y) /\ m \in Nat /\ Len(src) > 0
            /\ dd = Decode(input.bytes, src, m, input.outSize, ~ input.finishMode)
            /\ StAnswer(dd, m + Len(dd.out)) = "more"
        <5> HIDE DEF d, answer
        <5>1. x <= Len(input.bytes)
          BY <3>2, <3>3, <4>1, <4>3
        <5>2. dd = Decode(input.bytes, src, m, input.outSize, ~ input.finishMode)
          BY <4>4 DEF d
        <5>3. StAnswer(dd, m + Len(dd.out)) = "more"
          BY <2>1, <4>4 DEF answer
        <5> QED BY <3>3, <4>2, <4>4, <5>1, <5>2, <5>3
      <4>6. IsSeq(dd.out) /\ m + Len(dd.out) = Outputs(y + Len(src)) /\ ~ Terminal(y + Len(src))
        <5> HIDE DEF d, answer, n
        <5> QED BY <4>1, <4>4, <4>5, DecodeAsks
      <4> HIDE DEF d, n
      <4> QED BY <4>4, <4>5, <4>6
    <3> HIDE DEF d, answer
    <3>5. IsSeq(out'.bytes) /\ Len(out'.bytes) = Outputs(x)
      <4>2. out'.bytes = out.bytes \o d.out
        BY <1>1, <2>1 DEF OutDomain
      <4> QED BY <3>2, <3>4, <4>2, SeqJoins
    <3>6. \A p : (Outputs(p)' = Outputs(p)) /\ (Terminal(p)' <=> Terminal(p))
      BY <1>1, SameInput
    <3>7. \A p : (Front(p)' <=> Front(p)) /\ (Dropped(p)' <=> Dropped(p))
      BY <1>1, <3>6 DEF Front, Dropped
    <3>8. PICK f, e : f = wr.filledStart /\ e = x + th[f].size
      OBVIOUS
    <3>9. th[f].size \in Int /\ th[f].start \in Int
      <4>1. rd.started \in 1 .. MaxThreads /\ MaxThreads \in Nat /\ f \in 0 .. rd.started - 1
        BY <3>8, ThreadZero DEF Inv, Shape, IsRd, Bounds
      <4>2. f \in Threads
        BY <4>1 DEF Threads
      <4> QED BY <4>2 DEF Inv, Control, Good, ThreadOK
    <3>10. ToServe(x)'
      <4>1. CASE wr.numFilled = 0 /\ Front(x)
        BY <1>1, <3>7, <4>1 DEF ToServe
      <4>2. CASE ~ (wr.numFilled = 0 /\ Front(x))
        <5>1. /\ wr.numFilled = 1
              /\ Front(e) \/ Dropped(e)
              /\ IF st.inLim = 0
                 THEN th[f].size > 0 /\ Holds(th[f].inBuf, x, th[f].start, th[f].size)
                 ELSE /\ th[f].start = 0 /\ Len(th[f].inBuf) > 0 /\ th[f].size >= 0
                      /\ Rest(th[f].inBuf, x, th[f].size)
          BY <3>2, <3>8, <4>2 DEF ToServe
        <5>2. Dropped(e) => x < e
          <6>1. th[f].size >= 0
            BY <3>9, <5>1
          <6>2. PICK s : s = th[f].size
            OBVIOUS
          <6>3. s \in Int /\ s >= 0 /\ e = x + s
            BY <3>8, <3>9, <6>1, <6>2
          <6>4. Dropped(e) => e # x
            BY <3>4 DEF Dropped
          <6> QED BY <3>2, <6>3, <6>4
        <5>3. Front(e)' \/ (Dropped(e)' /\ x < e)
          BY <3>7, <5>1, <5>2
        <5> QED BY <1>1, <3>8, <5>1, <5>3 DEF ToServe
      <4> QED BY <4>1, <4>2
    <3>11. StGiven(x)'
      BY <1>1, <1>4, <3>2, <3>5, <3>6, <3>10 DEF StGiven
    <3> QED BY <1>1, <2>4, <3>11 DEF StOK
  <2> QED BY <2>3, <2>4
<1> QED BY <1>1, <1>3, <1>4

(* The Write callback leaves the stream a stream.                          *)
LEMMA WriteOuts ==
  ASSUME NEW l, NEW toStream, NEW cb \in WriteResults(l, toStream)
  PROVE  cb.out = out \/ DOMAIN cb.out = {"bytes", "failed"}
<1> DEFINE wrote(res, bytes, cont) ==
             [res |-> res, cont |-> cont, recode |-> FALSE, used |-> l.inCodeSize,
              out |-> [bytes |-> out.bytes \o bytes, failed |-> out.failed \/ res # OK]]
<1>1. \/ cb = Kept(l.res, ~ l.finish) \/ cb = Kept(OK, FALSE)
      \/ cb = [Kept("FAIL", FALSE) EXCEPT !.used = l.inCodeSize]
      \/ cb = wrote(OK, l.outBuf, l.state \in {"CONTINUE", "NEW"})
      \/ \E k : cb = wrote("WRITE", FirstBytes(l.outBuf, k), FALSE)
  BY DEF WriteResults
<1>2. ASSUME NEW res, NEW cont, cb = Kept(res, cont) PROVE cb.out = out
  BY <1>2 DEF Kept
<1>3. ASSUME cb = [Kept("FAIL", FALSE) EXCEPT !.used = l.inCodeSize] PROVE cb.out = out
  BY <1>3 DEF Kept
<1>4. ASSUME NEW res, NEW bytes, NEW cont, cb = wrote(res, bytes, cont)
      PROVE  DOMAIN cb.out = {"bytes", "failed"}
  <2>1. cb.out = [bytes |-> out.bytes \o bytes, failed |-> out.failed \/ res # OK]
    BY <1>4
  <2> QED BY <2>1
<1> HIDE DEF wrote
<1> QED BY <1>1, <1>2, <1>3, <1>4

(* Every step of MtDec_ThreadFunc2 leaves the other decoder alone.         *)
LEMMA ThreadHanded ==
  ASSUME Inv, Handed, NEW t \in Threads, Thread(t)
  PROVE  Handed'
<1>1. UNCHANGED <<input, st, mainPc>>
  BY DEF Thread, WaitRead, ReadNoLink, ReadCross, ReadLink, ParseOverflow, ParseContinue,
         ParseEnd, ParseNew, StoreParsed, PreCode, StartNext, StartNone, CodeFails, CodeLink,
         CodeUnprepared, Write, caller
<1>2. mainPc \notin {"prepare", "read", "decode"}
  <2>1. CASE WaitRead(t) /\ exitThread
    BY <2>1 DEF WaitRead, Inv, Tokens
  <2>2. CASE ~ (WaitRead(t) /\ exitThread)
    BY <2>2, ThreadRuns DEF Inv
  <2> QED BY <2>1, <2>2
<1>3. OutDomain'
  <2>1. CASE ~ Write(t)
    <3>1. out' = out
      BY <2>1 DEF Thread, WaitRead, ReadNoLink, ReadCross, ReadLink, ParseOverflow,
                  ParseContinue, ParseEnd, ParseNew, StoreParsed, PreCode, StartNext, StartNone,
                  CodeFails, CodeLink, CodeUnprepared
    <3> QED BY <3>1 DEF Handed, OutDomain
  <2>2. CASE Write(t)
    <3> DEFINE l == th[t].l
               was == l.wasInterrupted \/ wr.interrupted
               wants == l.needWrite /\ (wr.interrupted \/ ~ LeftToOther(l))
               res(r) == IF l.needCode THEN r ELSE l.res
               m(r) == [l EXCEPT !.res = res(r)]
               toStream(r) == res(r) = OK /\ wants /\ ~ was
    <3>1. \E r : \E cb \in WriteResults(m(r), toStream(r)) : out' = cb.out
      BY <2>2 DEF Write
    <3> HIDE DEF m, toStream
    <3>2. PICK r : \E cb \in WriteResults(m(r), toStream(r)) : out' = cb.out
      BY <3>1
    <3>4. PICK cb \in WriteResults(m(r), toStream(r)) : out' = cb.out
      BY <3>2
    <3>3. cb.out = out \/ DOMAIN cb.out = {"bytes", "failed"}
      BY <3>4, WriteOuts
    <3> QED BY <3>3, <3>4 DEF Handed, OutDomain
  <2> QED BY <2>1, <2>2
<1>4. RunKept'
  BY ThreadKept DEF Handed
<1> QED BY <1>1, <1>2, <1>3, <1>4 DEF Handed, StDomain

(* What the blocks are is told from the variables.                         *)
LEMMA PlacedSame ==
  ASSUME UNCHANGED <<input, rd, wr, pc, th, out>>, NEW n, NEW B, Placed(n, B)
  PROVE  Placed(n, B)'
<1>1. /\ \A p : (Outputs(p)' = Outputs(p)) /\ (Terminal(p)' <=> Terminal(p))
  BY SameInput
<1>2. \A t \in Threads : /\ (Working(t)' <=> Working(t)) /\ (InBlock(t)' <=> InBlock(t))
                         /\ bi(t)' = bi(t)
  BY DEF Working, Reading, InBlock, bi
<1>3. \A p : /\ (Front(p)' <=> Front(p)) /\ (Dropped(p)' <=> Dropped(p))
             /\ (Drained(p)' <=> Drained(p))
  BY <1>1 DEF Front, Dropped, Drained
<1>4. \A p : (Level(p)' <=> Level(p)) /\ (Written(p) => Written(p)')
  BY <1>1, <1>3 DEF Level, Written
<1>5. \A t \in Threads : \A a : Reader(t, a) => Reader(t, a)'
  <2>1. SUFFICES ASSUME NEW t \in Threads, NEW a, Reader(t, a) PROVE Reader(t, a)'
    OBVIOUS
  <2>2. (AtRead(t, a)' <=> AtRead(t, a)) /\ (AtCross(t, a)' <=> AtCross(t, a))
    BY <1>1, <1>3 DEF AtRead, AtCross
  <2>3. (AtLink(t, a)' <=> AtLink(t, a)) /\ (FromCross(t)' <=> FromCross(t))
    BY <1>1 DEF AtLink, FromCross, Links
  <2> QED BY <1>4, <2>1, <2>2, <2>3 DEF Reader
<1>6. \A t \in Threads : \A a, b : HasBlock(t, a, b) => HasBlock(t, a, b)'
  BY <1>1 DEF HasBlock, Sized
<1>7. \A t \in Threads : Working(t)' => HasPlace(t, B)'
  BY <1>2, <1>5, <1>6 DEF HasPlace, Placed
<1>8. (\E t \in Threads : InBlock(t)') \/ NextPlace(B[rd.blockIndex])'
  <2>1. CASE \E t \in Threads : InBlock(t)
    BY <1>2, <2>1
  <2>2. CASE NextPlace(B[rd.blockIndex])
    <3>1. PICK e : e = B[rd.blockIndex]
      OBVIOUS
    <3>2. \A t \in Threads : /\ (IsLast(t)' <=> IsLast(t)) /\ (Ends(t)' <=> Ends(t))
                             /\ (Unleveled(t)' <=> Unleveled(t)) /\ (RunsDry(t)' <=> RunsDry(t))
      BY <1>2 DEF IsLast, Ends, Unleveled, RunsDry
    <3>3. NextPlace(e)'
      BY <1>3, <1>4, <2>2, <3>1, <3>2 DEF NextPlace
    <3> QED BY <3>1, <3>3
  <2> QED BY <2>1, <2>2 DEF Placed
<1>9. Unbroken' /\ Places(B)
  BY DEF Placed, Unbroken, NeedContinue
<1>10. Written(B[rd.blockIndex - n])'
  <2>1. PICK e : e = B[rd.blockIndex - n]
    OBVIOUS
  <2>2. Written(e)
    BY <2>1 DEF Placed
  <2>3. Written(e)'
    BY <1>4, <2>2
  <2> QED BY <2>1, <2>3
<1> QED BY <1>7, <1>8, <1>9, <1>10 DEF Placed

(* No step: nothing moves.                                                 *)
LEMMA NothingHanded ==
  ASSUME Inv, Handed, UNCHANGED vars
  PROVE  Handed'
<1>1. UNCHANGED <<input, rd, wr, sync, exitThread, canRead, canWrite, pc, th, st, out, mainPc>>
  BY DEF vars
<1>2. /\ \A p : (Outputs(p)' = Outputs(p)) /\ (Terminal(p)' <=> Terminal(p))
  BY <1>1, SameInput
<1>3. \A p : /\ (Front(p)' <=> Front(p)) /\ (Dropped(p)' <=> Dropped(p))
  BY <1>1, <1>2 DEF Front, Dropped
<1>4. EndOK' <=> EndOK
  BY <1>1, <1>2, <1>3 DEF EndOK
<1>5. \A x : StGiven(x) => StGiven(x)'
  BY <1>1, <1>2, <1>3 DEF StGiven, ToServe
<1>6. StOK => StOK'
  BY <1>1, <1>5 DEF StOK
<1>7. \A u \in Threads : (Working(u)' <=> Working(u)) /\ bi(u)' = bi(u)
  BY <1>1 DEF Working, Reading, bi
<1>8. ASSUME NEW w \in 0 .. MaxThreads, NEW n \in 0 .. MaxThreads, InPlace(w, n)
      PROVE  InPlace(w, n)'
  <2>1. Round(w, n) /\ \E B : Placed(n, B)
    BY <1>8 DEF InPlace
  <2>2. Pending(w, n)' \/ Current(w, n)' \/ AtLast(w, n)'
    BY <1>1, <1>7, <2>1 DEF Round, Pending, Current, AtLast, Reading, Passes, Working
  <2>3. Round(w, n)'
    BY <1>1, <1>7, <2>1, <2>2, RoundStays DEF Round
  <2>4. \E B : Placed(n, B)'
    BY <1>1, <2>1, PlacedSame
  <2> QED BY <2>3, <2>4 DEF InPlace
<1>9. AtEnd => AtEnd'
  BY <1>1, <1>4, <1>7 DEF AtEnd, Ending, NeedContinue
<1>10. RunKept'
  BY <1>1, <1>8, <1>9 DEF RunKept, Continues, NeedContinue, Handed
<1> QED BY <1>1, <1>4, <1>6, <1>10 DEF Handed, StDomain, OutDomain

(* Every step hands the other decoder its input in order.                  *)
LEMMA NextHanded == Inv /\ Handed /\ [Next]_vars => Handed'
<1> SUFFICES ASSUME Inv, Handed, [Next]_vars PROVE Handed'
  OBVIOUS
<1>1. CASE Call
  BY <1>1, CallHanded DEF Inv
<1>2. CASE Destroy
  <2>1. UNCHANGED <<st, out>> /\ mainPc' \in {"destroy", "end"}
    BY <1>2 DEF Destroy
  <2> QED BY <2>1 DEF Handed, StDomain, OutDomain, RunKept
<1> QED BY <1>1, <1>2, CodeReturnsHanded, PrepareHanded, MtDec_ReadHanded, StReadHanded,
           StDecodeHanded, ThreadHanded, NothingHanded DEF Next, Main, Done

(* Whatever the input, the number of threads and the sizes of blocks and   *)
(* buffers, whichever callback, allocation or thread start fails, and      *)
(* however the threads interleave: when MtDec_Code leaves a block to       *)
(* Lzma2Dec_Decode_ST, MtDec_Read serves every byte of the input from      *)
(* where the written blocks ended, once and in order, first from the       *)
(* links of the thread that read ahead, then from the crossBlock, and the  *)
(* stream is read on from there.                                           *)
THEOREM SwitchesInPlace == Spec => []SwitchKeepsInput
<1>1. Init => Inv /\ Handed
  BY InitInv, InitHanded
<1>2. (Inv /\ Handed) /\ [Next]_vars => (Inv /\ Handed)'
  BY NextInv, NextHanded
<1>3. Inv /\ Handed => SwitchKeepsInput
  BY DEF Handed, SwitchKeepsInput
<1> QED BY <1>1, <1>2, <1>3, PTL DEF Spec

-----------------------------------------------------------------------------
(* What the threads and the stream hold is of the input.  A block's bytes  *)
(* come after the offset its first byte names.                             *)
Start(t) == th[t].inBuf[1][1] - 1
TextAt(p) == p \in Nat /\ TextTo(out.bytes, 0, p) /\ InSize(Outputs(p))

(* The parser is within the limit and has met no end.                      *)
Scanned(t, a) ==
  /\ th[t].l.outPreSize <= OutLimit
  /\ \A k \in 1 .. th[t].l.inPreSize : input.bytes[a + k] # "end"

(* The coder has decoded the first c bytes of the block, and goes on there *)
(* with the next link.                                                     *)
Coming(t, a, c) ==
  LET l == th[t].l
  IN  /\ TextTo(l.outBuf, a, a + c) /\ Len(l.outBuf) <= l.outPreSize
      /\ l.codeRes = OK /\ l.state # "MARK" => c = l.inCodeSize
      /\ pc[t] = "code" => /\ c = l.inCodeSize /\ c < l.inPreSize /\ l.link \in Nat \ {0}
                           /\ c = IF l.link = 1 THEN 0 ELSE l.start + Lk(l.link)

(* The whole block fits into the output, and only its last byte may end    *)
(* the input.                                                              *)
Fits(t, a) ==
  LET l == th[t].l
  IN  /\ l.size = l.inPreSize
      /\ \A k \in 1 .. l.inPreSize :
           input.bytes[a + k] = "end" => k = l.inPreSize /\ l.state = "MARK"
      /\ InSize(Outputs(a) + l.outPreSize)
      /\ \E c \in 0 .. l.inPreSize : Coming(t, a, c)

(* A block as the parser found it, from a on: no byte of it is past the    *)
(* output asked for, it ends as its state says, and with its first byte    *)
(* that is not valid.                                                      *)
Before(x) == ~ input.finishMode /\ input.outSize # NoSize => Outputs(x - 1) < input.outSize
Shaped(l, a) ==
  LET n == l.inPreSize
  IN  /\ \A k \in 1 .. n :
           Before(a + k) /\ (input.bytes[a + k] = "err" => k = n /\ l.state = "ERROR")
      /\ l.state = "MARK" => input.bytes[a + n] = "end"
      /\ l.state = "ERROR" => input.bytes[a + n] = "err"
      /\ l.state = "NEW" => a + n < Len(input.bytes) /\ input.bytes[a + n + 1] = "new"
      /\ l.state = "STOP" => input.outSize # NoSize /\ Outputs(a) + l.outPreSize = input.outSize
      /\ l.state # "OVERFLOW" /\ l.outPreSize = Outputs(a + n) - Outputs(a)
Damaged(l, a) == \E k \in 1 .. l.inPreSize : input.bytes[a + k] \in {"bad", "err"}

(* What a call of the coder says of such a block: it fails for the damage  *)
(* alone, and ends with the block.                                         *)
Judges(k, l, a) ==
  /\ ~ k.ok => Damaged(l, a)
  /\ k.ok => k.fits
  /\ k.ok /\ k.stop =>
       Len(k.buf) = l.outPreSize /\ (BlockFinished(l) => k.pos = l.inPreSize)

(* The block was not left to the other decoder before PreCode.             *)
Refused(l) == l.isAllocError \/ l.threadingError \/ l.overflow

BlockText(t, a) ==
  IF InBlock(t) THEN Scanned(t, a)
  ELSE th[t].l.needCode /\ ~ Refused(th[t].l) => Fits(t, a)

Worded(t) == th[t].l.inPreSize > 0 => BlockText(t, Start(t))

(* A coder that is not called has decoded nothing.                         *)
Blank(l) == l.outBuf = << >> /\ l.inCodeSize = 0 /\ l.link = 1
Clean(t) ==
  LET l == th[t].l
  IN  /\ l.prepared => l.inPreSize > 0
      /\ pc[t] = "code" => l.needCode
      /\ Blank(l) \/ (pc[t] \in {"code", "wait_write"} /\ l.needCode /\ l.inPreSize > 0)
Untouched == \A t \in Threads : Clean(t)

(* What is said of the input stays in a call.                              *)
LEMMA TextStays ==
  ASSUME input' = input
  PROVE  /\ \A b, a, c : TextTo(b, a, c)' <=> TextTo(b, a, c)
         /\ \A b, a : Texts(b, a)' <=> Texts(b, a)
         /\ \A k : InSize(k)' <=> InSize(k)
         /\ \A p : Outputs(p)' = Outputs(p)
BY DEF TextTo, Texts, InSize, Outputs, Plain, Nth

(* A thread that does not move keeps what it has decoded.                  *)
LEMMA WordedStays ==
  ASSUME input' = input, NEW u \in Threads, th'[u] = th[u], pc'[u] = pc[u],
         InBlock(u) => rd'.outParsed = rd.outParsed, Worded(u)
  PROVE  Worded(u)'
<1>1. SUFFICES ASSUME th[u].l.inPreSize > 0 PROVE BlockText(u, Start(u))'
  BY DEF Worded
<1>2. PICK a : a = Start(u)
  OBVIOUS
<1>3. BlockText(u, a)
  BY <1>1, <1>2 DEF Worded
<1>4. (InBlock(u)' <=> InBlock(u)) /\ Start(u)' = a
  BY <1>2 DEF InBlock, Start
<1>5. \A c : Coming(u, a, c) => Coming(u, a, c)'
  BY TextStays DEF Coming
<1>6. BlockText(u, a)'
  <2>1. CASE InBlock(u)
    <3>1. OutLimit' = OutLimit
      BY <2>1 DEF OutLimit, OutLimited, OutRemains
    <3> QED BY <1>3, <1>4, <2>1, <3>1 DEF BlockText, Scanned
  <2>2. CASE ~ InBlock(u)
    <3>1. Fits(u, a) => Fits(u, a)'
      BY <1>5, TextStays DEF Fits
    <3> QED BY <1>3, <1>4, <2>2, <3>1 DEF BlockText
  <2> QED BY <2>1, <2>2
<1> QED BY <1>4, <1>6

(* The first byte of a block that is not empty names its place.            *)
LEMMA HoldsStart ==
  ASSUME NEW buf, NEW a \in Nat, NEW start, NEW size, Holds(buf, a, start, size), size > 0
  PROVE  buf[1][1] - 1 = a
<1>1. start \in 1 .. InBufSize
  BY MtDecAssumption DEF Holds
<1>2. 1 \in 1 .. start
  BY <1>1, MtDecAssumption
<1>3. buf[1][1] = a + 1
  BY <1>2 DEF Holds
<1> QED BY <1>3

(* ... so that what is said of the block is said from there.               *)
LEMMA StartIs ==
  ASSUME NEW t \in Threads, NEW a \in Nat, LocalOK(th[t].l), th[t].l.inPreSize > 0,
         IF InBlock(t) THEN Reader(t, a) ELSE \E b : HasBlock(t, a, b)
  PROVE  Start(t) = a
<1> DEFINE l == th[t].l
<1>1. l.size \in Int /\ l.start \in Int /\ l.inPreSize \in Nat /\ l.inPreSize > 0 /\ l.last \in Nat
      /\ l.links \in Nat /\ (pc[t] = "parse" => Links(t) = l.links)
  <2>1. InBufSize \in Nat
    BY MtDecAssumption
  <2> QED BY <2>1 DEF LocalOK, Links
<1>2. Holds(th[t].inBuf, a, l.start, l.size) /\ l.size > 0
  <2>1. CASE ~ InBlock(t)
    <3>1. PICK b : HasBlock(t, a, b)
      BY <2>1
    <3> QED BY <1>1, <3>1 DEF HasBlock, Sized
  <2>2. CASE InBlock(t) /\ pc[t] = "read"
    <3>1. AtRead(t, a)
      BY <2>2 DEF Reader
    <3> QED BY <1>1, <3>1 DEF AtRead
  <2>3. CASE InBlock(t) /\ pc[t] = "parse"
    <3>1. ~ AtCross(t, a)
      BY <1>1 DEF AtCross
    <3>2. AtLink(t, a)
      BY <2>3, <3>1 DEF Reader
    <3> QED BY <1>1, <3>2 DEF AtLink
  <2> QED BY <2>1, <2>2, <2>3 DEF InBlock
<1> QED BY <1>2, HoldsStart DEF Start

(* What a thread keeps of its coder when it reads and parses.              *)
LEMMA CleanKept ==
  ASSUME NEW t \in Threads, Clean(t), NEW m, th'[t].l = m,
         Blank(th[t].l) => Blank(m),
         m.prepared => m.inPreSize > 0,
         pc'[t] = "code" => m.needCode,
         \/ Blank(th[t].l)
         \/ pc'[t] \in {"code", "wait_write"} /\ m.needCode /\ m.inPreSize > 0
  PROVE  Clean(t)'
BY DEF Clean, Blank

(* The locals of a new iteration.                                          *)
LEMMA FreshClean ==
  ASSUME NEW t \in Threads, NEW m, th'[t].l = m, pc'[t] # "code",
         ~ m.prepared, Blank(m)
  PROVE  Clean(t)'
BY DEF Clean, Blank

(* A step of a thread that reads or parses leaves its coder alone.         *)
Unused(m, l) ==
  m.outBuf = l.outBuf /\ m.inCodeSize = l.inCodeSize /\ m.link = l.link /\ m.prepared = l.prepared

(* What ReadData stores.                                                   *)
LEMMA ReadLinkStores ==
  ASSUME Shape, Control, NEW t \in Threads, ReadLink(t)
  PROVE  LET l == th[t].l
             m == th'[t].l
         IN  /\ Unused(m, l) /\ m.inPreSize = l.inPreSize /\ m.outPreSize = l.outPreSize
             /\ m.state = l.state /\ m.needCode = l.needCode
             /\ m.needWrite = l.needWrite /\ m.links = l.links /\ rd'.cross = rd.cross
             /\ (\E k \in Nat : th'[t].inBuf = LinkFilled(t, NextBytes(k)))
             /\ (\E k \in Nat : m.size = l.size + k /\ rd'.pos = rd.pos + k)
             /\ pc'[t] \in {"parse", "parsed"} /\ rd'.outParsed = rd.outParsed
<1> DEFINE l == th[t].l
           size(k)    == l.size + k
           finish(k, ok) == ~ ok \/ k # InBufSize
           checks(k)  == size(k) # l.checked
           was(k)     == checks(k) /\ InterruptedBefore(l.blockIndex)
           res(k, r)  == IF checks(k) THEN r ELSE OK
           mm(k, ok, r) == [l EXCEPT !.size = size(k), !.checked = size(k), !.last = k,
                                     !.start = IF Links(t) = 0 THEN k ELSE @,
                                     !.finish = finish(k, ok), !.res = res(k, r),
                                     !.wasInterrupted = was(k)]
<1>1. PICK k \in 0 .. InBufSize, ok \in BOOLEAN, r \in ProgressResults :
        /\ ReadMax(k, ok)
        /\ checks(k) \/ r = sync.res
        /\ rd' = [rd EXCEPT !.pos = @ + k, !.finished = @ \/ finish(k, ok),
                            !.res = IF ok THEN @ ELSE "READ"]
        /\ sync' = [sync EXCEPT !.res = r]
        /\ th' = [th EXCEPT ![t] = [@ EXCEPT !.inBuf = LinkFilled(t, NextBytes(k)), !.l = mm(k, ok, r)]]
        /\ pc' = [pc EXCEPT ![t] = IF res(k, r) = OK /\ ~ was(k) THEN "parse" ELSE "parsed"]
  BY DEF ReadLink
<1> DEFINE m == mm(k, ok, r)
           b == LinkFilled(t, NextBytes(k))
<1>2. /\ ThreadOK(th[t]) /\ LocalOK(l) /\ t \in DOMAIN th /\ t \in DOMAIN pc /\ RdOK /\ k \in Nat
  BY MtDecAssumption DEF Control, Good, ThreadOK, Shape
<1>3. /\ m.inPreSize = l.inPreSize /\ m.outPreSize = l.outPreSize /\ m.state = l.state
      /\ m.outBuf = l.outBuf /\ m.inCodeSize = l.inCodeSize /\ m.link = l.link
      /\ m.prepared = l.prepared /\ m.needCode = l.needCode
      /\ m.needWrite = l.needWrite /\ m.links = l.links /\ m.size = l.size + k
  <2> HIDE DEF finish, was, res
  <2> QED BY <1>2 DEF LocalOK
<1>4. rd'.outParsed = rd.outParsed /\ rd'.cross = rd.cross /\ rd'.pos = rd.pos + k
  <2> HIDE DEF finish
  <2> QED BY <1>1, <1>2 DEF RdOK
<1>5. pc'[t] \in {"parse", "parsed"}
  BY <1>1, <1>2
<1> HIDE DEF m, mm
<1>6. th' = [th EXCEPT ![t] = [@ EXCEPT !.inBuf = b, !.l = m]]
  BY <1>1 DEF m
<1> HIDE DEF b
<1>7. th'[t].l = m /\ th'[t].inBuf = b
  BY <1>2, <1>6 DEF ThreadOK
<1>8. \E j \in Nat : th'[t].inBuf = LinkFilled(t, NextBytes(j))
  BY <1>2, <1>7 DEF b
<1>9. \E j \in Nat : m.size = l.size + j /\ rd'.pos = rd.pos + j
  BY <1>2, <1>3, <1>4
<1> QED BY <1>3, <1>4, <1>5, <1>7, <1>8, <1>9 DEF Unused

(* What the Parse loop stores, whatever it finds.                          *)
LEMMA ParseKeeps ==
  ASSUME Shape, Control, NEW t \in Threads,
         ParseOverflow(t) \/ ParseContinue(t) \/ ParseEnd(t) \/ ParseNew(t)
  PROVE  LET l == th[t].l
             m == th'[t].l
             p == Parsed(t)
         IN  /\ Unused(m, l) /\ m.inPreSize = l.inPreSize + p.used /\ p.used \in Nat
             /\ m.outPreSize = p.out /\ m.state = p.state
             /\ pc[t] = "parse" /\ pc'[t] \in {"read", "parsed"}
<1> DEFINE l == th[t].l
           p == Parsed(t)
           e == AfterParse(l, p)
<1>1. pc[t] = "parse" /\ Working(t)
  BY DEF ParseOverflow, ParseContinue, ParseEnd, ParseNew, Working, Reading
<1>2. /\ ThreadOK(th[t]) /\ LocalOK(l) /\ Linked(t) /\ t \in DOMAIN th /\ t \in DOMAIN pc
      /\ RdOK /\ InputOK
  BY <1>1 DEF Control, Good, ThreadOK, Shape
<1>3. p.used \in Nat
  <2>1. p.used \in 0 .. Len(Src(t)) /\ Len(Src(t)) \in Nat
    BY <1>1, <1>2, ParsedIs, SrcType DEF Answers
  <2> QED BY <2>1
<1> HIDE DEF p
<1>4. /\ e.outBuf = l.outBuf /\ e.inCodeSize = l.inCodeSize /\ e.link = l.link
      /\ e.prepared = l.prepared /\ e.inPreSize = l.inPreSize + p.used /\ DOMAIN e = DOMAIN l
      /\ e.outPreSize = p.out /\ e.state = p.state
  BY <1>2 DEF AfterParse, LocalOK
<1>d. DOMAIN e = {"blockIndex", "res", "codeRes", "wasInterrupted", "finish", "needCode",
                  "needWrite", "isAllocError", "overflow", "threadingError", "start", "size",
                  "checked", "links", "last", "link", "next", "state", "inPreSize",
                  "outPreSize", "prepared", "inCodeSize", "outBuf", "coderRes"}
  BY <1>2, <1>4 DEF LocalOK
<1> HIDE DEF e
<1>5. ASSUME NEW k, NEW m, NEW next \in {"read", "parsed"}, StoreParsed(t, k, m, next),
             m.outBuf = e.outBuf, m.inCodeSize = e.inCodeSize, m.link = e.link,
             m.prepared = e.prepared, m.inPreSize = e.inPreSize, m.outPreSize = e.outPreSize,
             m.state = e.state
      PROVE  /\ Unused(th'[t].l, l) /\ th'[t].l.inPreSize = l.inPreSize + p.used
             /\ th'[t].l.outPreSize = p.out /\ th'[t].l.state = p.state
             /\ pc'[t] \in {"read", "parsed"}
  <2>1. th'[t].l = m /\ pc'[t] = next
    BY <1>2, <1>5 DEF StoreParsed, ThreadOK
  <2> QED BY <1>4, <1>5, <2>1 DEF Unused
<1>6. CASE ParseOverflow(t)
  <2> DEFINE m == [e EXCEPT !.finish = TRUE, !.overflow = TRUE]
  <2>1. StoreParsed(t, Len(Src(t)), m, "parsed")
    BY <1>6 DEF ParseOverflow, e, p
  <2>2. /\ m.outBuf = e.outBuf /\ m.inCodeSize = e.inCodeSize /\ m.link = e.link
        /\ m.prepared = e.prepared /\ m.inPreSize = e.inPreSize /\ m.outPreSize = e.outPreSize
        /\ m.state = e.state
    BY <1>d
  <2> HIDE DEF m
  <2>3. \A k : StoreParsed(t, k, m, "parsed") => 
             /\ Unused(th'[t].l, l) /\ th'[t].l.inPreSize = l.inPreSize + p.used
             /\ th'[t].l.outPreSize = p.out /\ th'[t].l.state = p.state
             /\ pc'[t] \in {"read", "parsed"}
    BY <1>5, <2>2
  <2> QED BY <1>1, <1>3, <2>1, <2>3 DEF p
<1>7. CASE ParseContinue(t)
  <2> DEFINE m == [e EXCEPT !.links = @ + 1]
  <2>1. StoreParsed(t, p.used, m, "read")
    BY <1>7 DEF ParseContinue, e, p
  <2>2. /\ m.outBuf = e.outBuf /\ m.inCodeSize = e.inCodeSize /\ m.link = e.link
        /\ m.prepared = e.prepared /\ m.inPreSize = e.inPreSize /\ m.outPreSize = e.outPreSize
        /\ m.state = e.state
    BY <1>d
  <2> HIDE DEF m
  <2>3. \A k : StoreParsed(t, k, m, "read") => 
             /\ Unused(th'[t].l, l) /\ th'[t].l.inPreSize = l.inPreSize + p.used
             /\ th'[t].l.outPreSize = p.out /\ th'[t].l.state = p.state
             /\ pc'[t] \in {"read", "parsed"}
    BY <1>5, <2>2
  <2> QED BY <1>1, <1>3, <2>1, <2>3 DEF p
<1>8. ASSUME NEW k, NEW r, NEW f, NEW m, StoreParsed(t, k, m, "parsed"),
             \/ m = [CutSizes(t, e, p.used, r) EXCEPT !.needCode = TRUE, !.finish = f]
             \/ m = [e EXCEPT !.needCode = TRUE, !.finish = TRUE, !.isAllocError = TRUE]
      PROVE  /\ Unused(th'[t].l, l) /\ th'[t].l.inPreSize = l.inPreSize + p.used
             /\ th'[t].l.outPreSize = p.out /\ th'[t].l.state = p.state
             /\ pc'[t] \in {"read", "parsed"}
  <2> DEFINE c == CutSizes(t, e, p.used, r)
  <2>2. /\ c.outBuf = e.outBuf /\ c.inCodeSize = e.inCodeSize /\ c.link = e.link
        /\ c.prepared = e.prepared /\ c.inPreSize = e.inPreSize /\ c.outPreSize = e.outPreSize
        /\ c.state = e.state /\ DOMAIN c = DOMAIN e
    BY <1>d DEF CutSizes
  <2> HIDE DEF c
  <2>3. /\ m.outBuf = e.outBuf /\ m.inCodeSize = e.inCodeSize /\ m.link = e.link
        /\ m.prepared = e.prepared /\ m.inPreSize = e.inPreSize /\ m.outPreSize = e.outPreSize
        /\ m.state = e.state
    <3>1. CASE m = [c EXCEPT !.needCode = TRUE, !.finish = f]
      BY <1>d, <2>2, <3>1
    <3>2. CASE m = [e EXCEPT !.needCode = TRUE, !.finish = TRUE, !.isAllocError = TRUE]
      BY <1>d, <3>2
    <3> QED BY <1>8, <3>1, <3>2 DEF c
  <2>4. "parsed" \in {"read", "parsed"}
    OBVIOUS
  <2> QED BY <1>5, <1>8, <2>3, <2>4
<1>9. PICK z : z = Len(RestOf(Src(t), p.used))
  OBVIOUS
<1> DEFINE n(f) == [CutSizes(t, e, p.used, z) EXCEPT !.needCode = TRUE, !.finish = f]
           o == [e EXCEPT !.needCode = TRUE, !.finish = TRUE, !.isAllocError = TRUE]
<1>10. CASE ParseEnd(t)
  <2>1. PICK m : m = n(TRUE)
    OBVIOUS
  <2>2. StoreParsed(t, p.used, m, "parsed")
    BY <1>9, <1>10, <2>1 DEF ParseEnd, e, p
  <2> QED BY <1>1, <1>3, <1>8, <2>1, <2>2 DEF p
<1>11. CASE ParseNew(t)
  <2>1. PICK m, h : m = n(FALSE) /\ h = o
    OBVIOUS
  <2>2. StoreParsed(t, p.used, m, "parsed") \/ StoreParsed(t, 0, h, "parsed")
    BY <1>9, <1>11, <2>1 DEF ParseNew, e, p
  <2> QED BY <1>1, <1>3, <1>8, <2>1, <2>2 DEF p
<1> QED BY <1>6, <1>7, <1>10, <1>11

(* Reading and parsing touch no coder.                                     *)
LEMMA ReadClean ==
  ASSUME Shape, Control, NEW t \in Threads, Clean(t),
         \/ ReadNoLink(t) \/ ReadCross(t) \/ ReadLink(t) \/ ParseOverflow(t) \/ ParseContinue(t)
         \/ ParseEnd(t) \/ ParseNew(t)
  PROVE  Clean(t)'
<1> DEFINE l == th[t].l
<1>1. pc[t] \in {"read", "parse"} /\ Working(t)
  BY DEF ReadNoLink, ReadCross, ReadLink, ParseOverflow, ParseContinue, ParseEnd, ParseNew,
         Working, Reading
<1>2. /\ ThreadOK(th[t]) /\ LocalOK(l) /\ t \in DOMAIN th /\ t \in DOMAIN pc
      /\ l.inPreSize \in Nat
  BY <1>1 DEF Control, Good, ThreadOK, Shape, LocalOK
<1>3. Blank(l) /\ (l.prepared => l.inPreSize > 0)
  BY <1>1 DEF Clean
<1>4. ASSUME NEW m, th'[t].l = m, Unused(m, l), pc'[t] # "code",
             \E k \in Nat : m.inPreSize = l.inPreSize + k
      PROVE  Clean(t)'
  <2>1. Blank(m)
    BY <1>3, <1>4 DEF Blank, Unused
  <2>2. m.prepared => m.inPreSize > 0
    BY <1>2, <1>3, <1>4 DEF Unused
  <2> QED BY <1>3, <1>4, <2>1, <2>2, CleanKept
<1>0. 0 \in Nat /\ l.inPreSize = l.inPreSize + 0
  BY <1>2
<1>5. CASE ReadNoLink(t)
  <2> DEFINE m == [l EXCEPT !.finish = TRUE, !.isAllocError = TRUE]
  <2>1. th' = [th EXCEPT ![t].l = m] /\ pc' = [pc EXCEPT ![t] = "parsed"]
    BY <1>5 DEF ReadNoLink, SetLocals
  <2>2. Unused(m, l) /\ m.inPreSize = l.inPreSize
    BY <1>2 DEF LocalOK, Unused
  <2> HIDE DEF m
  <2>3. th'[t].l = m /\ pc'[t] = "parsed"
    BY <1>2, <2>1 DEF ThreadOK
  <2> QED BY <1>0, <1>4, <2>2, <2>3
<1>6. CASE ReadCross(t)
  <2>1. PICK k, b : th' = [th EXCEPT ![t] = [@ EXCEPT !.l.size = k, !.l.start = k, !.inBuf = b]]
    BY <1>6 DEF ReadCross
  <2> DEFINE m == [l EXCEPT !.size = k, !.start = k]
  <2>2. th'[t].l = m /\ pc'[t] = "parse"
    BY <1>2, <1>6, <2>1 DEF ReadCross, ThreadOK
  <2>3. Unused(m, l) /\ m.inPreSize = l.inPreSize
    BY <1>2 DEF LocalOK, Unused
  <2> HIDE DEF m
  <2> QED BY <1>0, <1>4, <2>2, <2>3
<1>7. CASE ReadLink(t)
  <2>1. /\ Unused(th'[t].l, l) /\ th'[t].l.inPreSize = l.inPreSize
        /\ pc'[t] \in {"parse", "parsed"}
    BY <1>7, ReadLinkStores
  <2> QED BY <1>0, <1>4, <2>1
<1>8. CASE ParseOverflow(t) \/ ParseContinue(t) \/ ParseEnd(t) \/ ParseNew(t)
  <2>1. /\ Unused(th'[t].l, l) /\ \E k \in Nat : th'[t].l.inPreSize = l.inPreSize + k
        /\ pc'[t] \in {"read", "parsed"}
    BY <1>8, ParseKeeps
  <2> QED BY <1>4, <2>1
<1> QED BY <1>5, <1>6, <1>7, <1>8

(* PreCode makes a coder ready for a block that is not empty.              *)
LEMMA PreCodeClean ==
  ASSUME Shape, Control, NEW t \in Threads, Clean(t), PreCode(t)
  PROVE  Clean(t)'
<1> DEFINE l == th[t].l
           looks == pc[t] = "parsed" /\ l.res = OK
           res == IF looks THEN sync.res ELSE l.res
           was == IF looks THEN InterruptedBefore(l.blockIndex) ELSE l.wasInterrupted
           called == res = OK /\ l.needCode /\ ~ was
           mm(code) == [l EXCEPT !.res = res, !.wasInterrupted = was, !.codeRes = code,
                                 !.prepared = called /\ code = OK,
                                 !.coderRes = IF code = "DATA" THEN code ELSE @,
                                 !.needCode = @ /\ code = OK,
                                 !.finish = @ \/ code # OK \/ res # OK \/ was]
<1>1. pc[t] \in {"parsed", "pass"} /\ pc' = [pc EXCEPT ![t] = "start_next"] /\ Working(t)
  BY DEF PreCode, Working, Reading
<1>2. PICK code \in {OK, "DATA", "MEM"} :
        /\ code = "DATA" <=> called /\ l.inPreSize = 0
        /\ code = "MEM" => called /\ Fails("mem")
        /\ SetLocals(t, mm(code))
  BY Zenon DEF PreCode
<1>3. /\ ThreadOK(th[t]) /\ LocalOK(l) /\ t \in DOMAIN th /\ t \in DOMAIN pc
      /\ l.inPreSize \in Nat
  BY <1>1 DEF Control, Good, ThreadOK, Shape, LocalOK
<1>4. called /\ code = OK => l.inPreSize > 0
  <2>1. called /\ code = OK => l.inPreSize # 0
    BY <1>2 DEF OK
  <2> HIDE DEF called
  <2> QED BY <1>3, <2>1
<1> HIDE DEF called, was, res
<1> DEFINE m == mm(code)
<1>5. /\ m.outBuf = l.outBuf /\ m.inCodeSize = l.inCodeSize /\ m.link = l.link
      /\ m.prepared = (called /\ code = OK) /\ m.inPreSize = l.inPreSize
  BY <1>3 DEF LocalOK
<1>6. th' = [th EXCEPT ![t].l = m]
  BY <1>2 DEF SetLocals
<1> HIDE DEF m, mm
<1>7. th'[t].l = m /\ pc'[t] = "start_next"
  BY <1>1, <1>3, <1>6 DEF ThreadOK
<1>8. Blank(l)
  BY <1>1 DEF Clean
<1>9. Blank(m)
  BY <1>5, <1>8 DEF Blank
<1> QED BY <1>4, <1>5, <1>7, <1>8, <1>9, CleanKept

(* What StartNext and StartNone store.                                     *)
LEMMA StartStores ==
  ASSUME Shape, Control, NEW t \in Threads, StartNext(t) \/ StartNone(t)
  PROVE  LET l == th[t].l
             m == th'[t].l
         IN  /\ Unused(m, l) /\ m.inPreSize = l.inPreSize /\ th'[t].inBuf = th[t].inBuf
             /\ rd'.outParsed = rd.outParsed /\ pc[t] = "start_next"
             /\ m.size = l.size /\ m.needWrite = l.needWrite /\ (l.finish => m.finish)
             /\ m.codeRes = l.codeRes /\ m.coderRes = l.coderRes
             /\ m.wasInterrupted = l.wasInterrupted
             /\ \/ /\ pc'[t] = AfterStart(l) /\ m.needCode = l.needCode /\ m.size = l.size
                   /\ m.start = l.start /\ m.outPreSize = l.outPreSize /\ m.state = l.state
                   /\ m.codeRes = l.codeRes /\ (Refused(m) <=> Refused(l))
                \/ pc'[t] = "wait_write" /\ m.needCode = FALSE /\ Refused(m)
<1> DEFINE l == th[t].l
           lets(k) == SetLocals(t, [l EXCEPT !.next = NextThread(t, k)])
<1>1. /\ pc[t] = "start_next" /\ ThreadOK(th[t]) /\ LocalOK(l) /\ t \in DOMAIN th
      /\ t \in DOMAIN pc /\ RdOK /\ pc \in [Threads -> Labels]
  <2>1. pc[t] = "start_next" /\ Working(t)
    BY DEF StartNext, StartNone, Working, Reading
  <2> QED BY <2>1 DEF Control, Good, ThreadOK, Shape
<1>2. rd'.outParsed = rd.outParsed
  <2>1. \/ rd' = rd \/ rd' = [rd EXCEPT !.started = @ + 1] \/ rd' = [rd EXCEPT !.limit = rd.started]
    BY DEF StartNext, StartNone
  <2> QED BY <1>1, <2>1 DEF RdOK
<1>3. CASE StartNone(t)
  <2>1. th' = th /\ pc'[t] = AfterStart(l)
    BY <1>1, <1>3 DEF StartNone
  <2> QED BY <1>1, <1>2, <2>1 DEF Unused
<1>4. ASSUME NEW k, lets(k), pc'[t] = AfterStart(l)
      PROVE  LET m == th'[t].l
             IN  /\ Unused(m, l) /\ m.inPreSize = l.inPreSize /\ th'[t].inBuf = th[t].inBuf
                 /\ m.needWrite = l.needWrite /\ (l.finish => m.finish)
                 /\ m.coderRes = l.coderRes /\ m.wasInterrupted = l.wasInterrupted
                 /\ pc'[t] = AfterStart(l) /\ m.needCode = l.needCode /\ m.size = l.size
                 /\ m.start = l.start /\ m.outPreSize = l.outPreSize /\ m.state = l.state
                 /\ m.codeRes = l.codeRes /\ (Refused(m) <=> Refused(l))
  <2> DEFINE m == [l EXCEPT !.next = NextThread(t, k)]
  <2>1. /\ Unused(m, l) /\ m.inPreSize = l.inPreSize /\ m.needCode = l.needCode
        /\ m.size = l.size /\ m.start = l.start /\ m.outPreSize = l.outPreSize
        /\ m.state = l.state /\ m.codeRes = l.codeRes /\ m.isAllocError = l.isAllocError
        /\ m.threadingError = l.threadingError /\ m.overflow = l.overflow
        /\ m.needWrite = l.needWrite /\ m.finish = l.finish
        /\ m.coderRes = l.coderRes /\ m.wasInterrupted = l.wasInterrupted
    BY <1>1 DEF LocalOK, Unused
  <2>2. th' = [th EXCEPT ![t].l = m]
    BY <1>4 DEF SetLocals
  <2> HIDE DEF m
  <2>3. th'[t].l = m /\ th'[t].inBuf = th[t].inBuf
    BY <1>1, <2>2 DEF ThreadOK
  <2>4. Refused(m) <=> Refused(l)
    BY <2>1 DEF Refused
  <2> QED BY <1>4, <2>1, <2>3, <2>4
<1>5. CASE SetLocals(t, [l EXCEPT !.finish = TRUE, !.needCode = FALSE, !.threadingError = TRUE])
           /\ pc' = [pc EXCEPT ![t] = "wait_write"]
  <2> DEFINE m == [l EXCEPT !.finish = TRUE, !.needCode = FALSE, !.threadingError = TRUE]
  <2>1. /\ Unused(m, l) /\ m.inPreSize = l.inPreSize /\ m.needCode = FALSE
        /\ m.size = l.size /\ m.needWrite = l.needWrite /\ m.finish = TRUE
        /\ m.codeRes = l.codeRes /\ m.coderRes = l.coderRes
        /\ m.wasInterrupted = l.wasInterrupted /\ Refused(m)
    BY <1>1 DEF LocalOK, Unused, Refused
  <2>2. th' = [th EXCEPT ![t].l = m]
    BY <1>5 DEF SetLocals
  <2> HIDE DEF m
  <2>3. th'[t].l = m /\ th'[t].inBuf = th[t].inBuf
    BY <1>1, <2>2 DEF ThreadOK
  <2> QED BY <1>1, <1>2, <1>5, <2>1, <2>3
<1>6. CASE \E k : lets(k) /\ pc' = [pc EXCEPT ![t] = AfterStart(l)]
  <2>1. pc'[t] = AfterStart(l)
    BY <1>1, <1>6
  <2> HIDE DEF lets
  <2> QED BY <1>1, <1>2, <1>4, <1>6, <2>1
<1>7. CASE /\ lets(rd.started + 1)
           /\ pc' = [pc EXCEPT ![t] = AfterStart(l),
                               ![rd.started] = IF @ = "none" THEN "wait_read" ELSE @]
  <2>1. AfterStart(l) # "none"
    BY DEF AfterStart
  <2>2. pc'[t] = AfterStart(l)
    BY <1>1, <1>7, <2>1
  <2> HIDE DEF lets
  <2> QED BY <1>1, <1>2, <1>4, <1>7, <2>2
<1> QED BY <1>3, <1>5, <1>6, <1>7 DEF StartNext

(* The coder is called when there is something to decode.                  *)
LEMMA StartClean ==
  ASSUME Shape, Control, NEW t \in Threads, Clean(t), StartNext(t) \/ StartNone(t)
  PROVE  Clean(t)'
<1>1. PICK l, m : l = th[t].l /\ m = th'[t].l
  OBVIOUS
<1>2. /\ Unused(m, l) /\ m.inPreSize = l.inPreSize /\ pc[t] = "start_next"
      /\ \/ pc'[t] = AfterStart(l) /\ m.needCode = l.needCode
         \/ pc'[t] = "wait_write"
  BY <1>1, StartStores
<1>3. Blank(l) /\ (l.prepared => l.inPreSize > 0)
  BY <1>1, <1>2 DEF Clean
<1>4. Blank(m) /\ (m.prepared => m.inPreSize > 0)
  BY <1>2, <1>3 DEF Blank, Unused
<1>5. pc'[t] = "code" => m.needCode
  BY <1>2 DEF AfterStart
<1> QED BY <1>1, <1>3, <1>4, <1>5, CleanKept

(* Decoding is of a block that is not empty.                               *)
LEMMA CodeClean ==
  ASSUME Shape, Control, NEW t \in Threads, Clean(t),
         CodeFails(t) \/ CodeLink(t) \/ CodeUnprepared(t)
  PROVE  Clean(t)'
<1> DEFINE l == th[t].l
           e == AfterCode(l, Coded(t))
<1>1. pc[t] = "code" /\ Working(t) /\ l.needCode /\ (l.prepared => l.inPreSize > 0)
  BY DEF CodeFails, CodeLink, CodeUnprepared, Working, Clean
<1>2. ThreadOK(th[t]) /\ LocalOK(l) /\ t \in DOMAIN th /\ t \in DOMAIN pc
  BY <1>1 DEF Control, Good, ThreadOK, Shape
<1>3. \A m : th' = [th EXCEPT ![t].l = m] => th'[t].l = m
  BY <1>2 DEF ThreadOK
<1>4. /\ e.needCode = l.needCode /\ e.inPreSize = l.inPreSize /\ e.prepared = l.prepared
      /\ DOMAIN e = DOMAIN l
  BY <1>2 DEF AfterCode, LocalOK
<1> HIDE DEF e
<1>5. CASE CodeFails(t) \/ CodeLink(t)
  <2>1. l.prepared
    BY <1>5 DEF CodeFails, CodeLink
  <2>2. pc'[t] \in {"code", "wait_write"}
    BY <1>2, <1>5 DEF CodeFails, CodeLink
  <2>3. ASSUME NEW m, th' = [th EXCEPT ![t].l = m], m.needCode = e.needCode,
               m.inPreSize = e.inPreSize
        PROVE  Clean(t)'
    <3>1. th'[t].l = m
      BY <1>3, <2>3
    <3>2. m.needCode /\ m.inPreSize > 0
      BY <1>1, <1>4, <2>1, <2>3
    <3> QED BY <2>2, <3>1, <3>2 DEF Clean
  <2>4. CASE CodeFails(t)
    <3>1. PICK x, y : th' = [th EXCEPT ![t].l = [e EXCEPT !.codeRes = x, !.coderRes = y]]
      BY <2>4 DEF CodeFails, SetLocals, e
    <3> DEFINE m == [e EXCEPT !.codeRes = x, !.coderRes = y]
    <3>2. m.needCode = e.needCode /\ m.inPreSize = e.inPreSize
      BY <1>2, <1>4 DEF LocalOK
    <3>3. th' = [th EXCEPT ![t].l = m]
      BY <3>1
    <3> HIDE DEF m
    <3> QED BY <2>3, <3>2, <3>3
  <2>5. CASE CodeLink(t) /\ th' = [th EXCEPT ![t].l = e]
    BY <2>3, <2>5
  <2>6. CASE CodeLink(t) /\ th' # [th EXCEPT ![t].l = e]
    <3>1. PICK x, y : th' = [th EXCEPT ![t].l = [e EXCEPT !.res = x, !.wasInterrupted = y]]
      BY <2>6 DEF CodeLink, SetLocals, e
    <3> DEFINE m == [e EXCEPT !.res = x, !.wasInterrupted = y]
    <3>2. m.needCode = e.needCode /\ m.inPreSize = e.inPreSize
      BY <1>2, <1>4 DEF LocalOK
    <3>3. th' = [th EXCEPT ![t].l = m]
      BY <3>1
    <3> HIDE DEF m
    <3> QED BY <2>3, <3>2, <3>3
  <2> QED BY <1>5, <2>4, <2>5, <2>6
<1>6. CASE CodeUnprepared(t)
  <2> DEFINE n == [l EXCEPT !.codeRes = "DATA", !.coderRes = "DATA"]
  <2>1. pc'[t] = "wait_write"
    BY <1>2, <1>6 DEF CodeUnprepared
  <2>2. th'[t].l = n \/ th'[t].l = l
    BY <1>3, <1>6 DEF CodeUnprepared, SetLocals
  <2>3. Unused(n, l) /\ n.needCode = l.needCode /\ n.inPreSize = l.inPreSize
    BY <1>2 DEF LocalOK, Unused
  <2> HIDE DEF n
  <2>4. PICK m : th'[t].l = m /\ Unused(m, l) /\ m.needCode = l.needCode
                 /\ m.inPreSize = l.inPreSize
    BY <2>2, <2>3 DEF Unused
  <2>5. (Blank(l) => Blank(m)) /\ (m.prepared => m.inPreSize > 0)
    BY <1>1, <2>4 DEF Blank, Unused
  <2>6. Blank(l) \/ (m.needCode /\ m.inPreSize > 0)
    BY <1>1, <2>4 DEF Clean
  <2> QED BY <1>1, <2>1, <2>4, <2>5, <2>6, CleanKept
<1> QED BY <1>5, <1>6

(* No step of a thread makes a coder's output appear from nowhere.         *)
LEMMA ThreadUntouched ==
  ASSUME Shape, Control, Untouched, NEW t \in Threads, Thread(t)
  PROVE  Untouched'
<1>1. Others(t)
  BY ThreadOthers
<1>2. ASSUME NEW u \in Threads, u # t PROVE Clean(u)'
  <2>1. th'[u] = th[u] /\ (pc'[u] = pc[u] \/ (pc[u] = "none" /\ pc'[u] = "wait_read"))
    BY <1>1, <1>2 DEF Others
  <2>2. Clean(u)
    BY DEF Untouched
  <2> QED BY <2>1, <2>2 DEF Clean
<1>s. SUFFICES Clean(t)'
  BY <1>2 DEF Untouched
<1>3. Clean(t) /\ t \in DOMAIN th /\ t \in DOMAIN pc /\ ThreadOK(th[t])
  BY DEF Untouched, Shape, Control, Good
<1>f. Blank(Fresh) /\ ~ Fresh.prepared
  BY DEF Blank, Fresh
<1>4. CASE WaitRead(t)
  <2>1. CASE th' = th /\ pc' = [pc EXCEPT ![t] = "none"]
    BY <1>3, <1>4, <2>1 DEF Clean, WaitRead
  <2>2. CASE ~ (th' = th /\ pc' = [pc EXCEPT ![t] = "none"])
    <3>1. PICK x1, x2, x3, x4 :
            /\ th' = [th EXCEPT ![t].l = [Fresh EXCEPT !.blockIndex = x1, !.res = x2,
                                           !.wasInterrupted = x3, !.finish = x4]]
            /\ \E x : pc' = [pc EXCEPT ![t] = x] /\ x \in {"read", "pass"}
      <4>1. PICK r : LET was == InterruptedBefore(rd.blockIndex)
                 IN  /\ SetLocals(t, [Fresh EXCEPT !.blockIndex = rd.blockIndex, !.res = r,
                                                   !.wasInterrupted = was, !.finish = rd.finished])
                     /\ pc' = [pc EXCEPT ![t] = IF r = OK /\ ~ was THEN "read" ELSE "pass"]
        BY <1>4, <2>2 DEF WaitRead
      <4> QED BY <4>1 DEF SetLocals
    <3> DEFINE m == [Fresh EXCEPT !.blockIndex = x1, !.res = x2,
                                  !.wasInterrupted = x3, !.finish = x4]
    <3>2. Blank(m) /\ ~ m.prepared
      BY DEF Blank, Fresh
    <3> HIDE DEF m
    <3>3. th' = [th EXCEPT ![t].l = m] /\ pc'[t] # "code"
      BY <1>3, <3>1 DEF m
    <3>4. th'[t].l = m
      BY <1>3, <3>3 DEF ThreadOK
    <3> QED BY <3>2, <3>3, <3>4, FreshClean
  <2> QED BY <2>1, <2>2
<1>5. CASE \/ ReadNoLink(t) \/ ReadCross(t) \/ ReadLink(t) \/ ParseOverflow(t) \/ ParseContinue(t)
           \/ ParseEnd(t) \/ ParseNew(t)
  BY <1>3, <1>5, ReadClean
<1>6. CASE PreCode(t)
  BY <1>3, <1>6, PreCodeClean
<1>7. CASE StartNext(t) \/ StartNone(t)
  BY <1>3, <1>7, StartClean
<1>8. CASE CodeFails(t) \/ CodeLink(t) \/ CodeUnprepared(t)
  BY <1>3, <1>8, CodeClean
<1>9. CASE Write(t)
  <2>1. \/ th' = [th EXCEPT ![t] = [@ EXCEPT !.l = Fresh, !.start = th[t].l.start,
                                              !.size = th[t].l.size]]
        \/ th' = [th EXCEPT ![t].l = Fresh]
    BY <1>9 DEF Write
  <2>2. th'[t].l = Fresh
    BY <1>3, <2>1 DEF ThreadOK
  <2>3. PICK cont : HandOn(t, cont)
    BY <1>9 DEF Write
  <2>4. pc'[t] # "code"
    BY <1>3, <2>3 DEF HandOn
  <2> QED BY <1>f, <2>2, <2>4, FreshClean
<1> QED BY <1>4, <1>5, <1>6, <1>7, <1>8, <1>9 DEF Thread

(* Without memory for a link nothing is said of the block.                 *)
LEMMA ReadNoLinkWorded ==
  ASSUME Shape, Control, NEW t \in Threads, ReadNoLink(t)
  PROVE  Worded(t)' /\ rd' = rd
<1> DEFINE l == th[t].l
           m == [l EXCEPT !.finish = TRUE, !.isAllocError = TRUE]
<1>1. /\ ThreadOK(th[t]) /\ LocalOK(l) /\ t \in DOMAIN th /\ t \in DOMAIN pc
  BY DEF Control, Good, ThreadOK, Shape
<1>2. m.isAllocError = TRUE
  BY <1>1 DEF LocalOK
<1>3. th' = [th EXCEPT ![t].l = m] /\ pc' = [pc EXCEPT ![t] = "parsed"] /\ rd' = rd
  BY DEF ReadNoLink, SetLocals
<1> HIDE DEF m
<1>4. th'[t].l = m /\ pc'[t] = "parsed"
  BY <1>1, <1>3 DEF ThreadOK
<1>5. Refused(th[t].l)'
  BY <1>2, <1>4 DEF Refused
<1>6. ~ InBlock(t)'
  BY <1>4 DEF InBlock
<1> QED BY <1>3, <1>5, <1>6 DEF Worded, BlockText

(* What the block before left over is the first a block has.               *)
LEMMA ReadCrossWorded ==
  ASSUME NEW t \in Threads, NEW a, Looking(t, a), ReadCross(t)
  PROVE  Worded(t)' /\ rd' = rd
<1> DEFINE l == th[t].l
           size == Len(rd.cross)
           x == [th[t] EXCEPT !.l.size = size, !.l.start = size, !.inBuf = LinkFilled(t, << >>)]
<1>1. pc[t] = "read" /\ FromCross(t) /\ rd' = rd /\ th' = [th EXCEPT ![t] = x]
  BY DEF ReadCross
<1>2. l.inPreSize = 0
  BY <1>1 DEF Looking, Reader, AtRead, FromCross, Links
<1>3. x.l.inPreSize = l.inPreSize
  BY DEF Looking, ThreadOK, LocalOK
<1> HIDE DEF x
<1>4. th'[t] = x
  BY <1>1 DEF Looking
<1> QED BY <1>1, <1>2, <1>3, <1>4 DEF Worded

(* Another link of the block: what is said is of the links parsed before.  *)
LEMMA ReadLinkWorded ==
  ASSUME Shape, Control, NEW t \in Threads, NEW a, Looking(t, a), Worded(t), ReadLink(t)
  PROVE  Worded(t)' /\ rd'.outParsed = rd.outParsed
<1>1. PICK l, m : l = th[t].l /\ m = th'[t].l
  OBVIOUS
<1>2. /\ m.inPreSize = l.inPreSize /\ m.outPreSize = l.outPreSize /\ m.needCode = l.needCode
      /\ (\E k \in Nat : th'[t].inBuf = LinkFilled(t, NextBytes(k)))
      /\ pc'[t] \in {"parse", "parsed"} /\ rd'.outParsed = rd.outParsed
  BY <1>1, ReadLinkStores
<1>3. pc[t] = "read" /\ input' = input
  BY DEF ReadLink, caller
<1>4. ~ l.needCode
  BY <1>1 DEF Looking, Reader, Unparsed
<1>5. SUFFICES ASSUME l.inPreSize > 0 PROVE BlockText(t, Start(t))'
  BY <1>1, <1>2 DEF Worded
<1>6. CASE pc'[t] = "parsed"
  <2>1. ~ InBlock(t)'
    BY <1>6 DEF InBlock
  <2> QED BY <1>1, <1>2, <1>4, <2>1 DEF BlockText
<1>7. CASE pc'[t] = "parse"
  <2>1. Scanned(t, Start(t))
    BY <1>1, <1>3, <1>5 DEF Worded, BlockText, InBlock
  <2>2. l.links # 0 /\ l.links \in Nat /\ Holds(th[t].inBuf, a, l.start, l.size) /\ l.start > 0
    <3>1. AtRead(t, a)
      BY <1>3 DEF Looking, Reader
    <3>2. l.links # 0
      BY <1>1, <1>5, <3>1 DEF AtRead
    <3> QED BY <1>1, <3>1, <3>2 DEF AtRead, Looking, LocalOK
  <2>3. th'[t].inBuf[1] = th[t].inBuf[1]
    <3>1. PICK k \in Nat : th'[t].inBuf = LinkFilled(t, NextBytes(k))
      BY <1>2
    <3>2. th[t].inBuf \in Seq(Link) /\ Len(th[t].inBuf) > 0
      BY <2>2 DEF Looking, ThreadOK, Holds
    <3>3. Links(t) = l.links
      BY <1>1 DEF Links
    <3>4. PICK e, f : LinkFilled(t, NextBytes(k)) =
                        IF NeedsLink(t) THEN Append(th[t].inBuf, e)
                        ELSE [th[t].inBuf EXCEPT ![l.links + 1] = f]
      BY <3>3 DEF LinkFilled
    <3>5. l.links + 1 # 1
      BY <2>2
    <3> QED BY <3>1, <3>2, <3>4, <3>5
  <2>4. Start(t)' = Start(t)
    BY <2>3 DEF Start
  <2>5. OutLimit' = OutLimit
    BY <1>2, <1>3 DEF OutLimit, OutLimited, OutRemains
  <2>6. InBlock(t)'
    BY <1>7 DEF InBlock
  <2> QED BY <1>1, <1>2, <1>3, <2>1, <2>4, <2>5, <2>6 DEF BlockText, Scanned
<1> QED BY <1>2, <1>6, <1>7

-----------------------------------------------------------------------------
(* The parser keeps the block within the output asked for, and the input   *)
(* ends in the block only with its last byte.                              *)
LEMMA ParseScans ==
  ASSUME NEW t \in Threads, NEW a, Looking(t, a), pc[t] = "parse", Given(t, a),
         InSize(rd.outParsed), Worded(t), NEW p, p = Parsed(t), p.used \in Nat, p.out \in Nat,
         p.used <= Len(Src(t)),
         NEW x, x = th[t].l.inPreSize
  PROVE  /\ p.out <= OutLimit /\ InSize(rd.outParsed + p.out)
         /\ \A k \in 1 .. x + p.used :
              input.bytes[a + k] = "end" => k = x + p.used /\ p.state = "MARK"
         /\ \E c \in BOOLEAN : /\ c <=> ~ OutLimited \/ input.finishMode
                              /\ Within(p, input.bytes, Src(t), th[t].l.outPreSize, OutLimit, c)
<1> DEFINE l == th[t].l
           src == Src(t)
           check == ~ OutLimited \/ input.finishMode
<1>1. PICK d, lim, o, s : d = l.outPreSize /\ lim = OutLimit /\ o = rd.outParsed
                          /\ s = input.outSize
  OBVIOUS
<1>2. /\ d \in Nat /\ x \in Nat /\ a \in Nat /\ o \in Nat /\ s \in Nat \cup {NoSize}
      /\ OutBlockMax \in Nat /\ input.finishMode \in BOOLEAN /\ (s # NoSize => o <= s)
      /\ Len(src) \in Nat /\ RunFrom(src, a + x)
  BY <1>1, Lzma2BlocksAssumption DEF Looking, LocalOK, RdOK, InputOK, InSize, Given
<1>3. /\ OutLimited <=> s # NoSize /\ OutBlockMax >= s - o
      /\ lim = IF OutLimited THEN s - o ELSE OutBlockMax
  BY <1>1 DEF OutLimited, OutLimit, OutRemains
<1>4. lim \in Nat /\ (s # NoSize => o + lim <= s)
  <2>1. CASE OutLimited
    BY <1>2, <1>3, <2>1 DEF NoSize
  <2>2. CASE ~ OutLimited
    BY <1>2, <1>3, <2>2 DEF NoSize
  <2> QED BY <2>1, <2>2
<1>5. x > 0 => Scanned(t, a)
  <2>1. ASSUME x > 0 PROVE Scanned(t, a)
    <3>1. InBlock(t) /\ Reader(t, a) /\ LocalOK(l)
      BY DEF InBlock, Looking
    <3>2. Start(t) = a
      BY <1>2, <2>1, <3>1, StartIs
    <3> QED BY <2>1, <3>1, <3>2 DEF Worded, BlockText
  <2> QED BY <2>1
<1>6. d <= lim
  <2>1. CASE x > 0
    BY <1>1, <1>5, <2>1 DEF Scanned
  <2>2. CASE x = 0
    <3>1. d = Outputs(a + x) - Outputs(a) /\ a + x = a
      BY <1>1, <1>2, <2>2 DEF Given
    <3>2. Outputs(a) \in Nat
      BY <1>2, OutputsGrow
    <3>3. d = 0
      BY <3>1, <3>2
    <3> QED BY <1>4, <3>3
  <2> QED BY <1>2, <2>1, <2>2
<1>7. PICK c \in BOOLEAN : c = check
  <2>1. OutLimited \in BOOLEAN
    BY DEF OutLimited
  <2> QED BY <1>2, <2>1
<1>8. /\ p.out <= lim
      /\ \A k \in 1 .. p.used : input.bytes[src[k]] = "end" => k = p.used /\ p.state = "MARK"
      /\ Within(p, input.bytes, src, l.outPreSize, OutLimit, c)
  <2>1. PICK by, sr : by = input.bytes /\ sr = src
    OBVIOUS
  <2>2. p = Parse(by, sr, d, lim, c)
    BY <1>1, <1>7, <2>1 DEF Parsed
  <2>3. lim \in Int /\ Len(sr) \in Nat /\ d \in Nat /\ d <= lim /\ c \in BOOLEAN
    BY <1>2, <1>4, <1>6, <1>7, <2>1
  <2>4. Within(p, by, sr, d, lim, c)
    BY <2>2, <2>3, ParseSafe
  <2>5. Within(p, input.bytes, src, l.outPreSize, OutLimit, c)
    BY <1>1, <2>1, <2>4
  <2> QED BY <2>1, <2>4, <2>5 DEF Within
<1>9. InSize(o + p.out)
  <2>1. s # NoSize => o + p.out <= s
    <3>1. PICK v : v = p.out
      OBVIOUS
    <3> QED BY <1>2, <1>4, <1>8, <3>1 DEF NoSize
  <2> QED BY <1>1, <2>1 DEF InSize
<1>10. ASSUME NEW k \in 1 .. x + p.used, input.bytes[a + k] = "end"
       PROVE  k = x + p.used /\ p.state = "MARK"
  <2>1. PICK u : u = p.used
    OBVIOUS
  <2>2. CASE k <= x
    <3>1. k \in 1 .. x /\ x > 0
      BY <1>2, <2>2
    <3> QED BY <1>5, <1>10, <3>1 DEF Scanned
  <2>3. CASE k > x
    <3>1. PICK j : j = k - x
      OBVIOUS
    <3>6. u \in Nat /\ u <= Len(src) /\ k \in 1 .. x + u
      BY <1>10, <2>1
    <3>8. x \in Nat /\ a \in Nat /\ u \in Nat
      BY <1>2, <3>6
    <3>9. PICK z, y : z = k /\ y = x
      OBVIOUS
    <3>10. z \in Int /\ z <= y + u /\ z > y /\ j = z - y /\ y \in Nat
      BY <2>3, <3>1, <3>6, <3>8, <3>9
    <3>11. j \in Int /\ j >= 1 /\ j <= u /\ (a + y) + j = a + z
      BY <3>8, <3>10
    <3>7. j \in 1 .. u /\ (a + x) + j = a + k
      BY <3>8, <3>9, <3>11
    <3>2. j \in 1 .. u /\ (a + x) + j = a + k /\ u <= Len(src) /\ u \in Nat
      BY <3>6, <3>7
    <3>3. j \in 1 .. Len(src)
      BY <1>2, <3>2
    <3>4. src[j] = a + k
      BY <1>2, <3>2, <3>3 DEF RunFrom
    <3>5. j = u /\ p.state = "MARK"
      BY <1>8, <1>10, <2>1, <3>2, <3>4
    <3> QED BY <1>2, <2>1, <3>1, <3>5
  <2> QED BY <1>2, <2>2, <2>3
<1>11. c <=> ~ OutLimited \/ input.finishMode
  BY <1>7, Zenon
<1> QED BY <1>1, <1>8, <1>9, <1>10, <1>11

(* How the search for the end of a block goes on: in the next link; or     *)
(* without a block to decode; or the block is cut where the parser stopped.*)
LEMMA ParseMore ==
  ASSUME NEW t \in Threads, NEW a, Looking(t, a),
         ParseOverflow(t) \/ ParseContinue(t) \/ ParseEnd(t) \/ ParseNew(t),
         NEW p, p = Parsed(t)
  PROVE  LET l == th[t].l
             m == th'[t].l
             own == th'[t].inBuf = OwnLinks(t, p.used)
         IN  /\ rd'.outParsed = rd.outParsed \/ rd'.outParsed = rd.outParsed + p.out
             /\ \/ /\ pc'[t] = "read" /\ p.state = "CONTINUE" /\ own
                   /\ rd'.outParsed = rd.outParsed
                \/ pc'[t] = "parsed" /\ (~ m.needCode \/ Refused(m))
                \/ pc'[t] = "parsed" /\ own /\ m.size = l.size - Len(RestOf(Src(t), p.used))
<1> DEFINE l == th[t].l
           e == AfterParse(l, p)
<1>1. /\ LocalOK(l) /\ RdOK /\ ~ l.needCode
  BY DEF Looking, Reader, Unparsed
<1>2. /\ DOMAIN e = {"blockIndex", "res", "codeRes", "wasInterrupted", "finish", "needCode",
                     "needWrite", "isAllocError", "overflow", "threadingError", "start", "size",
                     "checked", "links", "last", "link", "next", "state", "inPreSize",
                     "outPreSize", "prepared", "inCodeSize", "outBuf", "coderRes"}
      /\ e.size = l.size /\ e.needCode = l.needCode
  <2>1. DOMAIN e = DOMAIN l /\ e.size = l.size /\ e.needCode = l.needCode
    BY <1>1 DEF AfterParse, LocalOK
  <2> HIDE DEF e
  <2> QED BY <1>1, <2>1 DEF LocalOK
<1> HIDE DEF e
<1>3. CASE ParseOverflow(t)
  <2> DEFINE m == [e EXCEPT !.finish = TRUE, !.overflow = TRUE]
  <2>1. StoreParsed(t, Len(Src(t)), m, "parsed") /\ rd' = [rd EXCEPT !.cross = << >>]
    BY <1>3 DEF ParseOverflow, e
  <2>2. m.overflow = TRUE
    BY <1>2
  <2> HIDE DEF m
  <2>3. th'[t].l = m /\ pc'[t] = "parsed"
    BY <2>1, ParseStores
  <2>4. rd'.outParsed = rd.outParsed
    BY <1>1, <2>1 DEF RdOK
  <2> QED BY <2>2, <2>3, <2>4 DEF Refused
<1>4. CASE ParseContinue(t)
  <2> DEFINE m == [e EXCEPT !.links = @ + 1]
  <2>1. StoreParsed(t, p.used, m, "read") /\ rd' = [rd EXCEPT !.cross = << >>]
        /\ p.state = "CONTINUE"
    BY <1>4 DEF ParseContinue, e
  <2> HIDE DEF m
  <2>3. th'[t].inBuf = OwnLinks(t, p.used) /\ pc'[t] = "read"
    BY <2>1, ParseStores
  <2>4. rd'.outParsed = rd.outParsed
    BY <1>1, <2>1 DEF RdOK
  <2> QED BY <2>1, <2>3, <2>4
<1>5. PICK z : z = Len(RestOf(Src(t), p.used))
  OBVIOUS
<1>6. ASSUME NEW f, NEW m, StoreParsed(t, p.used, m, "parsed"),
             m = [CutSizes(t, e, p.used, z) EXCEPT !.needCode = TRUE, !.finish = f]
      PROVE  /\ pc'[t] = "parsed" /\ th'[t].inBuf = OwnLinks(t, p.used)
             /\ th'[t].l.size = l.size - z
  <2> DEFINE c == CutSizes(t, e, p.used, z)
  <2>1. c.size = e.size - z /\ DOMAIN c = DOMAIN e
    BY <1>2 DEF CutSizes
  <2> HIDE DEF c
  <2>2. m.size = l.size - z
    BY <1>2, <1>6, <2>1 DEF c
  <2>3. th'[t].l = m /\ th'[t].inBuf = OwnLinks(t, p.used) /\ pc'[t] = "parsed"
    BY <1>6, ParseStores
  <2> QED BY <2>2, <2>3
<1>7. ASSUME NEW k, NEW m, StoreParsed(t, k, m, "parsed"),
             m = [e EXCEPT !.needCode = TRUE, !.finish = TRUE, !.isAllocError = TRUE]
      PROVE  pc'[t] = "parsed" /\ Refused(th'[t].l)
  <2>1. m.isAllocError = TRUE
    BY <1>2, <1>7
  <2>2. th'[t].l = m /\ pc'[t] = "parsed"
    BY <1>7, ParseStores
  <2> QED BY <2>1, <2>2 DEF Refused
<1> DEFINE n(f) == [CutSizes(t, e, p.used, z) EXCEPT !.needCode = TRUE, !.finish = f]
           o == [e EXCEPT !.needCode = TRUE, !.finish = TRUE, !.isAllocError = TRUE]
<1>8. CASE ParseEnd(t)
  <2>1. PICK m, x : m = n(TRUE) /\ x = RestOf(Src(t), p.used)
    OBVIOUS
  <2>2. StoreParsed(t, p.used, m, "parsed")
    BY <1>5, <1>8, <2>1 DEF ParseEnd, e
  <2>3. rd' = [rd EXCEPT !.cross = IF FromCross(t) THEN x ELSE @,
                         !.outParsed = IF p.state = "CONTINUE" THEN @ ELSE @ + p.out]
    BY <1>8, <2>1 DEF ParseEnd
  <2>4. rd'.outParsed = rd.outParsed \/ rd'.outParsed = rd.outParsed + p.out
    BY <1>1, <2>3 DEF RdOK
  <2>5. pc'[t] = "parsed" /\ th'[t].inBuf = OwnLinks(t, p.used) /\ th'[t].l.size = l.size - z
    BY <1>6, <2>1, <2>2
  <2> QED BY <1>5, <2>4, <2>5
<1>9. CASE ParseNew(t)
  <2>1. PICK m, h, x : m = n(FALSE) /\ h = o /\ x = RestOf(Src(t), p.used)
    OBVIOUS
  <2>2. \/ /\ StoreParsed(t, p.used, m, "parsed")
           /\ rd' = [rd EXCEPT !.cross = x, !.crossBlock = TRUE, !.outParsed = @ + p.out]
        \/ /\ StoreParsed(t, 0, h, "parsed") /\ rd' = [rd EXCEPT !.outParsed = @ + p.out]
    BY <1>5, <1>9, <2>1 DEF ParseNew, e
  <2>3. rd'.outParsed = rd.outParsed + p.out
    BY <1>1, <2>2 DEF RdOK
  <2>4. CASE StoreParsed(t, p.used, m, "parsed")
    <3>1. pc'[t] = "parsed" /\ th'[t].inBuf = OwnLinks(t, p.used) /\ th'[t].l.size = l.size - z
      BY <1>6, <2>1, <2>4
    <3> QED BY <1>5, <2>3, <3>1
  <2>5. CASE StoreParsed(t, 0, h, "parsed")
    <3>1. pc'[t] = "parsed" /\ Refused(th'[t].l)
      BY <1>7, <2>1, <2>5
    <3> QED BY <2>3, <3>1
  <2> QED BY <2>2, <2>4, <2>5
<1> QED BY <1>3, <1>4, <1>8, <1>9

(* A coder that has decoded nothing of the block yet.                      *)
LEMMA ComesFirst ==
  ASSUME NEW t \in Threads, NEW a \in Nat, input' = input, a <= Len(input.bytes),
         NEW l, th'[t].l = l, Blank(l), l.outPreSize \in Nat,
         pc'[t] = "code" => l.inPreSize > 0
  PROVE  Coming(t, a, 0)'
<1>1. l.outBuf = << >> /\ l.inCodeSize = 0 /\ l.link = 1 /\ l.link \in Nat \ {0}
  BY DEF Blank
<1>2. Outputs(a) \in Nat
  BY OutputsGrow
<1>3. IsSeq(<< >>) /\ Len(<< >>) = 0
  BY DEF IsSeq
<1>4. Plain(a, a) /\ Texts(<< >>, a)
  BY <1>3 DEF Plain, Texts
<1>5. TextTo(<< >>, a, a)
  BY <1>2, <1>3, <1>4 DEF TextTo
<1>6. a + 0 = a /\ 0 <= l.outPreSize
  OBVIOUS
<1>7. TextTo(<< >>, a, a)'
  BY <1>5, TextStays
<1> QED BY <1>1, <1>3, <1>6, <1>7 DEF Coming

(* What parsing makes of the block.                                        *)
LEMMA ParseWorded ==
  ASSUME Shape, Control, NEW t \in Threads, NEW a, Looking(t, a), InSize(rd.outParsed),
         Worded(t), Clean(t),
         ParseOverflow(t) \/ ParseContinue(t) \/ ParseEnd(t) \/ ParseNew(t)
  PROVE  Worded(t)' /\ InSize(rd.outParsed)'
<1>1. PICK l, m, p, src : l = th[t].l /\ m = th'[t].l /\ p = Parsed(t) /\ src = Src(t)
  OBVIOUS
<1>2. /\ input' = input /\ pc[t] = "parse" /\ Given(t, a) /\ Found(t, a) /\ Reader(t, a)
  BY ParseLooks
<1>3. /\ Unused(m, l) /\ m.inPreSize = l.inPreSize + p.used /\ p.used \in Nat
      /\ m.outPreSize = p.out /\ m.state = p.state
  BY <1>1, ParseKeeps
<1>4. /\ rd'.outParsed = rd.outParsed \/ rd'.outParsed = rd.outParsed + p.out
      /\ \/ /\ pc'[t] = "read" /\ p.state = "CONTINUE" /\ th'[t].inBuf = OwnLinks(t, p.used)
            /\ rd'.outParsed = rd.outParsed
         \/ pc'[t] = "parsed" /\ (~ m.needCode \/ Refused(m))
         \/ pc'[t] = "parsed" /\ th'[t].inBuf = OwnLinks(t, p.used)
            /\ m.size = l.size - Len(RestOf(src, p.used))
  BY <1>1, ParseMore
<1>5. PICK x, u, v, y : x = l.inPreSize /\ u = p.used /\ v = p.out /\ y = Len(src)
  OBVIOUS
<1>6. /\ x \in Nat /\ u \in Nat /\ v \in Nat /\ y \in Nat /\ u <= y /\ a \in Nat
      /\ l.size = x + y /\ rd.pos = (a + x) + y /\ src \in Seq(Int) /\ l.links \in Nat
  BY <1>1, <1>2, <1>5 DEF Given, Found, Looking, LocalOK
<1>7. /\ v <= OutLimit /\ InSize(rd.outParsed + v)
      /\ \A k \in 1 .. x + u : input.bytes[a + k] = "end" => k = x + u /\ p.state = "MARK"
  <2>1. /\ p.used \in Nat /\ p.out \in Nat /\ p.used <= Len(Src(t)) /\ x = th[t].l.inPreSize
    BY <1>1, <1>5, <1>6
  <2> QED BY <1>1, <1>2, <1>5, <2>1, ParseScans
<1>8. InSize(rd.outParsed)'
  BY <1>2, <1>4, <1>5, <1>7 DEF InSize
<1>9. SUFFICES ASSUME m.inPreSize > 0 PROVE BlockText(t, Start(t))'
  BY <1>1, <1>8 DEF Worded
<1>10. m.inPreSize = x + u /\ x + u > 0
  BY <1>3, <1>5, <1>9
<1>11. CASE pc'[t] = "parsed" /\ (~ m.needCode \/ Refused(m))
  <2>1. ~ InBlock(t)' /\ (~ th'[t].l.needCode \/ Refused(th'[t].l))
    BY <1>1, <1>11 DEF InBlock
  <2> QED BY <2>1 DEF BlockText
<1>12. ASSUME th'[t].inBuf = OwnLinks(t, p.used) PROVE Start(t)' = a
  <2>1. ThreadOK(th[t]) /\ Linked(t) /\ RdOK /\ u \in 0 .. Len(Src(t)) /\ a \in Nat
    BY <1>1, <1>5, <1>6 DEF Looking
  <2>2. PICK s : s = IF l.links = 0 THEN u ELSE l.start
    OBVIOUS
  <2>3. Holds(OwnLinks(t, u), a, s, x + u)
    BY <1>1, <1>2, <1>5, <2>1, <2>2, OwnHolds
  <2>4. OwnLinks(t, u)[1][1] - 1 = a
    BY <1>6, <1>10, <2>3, HoldsStart
  <2> QED BY <1>5, <1>12, <2>4 DEF Start
<1>13. CASE /\ pc'[t] = "read" /\ p.state = "CONTINUE" /\ th'[t].inBuf = OwnLinks(t, p.used)
            /\ rd'.outParsed = rd.outParsed
  <2>1. Start(t)' = a /\ InBlock(t)'
    BY <1>12, <1>13 DEF InBlock
  <2>2. OutLimit' = OutLimit
    BY <1>2, <1>13 DEF OutLimit, OutLimited, OutRemains
  <2>3. m.outPreSize = v
    BY <1>3, <1>5
  <2>4. \A k \in 1 .. x + u : input.bytes[a + k] # "end"
    BY <1>7, <1>13
  <2> QED BY <1>1, <1>2, <1>7, <1>10, <2>1, <2>2, <2>3, <2>4 DEF BlockText, Scanned
<1>14. CASE pc'[t] = "parsed" /\ th'[t].inBuf = OwnLinks(t, p.used)
            /\ m.size = l.size - Len(RestOf(src, p.used))
  <2>1. Start(t)' = a /\ ~ InBlock(t)'
    BY <1>12, <1>14 DEF InBlock
  <2>2. m.size = m.inPreSize
    <3>0. src \in Seq(Int) /\ u \in 0 .. Len(src)
      BY <1>5, <1>6
    <3>4. Len(RestOf(src, u)) = Len(src) - u
      BY <3>0, RestType
    <3>1. Len(RestOf(src, u)) = y - u
      BY <1>5, <3>4
    <3>2. m.size = l.size - (y - u)
      BY <1>5, <1>14, <3>1
    <3>3. (x + y) - (y - u) = x + u
      BY <1>6
    <3> QED BY <1>6, <1>10, <3>2, <3>3
  <2>3. \A k \in 1 .. m.inPreSize :
          input.bytes[a + k] = "end" => k = m.inPreSize /\ m.state = "MARK"
    BY <1>3, <1>7, <1>10
  <2>4. InSize(Outputs(a) + v)
    <3>1. CASE rd.outParsed = Outputs(a)
      BY <1>7, <3>1
    <3>2. CASE Drained(a)
      <4>1. rd.pos = a
        BY <3>2 DEF Drained
      <4>2. a = (a + x) + y
        BY <1>6, <4>1
      <4>3. x + u = 0
        BY <1>6, <4>2
      <4> QED BY <1>10, <4>3
    <3> QED BY <1>2, <3>1, <3>2 DEF Reader, Level
  <2>5. InSize(Outputs(a) + m.outPreSize)'
    BY <1>2, <1>3, <1>5, <2>4, TextStays
  <2>6. Coming(t, a, 0)'
    <3>1. Blank(l)
      BY <1>1, <1>2 DEF Clean
    <3>2. Blank(m)
      BY <1>3, <3>1 DEF Blank, Unused
    <3>3. a <= Len(input.bytes)
      BY <1>6 DEF Looking, RdOK
    <3>4. m.outPreSize \in Nat /\ pc'[t] # "code"
      BY <1>3, <1>5, <1>6, <1>14
    <3> QED BY <1>1, <1>2, <1>6, <3>2, <3>3, <3>4, ComesFirst
  <2>7. 0 \in 0 .. m.inPreSize
    BY <1>6, <1>10
  <2>8. Fits(t, a)'
    BY <1>1, <1>2, <2>2, <2>3, <2>5, <2>6, <2>7 DEF Fits
  <2> QED BY <2>1, <2>8 DEF BlockText
<1> QED BY <1>4, <1>11, <1>13, <1>14

(* A step of a thread that has its block, and has not decoded any of it.   *)
LEMMA CarryWorded ==
  ASSUME NEW t \in Threads, input' = input, ~ InBlock(t), ~ InBlock(t)',
         th'[t].inBuf = th[t].inBuf, NEW a \in Nat, NEW b, HasBlock(t, a, b), Worded(t),
         NEW l, l = th[t].l, LocalOK(l), NEW m, th'[t].l = m, Blank(m),
         m.inPreSize = l.inPreSize, m.outPreSize = l.outPreSize, m.size = l.size,
         m.state = l.state, m.needCode /\ ~ Refused(m) => l.needCode /\ ~ Refused(l)
  PROVE  Worded(t)'
<1>1. SUFFICES ASSUME l.inPreSize > 0, m.needCode, ~ Refused(m) PROVE Fits(t, Start(t))'
  BY DEF Worded, BlockText
<1>2. LocalOK(th[t].l) /\ th[t].l.inPreSize > 0
  BY <1>1
<1>3. Start(t) = a
  BY <1>2, StartIs
<1>4. Start(t)' = a
  BY <1>3 DEF Start
<1>5. Fits(t, a)
  BY <1>1, <1>3 DEF Worded, BlockText
<1>6. a <= Len(input.bytes)
  <2>1. PICK c \in 0 .. l.inPreSize : Coming(t, a, c)
    BY <1>5 DEF Fits
  <2>2. l.inPreSize \in Nat
    BY DEF LocalOK
  <2>3. a <= a + c /\ a + c <= Len(input.bytes)
    BY <2>1 DEF Coming, TextTo
  <2>4. PICK n : n = Len(input.bytes)
    OBVIOUS
  <2>5. n \in Int \/ n \notin Int
    OBVIOUS
  <2> QED BY <2>1, <2>2, <2>3, <2>4
<1>7. Coming(t, a, 0)'
  <2>1. l.outPreSize \in Nat
    BY DEF LocalOK
  <2>2. m.outPreSize \in Nat /\ m.inPreSize > 0
    BY <1>1, <2>1
  <2> QED BY <1>6, <2>2, ComesFirst
<1>8. 0 \in 0 .. m.inPreSize
  BY DEF LocalOK
<1>9. InSize(Outputs(a) + m.outPreSize)'
  BY <1>5, TextStays DEF Fits
<1>10. Fits(t, a)'
  BY <1>5, <1>7, <1>8, <1>9 DEF Fits
<1> QED BY <1>4, <1>10

(* PreCode says nothing new of the block.                                  *)
LEMMA PreCodeWorded ==
  ASSUME Shape, Control, NEW t \in Threads, Clean(t), NEW a \in Nat, NEW b, HasBlock(t, a, b),
         Worded(t), PreCode(t)
  PROVE  Worded(t)'
<1> DEFINE l == th[t].l
           looks == pc[t] = "parsed" /\ l.res = OK
           res == IF looks THEN sync.res ELSE l.res
           was == IF looks THEN InterruptedBefore(l.blockIndex) ELSE l.wasInterrupted
           called == res = OK /\ l.needCode /\ ~ was
           mm(code) == [l EXCEPT !.res = res, !.wasInterrupted = was, !.codeRes = code,
                                 !.prepared = called /\ code = OK,
                                 !.coderRes = IF code = "DATA" THEN code ELSE @,
                                 !.needCode = @ /\ code = OK,
                                 !.finish = @ \/ code # OK \/ res # OK \/ was]
<1>1. /\ pc[t] \in {"parsed", "pass"} /\ pc' = [pc EXCEPT ![t] = "start_next"] /\ Working(t)
      /\ input' = input
  BY DEF PreCode, Working, Reading, caller
<1>2. PICK code : SetLocals(t, mm(code))
  BY Zenon DEF PreCode
<1>3. /\ ThreadOK(th[t]) /\ LocalOK(l) /\ t \in DOMAIN th /\ t \in DOMAIN pc
      /\ l.codeRes = OK
  BY <1>1 DEF Control, Good, ThreadOK, Shape, Flags
<1> HIDE DEF called, was, res
<1> DEFINE m == mm(code)
<1>5. /\ m.outBuf = l.outBuf /\ m.inCodeSize = l.inCodeSize /\ m.link = l.link
      /\ m.inPreSize = l.inPreSize /\ m.outPreSize = l.outPreSize /\ m.size = l.size
      /\ m.state = l.state /\ m.needCode = (l.needCode /\ code = OK)
      /\ m.isAllocError = l.isAllocError /\ m.threadingError = l.threadingError
      /\ m.overflow = l.overflow
  BY <1>3 DEF LocalOK
<1>6. th' = [th EXCEPT ![t].l = m]
  BY <1>2 DEF SetLocals
<1> HIDE DEF m, mm
<1>7. th'[t].l = m /\ pc'[t] = "start_next" /\ th'[t].inBuf = th[t].inBuf
  BY <1>1, <1>3, <1>6 DEF ThreadOK
<1>8. Blank(m)
  BY <1>1, <1>5 DEF Clean, Blank
<1>9. m.needCode /\ ~ Refused(m) => l.needCode /\ ~ Refused(l)
  BY <1>3, <1>5 DEF Refused, OK
<1>10. ~ InBlock(t) /\ ~ InBlock(t)'
  BY <1>1, <1>7 DEF InBlock
<1>11. PICK k : k = l
  OBVIOUS
<1> QED BY <1>1, <1>3, <1>5, <1>7, <1>8, <1>9, <1>10, CarryWorded

(* Nor does waking the next thread.                                        *)
LEMMA StartWorded ==
  ASSUME Shape, Control, NEW t \in Threads, Clean(t), NEW a \in Nat, NEW b, HasBlock(t, a, b),
         Worded(t), StartNext(t) \/ StartNone(t)
  PROVE  Worded(t)' /\ rd'.outParsed = rd.outParsed
<1>1. PICK l, m : l = th[t].l /\ m = th'[t].l
  OBVIOUS
<1>2. /\ Unused(m, l) /\ m.inPreSize = l.inPreSize /\ th'[t].inBuf = th[t].inBuf
      /\ rd'.outParsed = rd.outParsed /\ pc[t] = "start_next"
      /\ \/ /\ pc'[t] = AfterStart(l) /\ m.size = l.size
            /\ m.outPreSize = l.outPreSize /\ m.state = l.state /\ m.needCode = l.needCode
            /\ (Refused(m) <=> Refused(l))
         \/ pc'[t] = "wait_write" /\ m.needCode = FALSE
  BY <1>1, StartStores
<1>3. input' = input
  BY DEF StartNext, StartNone, caller
<1>4. LocalOK(l) /\ Blank(m)
  <2>1. Working(t) /\ Blank(l)
    BY <1>1, <1>2 DEF Working, Reading, Clean
  <2> QED BY <1>1, <1>2, <2>1 DEF Control, Good, ThreadOK, Unused, Blank
<1>5. ~ InBlock(t) /\ ~ InBlock(t)'
  BY <1>2 DEF InBlock, AfterStart
<1>6. CASE pc'[t] = "wait_write" /\ m.needCode = FALSE
  BY <1>1, <1>2, <1>5, <1>6 DEF Worded, BlockText
<1>7. CASE pc'[t] = AfterStart(l) /\ m.size = l.size
           /\ m.outPreSize = l.outPreSize /\ m.state = l.state /\ m.needCode = l.needCode
           /\ (Refused(m) <=> Refused(l))
  BY <1>1, <1>2, <1>3, <1>4, <1>5, <1>7, CarryWorded
<1> QED BY <1>2, <1>6, <1>7

(* Where a link begins in its block, and how much of it is the block's.    *)
Offset(start, link) == IF link = 1 THEN 0 ELSE start + Lk(link)
InLink(start, size, c, link) == IF link = 1 THEN start ELSE Smaller(InBufSize, size - c)

(* The link the coder is given holds the block's bytes from where it is.   *)
LEMMA LinkHeld ==
  ASSUME NEW buf \in Seq(Link), NEW a \in Nat, NEW start \in Int, NEW size \in Int,
         Holds(buf, a, start, size), NEW link \in Nat \ {0}, NEW c \in Nat, c < size,
         c = Offset(start, link), NEW z, z = InLink(start, size, c, link),
         NEW src, src = FirstBytes(buf[link], z)
  PROVE  /\ z \in 1 .. InBufSize /\ c + z <= size /\ Len(src) = z /\ RunFrom(src, a + c)
         /\ c + z < size => c + z = start + Lk(link + 1)
<1>1. InBufSize \in Nat \ {0} /\ Lk(2) = 0
  BY MtDecAssumption, LkOrder
<1>2. start \in 1 .. InBufSize /\ start <= size /\ Len(buf) > 0
  BY <1>1 DEF Holds
<1>3. CASE link = 1
  <2>1. z = start /\ c = 0 /\ a + c = a
    BY <1>3 DEF Offset, InLink
  <2>2. buf[1] \in Link /\ \A j \in 1 .. start : buf[1][j] = a + j
    BY <1>2 DEF Holds
  <2>3. z \in 0 .. InBufSize
    BY <1>2, <2>1
  <2>4. Len(src) = z /\ RunFrom(src, a)
    BY <1>3, <2>1, <2>2, <2>3, FirstOfLink
  <2>5. c + z = start /\ link + 1 = 2
    BY <1>2, <1>3, <2>1
  <2>6. z \in 1 .. InBufSize /\ c + z <= size /\ start + Lk(link + 1) = start
    BY <1>1, <1>2, <2>1, <2>5
  <2> QED BY <2>1, <2>4, <2>5, <2>6
<1>4. CASE link # 1
  <2>1. link \in Nat /\ link >= 2 /\ link \in Int
    BY <1>4
  <2>2. PICK k, h, y, e, w :
          k = Lk(link) /\ h = Lk(link + 1) /\ y = c /\ e = z /\ w = InBufSize
    OBVIOUS
  <2>3. k \in Int /\ h = k + w /\ y = start + k /\ y \in Nat /\ y < size
        /\ e = Smaller(w, size - y)
    BY <1>4, <2>1, <2>2, LkNext DEF Offset, InLink
  <2>9. w \in Nat /\ w >= 1 /\ start >= 1 /\ start <= w
    BY <1>1, <1>2, <2>2
  <2>10. e = w \/ e = size - y
    BY <2>3 DEF Smaller
  <2>11. e <= w /\ e <= size - y
    BY <2>3, <2>9 DEF Smaller
  <2>12. e \in 1 .. w /\ y + e <= size /\ k + e <= size - start
    BY <2>3, <2>9, <2>10, <2>11
  <2>13. y + e < size => y + e = start + h
    BY <2>3, <2>9, <2>10
  <2>14. k \in Int /\ w \in Nat /\ e \in 1 .. w /\ k + e <= size - start /\ start \in Int
    BY <2>3, <2>9, <2>12
  <2>4. /\ z \in 1 .. InBufSize /\ c + z <= size /\ (c + z < size => c + z = start + h)
        /\ k + e <= size - start
    BY <2>2, <2>12, <2>13
  <2>5. ASSUME NEW j \in 1 .. z PROVE link <= Len(buf) /\ buf[link][j] = (a + c) + j
    <3>0. j \in 1 .. e
      BY <2>2
    <3>5. PICK i : i = j
      OBVIOUS
    <3>6. i \in 1 .. w /\ k + i <= size - start /\ i \in Int
      BY <2>14, <3>0, <3>5
    <3>1. j \in 1 .. w /\ k + j <= size - start /\ j \in Int
      BY <3>5, <3>6
    <3>2. Rest(buf, a + start, size - start)
      BY DEF Holds
    <3>3. link <= Len(buf) /\ buf[link][j] = (a + start) + k + j
      BY <2>1, <2>2, <3>1, <3>2 DEF Rest
    <3>4. (a + start) + k + j = (a + y) + j
      BY <2>3, <3>1
    <3> QED BY <2>2, <3>3, <3>4
  <2>6. link \in 1 .. Len(buf)
    BY <2>1, <2>4, <2>5
  <2>7. buf[link] \in Link /\ z \in 0 .. InBufSize /\ a + c \in Nat
    BY <2>4, <2>6
  <2>8. Len(src) = z /\ RunFrom(src, a + c)
    BY <2>5, <2>7, FirstOfLink
  <2> QED BY <2>2, <2>4, <2>8
<1> QED BY <1>3, <1>4

(* A call of the coder goes on with the text of the block; at the end of   *)
(* the link it is where the next one begins.                               *)
LEMMA CodedText ==
  ASSUME InputOK, NEW t \in Threads, ThreadOK(th[t]), pc[t] = "code", NEW a \in Nat,
         Fits(t, a), th[t].l.inPreSize > 0,
         Holds(th[t].inBuf, a, th[t].l.start, th[t].l.size),
         a + th[t].l.size <= Len(input.bytes), IsSeq(th[t].l.outBuf),
         NEW l, l = th[t].l, NEW k, k = Coded(t)
  PROVE  \E c \in 0 .. l.inPreSize :
           /\ TextTo(k.buf, a, a + c) /\ Len(k.buf) <= l.outPreSize
           /\ k.ok /\ l.state # "MARK" => c = k.pos
           /\ k.ok /\ k.fits /\ ~ k.stop => /\ c = k.pos /\ c < l.inPreSize
                                             /\ c = l.start + Lk(l.link + 1)
           /\ Shaped(l, a) => Judges(k, l, a)
<1>1. PICK c \in 0 .. l.inPreSize : Coming(t, a, c)
  BY DEF Fits
<1>2. /\ l.size = l.inPreSize /\ l.inPreSize \in Nat /\ l.outPreSize \in Nat /\ l.start \in Int
      /\ th[t].inBuf \in Seq(Link)
      /\ \A j \in 1 .. l.inPreSize :
           input.bytes[a + j] = "end" => j = l.inPreSize /\ l.state = "MARK"
  BY DEF Fits, ThreadOK, LocalOK
<1>3. /\ TextTo(l.outBuf, a, a + c) /\ Len(l.outBuf) <= l.outPreSize /\ c = l.inCodeSize
      /\ c < l.inPreSize /\ l.link \in Nat \ {0}
      /\ c = IF l.link = 1 THEN 0 ELSE l.start + Lk(l.link)
  BY <1>1 DEF Coming
<1>4. PICK z, buf, link, n, p : z = (IF l.link = 1 THEN l.start ELSE Smaller(InBufSize, l.size - l.inCodeSize))
                             /\ buf = th[t].inBuf /\ link = l.link /\ n = Len(l.outBuf)
                             /\ p = l.inPreSize
  OBVIOUS
<1>5. PICK src : src = FirstBytes(buf[link], z)
  OBVIOUS
<1>c. c \in Nat /\ c < p /\ p \in Nat
  BY <1>2, <1>3, <1>4
<1>6. /\ z \in 1 .. InBufSize /\ c + z <= p /\ Len(src) = z /\ RunFrom(src, a + c)
      /\ c + z < p => c + z = l.start + Lk(link + 1)
  <2>1. PICK start, size : start = l.start /\ size = l.size
    OBVIOUS
  <2>2. start \in Int /\ size \in Int /\ Holds(buf, a, start, size) /\ link \in Nat \ {0}
        /\ size = p /\ c < size /\ buf \in Seq(Link)
    BY <1>2, <1>3, <1>4, <2>1
  <2>3. c = Offset(start, link)
    BY <1>3, <1>4, <2>1 DEF Offset
  <2>4. z = InLink(start, size, c, link)
    BY <1>3, <1>4, <2>1 DEF InLink
  <2>5. /\ z \in 1 .. InBufSize /\ c + z <= size /\ Len(src) = z /\ RunFrom(src, a + c)
        /\ c + z < size => c + z = start + Lk(link + 1)
    BY <1>c, <1>5, <2>2, <2>3, <2>4, LinkHeld
  <2> QED BY <2>1, <2>2, <2>5
<1>g. BlockFinished(l) \in BOOLEAN
  BY DEF BlockFinished
<1>f. PICK fin \in BOOLEAN : fin = BlockFinished(l)
  BY <1>g, Zenon
<1>7. PICK d, lim : lim = l.outPreSize /\ d = Decode(input.bytes, src, n, lim, ~ fin)
  OBVIOUS
<1>8. /\ k.buf = l.outBuf \o d.out /\ k.pos = c + d.used /\ k.ok = d.ok
      /\ k.fits <=> (fin => d.used = z /\ (k.pos = p => Len(k.buf) = lim))
      /\ k.stop <=> (k.pos = l.size \/ IF fin THEN k.pos = p ELSE d.used # z \/ Len(k.buf) = lim)
  BY <1>3, <1>4, <1>5, <1>7, <1>f DEF Coded
<1>9. n \in Nat /\ lim \in Nat /\ n <= lim
  BY <1>2, <1>3, <1>4, <1>7 DEF TextTo
<1>10. InBufSize \in Nat /\ z \in Nat /\ z >= 1
  BY <1>6, MtDecAssumption
<1>11. (a + c) + z <= Len(input.bytes) /\ a + c \in Nat
  <2>1. PICK e : e = Len(input.bytes)
    OBVIOUS
  <2>2. a + p <= e /\ e \in Int
    BY <1>2, <1>4, <2>1 DEF InputOK, Streams
  <2>3. (a + c) + z <= e
    BY <1>c, <1>6, <1>10, <2>2
  <2> QED BY <1>c, <2>1, <2>3
<1>12. PICK s : Decodes(d, src, a + c, n, lim, ~ fin, s)
  <2>0. PICK any \in BOOLEAN : any = ~ fin
    OBVIOUS
  <2>1. PICK y : y = a + c
    OBVIOUS
  <2>2. input.bytes \in Seq(Kinds)
    BY DEF InputOK, Streams
  <2>3. Len(src) \in Nat /\ y \in Nat /\ RunFrom(src, y) /\ y + Len(src) <= Len(input.bytes)
    BY <1>6, <1>10, <1>11, <2>1
  <2>4. lim \in Nat \cup {NoSize} /\ n \in Nat /\ (lim # NoSize => n <= lim)
    BY <1>9
  <2>5. d = Decode(input.bytes, src, n, lim, any)
    BY <1>7, <2>0
  <2>6. \E s : Decodes(d, src, y, n, lim, any, s)
    BY <2>2, <2>3, <2>4, <2>5, DecodeText
  <2> QED BY <2>0, <2>1, <2>6
<1>13. PICK u, x : u = d.used /\ x = Len(d.out)
  OBVIOUS
<1>14. /\ s \in 1 .. z + 1 /\ TextTo(d.out, a + c, (a + c) + (s - 1)) /\ n + x <= lim
       /\ u \in {s - 1, s} /\ u <= z
       /\ d.ok /\ ~ d.mark => u = s - 1
       /\ d.mark => u = s /\ s <= z /\ input.bytes[(a + c) + s] = "end"
  BY <1>6, <1>9, <1>12, <1>13 DEF Decodes, NoSize
<1>15. PICK q : q = c + (s - 1)
  OBVIOUS
<1>16. /\ q \in 0 .. p /\ (a + c) + (s - 1) = a + q /\ a + c \in Nat /\ a + q \in Nat
       /\ s \in Nat /\ s >= 1 /\ u \in Nat
  BY <1>c, <1>6, <1>10, <1>14, <1>15
<1>17. TextTo(k.buf, a, a + q) /\ Len(k.buf) = n + x
  <2>1. TextTo(l.outBuf, a, a + c) /\ TextTo(d.out, a + c, a + q)
    BY <1>3, <1>14, <1>16
  <2>2. TextTo(l.outBuf \o d.out, a, a + q)
    BY <1>16, <2>1, TextJoins
  <2>3. IsSeq(l.outBuf) /\ IsSeq(d.out)
    BY <2>1 DEF TextTo
  <2> QED BY <1>4, <1>8, <1>13, <2>2, <2>3, SeqItems
<1>18. d.mark => c + s = p /\ l.state = "MARK"
  <2>1. ASSUME d.mark PROVE c + s = p /\ l.state = "MARK"
    <3>0. /\ c \in Nat /\ s \in Nat /\ s >= 1 /\ s <= z /\ z \in Nat /\ c + z <= p
          /\ p \in Nat /\ a \in Nat
      BY <1>c, <1>6, <1>10, <1>14, <1>16, <2>1
    <3>3. PICK y : y = c
      OBVIOUS
    <3>4. y + s \in 1 .. p /\ (a + y) + s = a + (y + s)
      BY <3>0, <3>3
    <3>1. c + s \in 1 .. p /\ (a + c) + s = a + (c + s)
      BY <3>3, <3>4
    <3>2. input.bytes[a + (c + s)] = "end"
      BY <1>14, <2>1, <3>1
    <3> QED BY <1>2, <1>4, <3>1, <3>2
  <2> QED BY <2>1
<1>19. k.pos = c + u
  BY <1>8, <1>13
<1>20. ASSUME k.ok, l.state # "MARK" PROVE q = k.pos
  <2>1. u = s - 1
    BY <1>8, <1>14, <1>18, <1>20
  <2> QED BY <1>15, <1>19, <2>1
<1>21. ASSUME k.ok, k.fits, ~ k.stop PROVE q = k.pos /\ q < p /\ q = l.start + Lk(l.link + 1)
  <2>1. u = z /\ c + u # p
    BY <1>2, <1>4, <1>8, <1>13, <1>19, <1>21
  <2>2. ~ d.mark
    BY <1>14, <1>18, <2>1
  <2>3. u = s - 1 /\ q = c + u
    BY <1>8, <1>14, <1>15, <1>21, <2>2
  <2>4. q = c + z /\ c + z < p
    BY <1>c, <1>6, <1>10, <2>1, <2>3
  <2> QED BY <1>4, <1>6, <1>19, <2>3, <2>4
<1>22. Len(k.buf) <= l.outPreSize
  BY <1>7, <1>14, <1>17
<1>23. ASSUME Shaped(l, a) PROVE Judges(k, l, a)
  <2>1. /\ n + x <= lim /\ x \in Nat /\ lim = Outputs(a + p) - Outputs(a)
        /\ Outputs(a + q) = Outputs(a) + (n + x) /\ Outputs(a) \in Nat /\ Outputs(a + p) \in Nat
        /\ a + p \in Nat /\ a \in Nat
    <3>1. x \in Nat
      BY <1>13, <1>14 DEF TextTo
    <3>2. Outputs(a + q) = Outputs(a) + (n + x)
      BY <1>17 DEF TextTo
    <3>3. lim = Outputs(a + p) - Outputs(a)
      BY <1>4, <1>7, <1>23 DEF Shaped
    <3>4. a + p \in Nat /\ Outputs(a) \in Nat /\ Outputs(a + p) \in Nat
      <4>1. a + p \in Nat
        BY <1>c
      <4> QED BY <4>1, OutputsNext
    <3> QED BY <1>14, <3>1, <3>2, <3>3, <3>4
  <2>2. q = p => n + x = lim
    BY <1>9, <2>1
  <2>3. /\ d.mark <=> s # z + 1 /\ ~ (~ fin /\ n + x = lim) /\ input.bytes[a + (q + 1)] = "end"
        /\ d.ok <=> s = z + 1 \/ (~ fin /\ n + x = lim) \/ d.mark
        /\ s = z + 1 \/ input.bytes[a + (q + 1)] \in {"end", "bad", "err"} \/ n + x = lim
        /\ d.ok /\ ~ d.mark => s = z + 1 \/ (~ fin /\ n + x = lim)
    <3>1. a + (q + 1) = (a + c) + s
      BY <1>c, <1>15, <1>16
    <3>2. lim # NoSize
      BY <1>9 DEF NoSize
    <3>3. /\ d.mark <=> /\ ~ (s = z + 1 \/ (~ fin /\ lim # NoSize /\ n + x = lim))
                        /\ input.bytes[(a + c) + s] = "end"
          /\ d.ok <=> (s = z + 1 \/ (~ fin /\ lim # NoSize /\ n + x = lim)) \/ d.mark
          /\ \/ s = z + 1 \/ input.bytes[(a + c) + s] \in {"end", "bad", "err"}
             \/ lim # NoSize /\ n + x = lim
      BY <1>6, <1>12, <1>13, Zenon DEF Decodes
    <3> QED BY <3>1, <3>2, <3>3, Zenon
  <2>4. s # z + 1 => q + 1 \in 1 .. p /\ q < p
    <3>1. PICK e : e = c
      OBVIOUS
    <3>2. e \in Nat /\ e + z <= p /\ q = e + (s - 1) /\ s \in 1 .. z + 1
      BY <1>c, <1>6, <1>14, <1>15, <3>1
    <3> QED BY <1>c, <1>10, <1>16, <3>2
  <2>5. fin <=> l.state \in {"MARK", "NEW"}
    BY <1>f, Zenon DEF BlockFinished
  <2>6. ~ k.ok => Damaged(l, a)
    <3>1. SUFFICES ASSUME ~ d.ok PROVE Damaged(l, a)
      BY <1>8
    <3>2. s # z + 1 /\ ~ d.mark /\ ~ (~ fin /\ n + x = lim)
      BY <2>3, <3>1
    <3>3. q + 1 \in 1 .. p /\ q < p /\ input.bytes[a + (q + 1)] # "end"
      BY <2>3, <2>4, <3>2
    <3>4. CASE input.bytes[a + (q + 1)] \in {"bad", "err"}
      BY <1>4, <3>3, <3>4 DEF Damaged
    <3>5. CASE input.bytes[a + (q + 1)] \notin {"bad", "err"}
      <4>1. n + x = lim /\ l.state \in {"MARK", "NEW"}
        BY <2>3, <2>5, <3>2, <3>3, <3>5
      <4>2. /\ a + q \in Nat /\ a + p \in Nat /\ a + q < a + p /\ Outputs(a + q) = Outputs(a + p)
            /\ p \in Nat /\ q \in Nat /\ a \in Nat /\ a + (q + 1) = (a + q) + 1
        <5>1. Outputs(a + q) = Outputs(a + p)
          BY <1>9, <2>1, <4>1
        <5>2. /\ a + q \in Nat /\ a + p \in Nat /\ a + q < a + p
              /\ p \in Nat /\ q \in Nat /\ a \in Nat /\ a + (q + 1) = (a + q) + 1
          BY <1>c, <1>16, <2>1, <3>3
        <5> QED BY <5>1, <5>2
      <4>3. PICK g, h, e : g = a + q /\ h = a + p /\ e = Len(input.bytes)
        OBVIOUS
      <4>4. g \in Nat /\ h \in Nat /\ g < h /\ h <= e /\ e \in Nat /\ Outputs(g) = Outputs(h)
            /\ a + (q + 1) = g + 1
        BY <1>2, <1>4, <4>2, <4>3 DEF InputOK, Streams
      <4>5. input.bytes[g + 1] = "new"
        <5>1. g + 1 \in Nat /\ g < g + 1 /\ g + 1 <= h
          BY <4>4
        <5>2. input.bytes[g + 1] \notin {"data", "bad"}
          BY <4>4, <5>1, OutputsSame
        <5>3. input.bytes[g + 1] \in Kinds
          <6>1. g + 1 \in 1 .. e /\ input.bytes \in Seq(Kinds)
            BY <4>4 DEF InputOK, Streams
          <6> QED BY <4>3, <6>1
        <5> QED BY <3>3, <3>5, <4>4, <5>2, <5>3 DEF Kinds
      <4>6. CASE g + 1 = h
        <5>1. l.state # "MARK"
          BY <1>4, <1>23, <4>3, <4>5, <4>6 DEF Shaped
        <5>2. h < e /\ input.bytes[h + 1] = "new"
          BY <1>4, <1>23, <4>1, <4>3, <5>1 DEF Shaped
        <5>3. h \in 1 .. Len(input.bytes) - 1 /\ input.bytes[h] = "new"
          BY <4>3, <4>4, <4>5, <4>6, <5>2
        <5>4. input.bytes[h + 1] \in {"data", "bad", "err"}
          BY <5>3, NewIsFollowed
        <5> QED BY <5>2, <5>4
      <4>7. CASE g + 1 # h
        <5>1. (g + 1) + 1 \in Nat /\ g < (g + 1) + 1 /\ (g + 1) + 1 <= h /\ g + 1 \in 1 .. Len(input.bytes) - 1
          BY <4>3, <4>4, <4>7
        <5>2. input.bytes[(g + 1) + 1] \notin {"data", "bad"}
          BY <4>4, <5>1, OutputsSame
        <5>3. input.bytes[(g + 1) + 1] \in {"data", "bad", "err"}
          BY <4>5, <5>1, NewIsFollowed
        <5>4. q + 2 \in 1 .. p /\ a + (q + 2) = (g + 1) + 1
          BY <4>2, <4>3, <5>1
        <5>5. input.bytes[a + (q + 2)] = "err"
          BY <5>2, <5>3, <5>4
        <5>6. l.state = "ERROR"
          BY <1>4, <1>23, <5>4, <5>5 DEF Shaped
        <5> QED BY <4>1, <5>6
      <4> QED BY <4>6, <4>7
    <3> QED BY <3>4, <3>5
  <2>7. ASSUME d.mark PROVE u = z /\ c + u = p /\ n + x = lim
    <3>1. c + s = p /\ u = s /\ s <= z /\ l.state = "MARK"
      BY <1>14, <1>18, <2>7
    <3>2. u = z /\ c + u = p /\ q + 1 = p
      BY <1>c, <1>6, <1>10, <1>14, <1>15, <3>1
    <3>3. input.bytes[a + p] = "end"
      BY <1>4, <1>23, <3>1 DEF Shaped
    <3>4. PICK g : g = a + q
      OBVIOUS
    <3>5. g \in Nat /\ g + 1 = a + p
      BY <1>c, <1>16, <3>2, <3>4
    <3>6. Outputs(g + 1) = Outputs(g) + 0
      BY <3>3, <3>5, OutputsNext
    <3>7. Outputs(a + p) = Outputs(a + q)
      <4>1. Outputs(g) \in Nat
        BY <3>5, OutputsNext
      <4>2. Outputs(g + 1) = Outputs(g)
        BY <3>6, <4>1
      <4> QED BY <3>4, <3>5, <4>2
    <3> QED BY <1>9, <2>1, <3>2, <3>7
  <2>8. k.ok => k.fits
    <3>1. SUFFICES ASSUME d.ok, fin PROVE u = z /\ (c + u = p => n + x = lim)
      BY <1>8, <1>13, <1>17, <1>19
    <3>2. CASE d.mark
      BY <2>7, <3>2
    <3>3. CASE ~ d.mark
      <4>1. s = z + 1 /\ u = s - 1
        BY <1>14, <2>3, <3>1, <3>3
      <4>2. u = z /\ q = c + u
        BY <1>10, <1>15, <4>1
      <4> QED BY <2>2, <4>2
    <3> QED BY <3>2, <3>3
  <2>9. k.ok /\ k.stop => Len(k.buf) = l.outPreSize /\ (BlockFinished(l) => k.pos = l.inPreSize)
    <3>1. SUFFICES ASSUME d.ok, k.stop PROVE n + x = lim /\ (fin => c + u = p)
      BY <1>4, <1>7, <1>8, <1>f, <1>17, <1>19
    <3>2. CASE d.mark
      BY <2>7, <3>2
    <3>3. CASE ~ d.mark
      <4>1. u = s - 1 /\ q = c + u
        BY <1>14, <1>15, <3>1, <3>3
      <4>2. c + u = p \/ (~ fin /\ (u # z \/ n + x = lim))
        BY <1>2, <1>4, <1>8, <1>13, <1>17, <1>19, <3>1
      <4>3. u # z => n + x = lim
        <5>1. u # z => s # z + 1
          BY <1>10, <1>16, <4>1
        <5> QED BY <2>3, <3>1, <3>3, <5>1
      <4> QED BY <2>2, <4>1, <4>2, <4>3
    <3> QED BY <3>2, <3>3
  <2> HIDE DEF Damaged
  <2> QED BY <2>6, <2>8, <2>9 DEF Judges
<1> QED BY <1>4, <1>16, <1>17, <1>20, <1>21, <1>22, <1>23

(* What is the same after a call of the coder.                             *)
Block(m, l) ==
  /\ m.inPreSize = l.inPreSize /\ m.outPreSize = l.outPreSize /\ m.size = l.size
  /\ m.state = l.state /\ m.start = l.start /\ m.needCode = l.needCode
  /\ (Refused(m) <=> Refused(l))

(* What the Code callback stores.                                          *)
LEMMA CodeStores ==
  ASSUME Shape, Control, NEW t \in Threads, CodeFails(t) \/ CodeLink(t) \/ CodeUnprepared(t)
  PROVE  LET l == th[t].l
             m == th'[t].l
             k == Coded(t)
         IN  /\ Block(m, l) /\ th'[t].inBuf = th[t].inBuf /\ pc[t] = "code"
             /\ pc'[t] \in {"code", "wait_write"} /\ rd' = rd /\ input' = input
             /\ \/ /\ l.prepared /\ m.outBuf = k.buf /\ m.inCodeSize = k.pos
                   /\ m.link = l.link + 1 /\ (m.codeRes = OK => k.ok)
                   /\ (pc'[t] = "code" => k.ok /\ k.fits /\ ~ k.stop)
                \/ Unused(m, l) /\ pc'[t] = "wait_write" /\ (m.codeRes = OK => l.codeRes = OK)
<1> DEFINE l == th[t].l
           k == Coded(t)
           e == AfterCode(l, k)
<1>1. pc[t] = "code" /\ Working(t) /\ rd' = rd /\ input' = input
  BY DEF CodeFails, CodeLink, CodeUnprepared, Working, caller
<1>2. ThreadOK(th[t]) /\ LocalOK(l) /\ t \in DOMAIN th /\ t \in DOMAIN pc
  BY <1>1 DEF Control, Good, ThreadOK, Shape
<1>3. ASSUME NEW m, th' = [th EXCEPT ![t].l = m]
      PROVE  th'[t].l = m /\ th'[t].inBuf = th[t].inBuf
  BY <1>2, <1>3 DEF ThreadOK
<1>4. /\ Block(e, l) /\ e.outBuf = k.buf /\ e.inCodeSize = k.pos /\ e.link = l.link + 1
      /\ DOMAIN e = DOMAIN l
  BY <1>2 DEF AfterCode, LocalOK, Block, Refused
<1>d. DOMAIN e = {"blockIndex", "res", "codeRes", "wasInterrupted", "finish", "needCode",
                  "needWrite", "isAllocError", "overflow", "threadingError", "start", "size",
                  "checked", "links", "last", "link", "next", "state", "inPreSize",
                  "outPreSize", "prepared", "inCodeSize", "outBuf", "coderRes"}
  BY <1>2, <1>4 DEF LocalOK
<1> HIDE DEF e
<1> DEFINE Same(m) == /\ Block(m, l) /\ m.outBuf = e.outBuf /\ m.inCodeSize = e.inCodeSize
                      /\ m.link = e.link
<1>5. ASSUME NEW m, th' = [th EXCEPT ![t].l = m], Same(m), l.prepared, m.codeRes = OK => k.ok,
             pc'[t] \in {"code", "wait_write"}, pc'[t] = "code" => k.ok /\ k.fits /\ ~ k.stop
      PROVE  /\ Block(th'[t].l, l) /\ th'[t].inBuf = th[t].inBuf
             /\ pc'[t] \in {"code", "wait_write"} /\ l.prepared
             /\ th'[t].l.outBuf = k.buf /\ th'[t].l.inCodeSize = k.pos
             /\ th'[t].l.link = l.link + 1 /\ (th'[t].l.codeRes = OK => k.ok)
             /\ (pc'[t] = "code" => k.ok /\ k.fits /\ ~ k.stop)
  <2>1. th'[t].l = m /\ th'[t].inBuf = th[t].inBuf
    BY <1>3, <1>5
  <2> QED BY <1>4, <1>5, <2>1
<1>6. CASE CodeFails(t)
  <2>0. PICK x, y : x = (IF k.ok THEN "FAIL" ELSE "DATA") /\ y = (IF k.ok THEN OK ELSE "DATA")
    OBVIOUS
  <2>1. /\ th' = [th EXCEPT ![t].l = [e EXCEPT !.codeRes = x, !.coderRes = y]]
        /\ x # OK
    BY <1>6, <2>0 DEF CodeFails, SetLocals, e, OK
  <2> DEFINE m == [e EXCEPT !.codeRes = x, !.coderRes = y]
  <2>2. Same(m) /\ m.codeRes = x
    BY <1>d, <1>4 DEF Block, Refused
  <2>3. th' = [th EXCEPT ![t].l = m]
    BY <2>1
  <2>4. pc'[t] = "wait_write" /\ l.prepared
    BY <1>2, <1>6 DEF CodeFails
  <2> HIDE DEF m, k, Same
  <2> QED BY <1>1, <1>5, <2>1, <2>2, <2>3, <2>4 DEF k
<1>7. CASE CodeLink(t)
  <2>0. l.prepared /\ k.ok /\ k.fits
    BY <1>7 DEF CodeLink
  <2>1. CASE k.stop /\ th' = [th EXCEPT ![t].l = e] /\ pc' = [pc EXCEPT ![t] = "wait_write"]
    <3>1. pc'[t] = "wait_write" /\ Same(e)
      BY <1>2, <1>4, <2>1
    <3> HIDE DEF k, Same
    <3> QED BY <1>1, <1>5, <2>0, <2>1, <3>1 DEF k
  <2>2. CASE ~ k.stop
    <3>1. PICK x, y, z : /\ th' = [th EXCEPT ![t].l = [e EXCEPT !.res = x, !.wasInterrupted = y]]
                         /\ pc' = [pc EXCEPT ![t] = z] /\ z \in {"code", "wait_write"}
      BY <1>7, <2>2 DEF CodeLink, SetLocals, e
    <3> DEFINE m == [e EXCEPT !.res = x, !.wasInterrupted = y]
    <3>2. Same(m)
      BY <1>d, <1>4 DEF Block, Refused
    <3>3. th' = [th EXCEPT ![t].l = m]
      BY <3>1
    <3>4. pc'[t] \in {"code", "wait_write"}
      BY <1>2, <3>1
    <3> HIDE DEF m, k, Same
    <3> QED BY <1>1, <1>5, <2>0, <2>2, <3>2, <3>3, <3>4 DEF k
  <2> QED BY <1>7, <2>1, <2>2 DEF CodeLink, SetLocals, e
<1>8. CASE CodeUnprepared(t)
  <2> DEFINE n == [l EXCEPT !.codeRes = "DATA", !.coderRes = "DATA"]
  <2>1. pc'[t] = "wait_write"
    BY <1>2, <1>8 DEF CodeUnprepared
  <2>2. th' = [th EXCEPT ![t].l = n] \/ th' = th
    BY <1>8 DEF CodeUnprepared, SetLocals
  <2>3. Unused(n, l) /\ Block(n, l) /\ n.codeRes # OK
    BY <1>2 DEF LocalOK, Unused, Block, Refused, OK
  <2> HIDE DEF n
  <2>4. CASE th' = th
    BY <1>1, <2>1, <2>4 DEF Unused, Block
  <2>5. CASE th' = [th EXCEPT ![t].l = n]
    <3>1. th'[t].l = n /\ th'[t].inBuf = th[t].inBuf
      BY <1>3, <2>5
    <3> QED BY <1>1, <2>1, <2>3, <3>1
  <2> QED BY <2>2, <2>4, <2>5
<1> QED BY <1>6, <1>7, <1>8

(* Decoding goes on with the text of the block.                            *)
LEMMA CodeWorded ==
  ASSUME Shape, Control, NEW t \in Threads, Clean(t), NEW a \in Nat, NEW b, HasBlock(t, a, b),
         IsSeq(th[t].l.outBuf), Worded(t), CodeFails(t) \/ CodeLink(t) \/ CodeUnprepared(t)
  PROVE  Worded(t)' /\ rd' = rd
<1>1. PICK l, m, k : l = th[t].l /\ m = th'[t].l /\ k = Coded(t)
  OBVIOUS
<1>2. /\ Block(m, l) /\ th'[t].inBuf = th[t].inBuf /\ pc[t] = "code"
      /\ pc'[t] \in {"code", "wait_write"} /\ rd' = rd /\ input' = input
      /\ \/ /\ m.outBuf = k.buf /\ m.inCodeSize = k.pos
            /\ m.link = l.link + 1 /\ (m.codeRes = OK => k.ok)
            /\ (pc'[t] = "code" => k.ok /\ k.fits /\ ~ k.stop)
         \/ Unused(m, l) /\ pc'[t] = "wait_write" /\ (m.codeRes = OK => l.codeRes = OK)
  BY <1>1, CodeStores
<1>3. /\ ThreadOK(th[t]) /\ LocalOK(l) /\ InputOK /\ RdOK
  BY <1>1 DEF Control, Good, ThreadOK
<1>4. ~ InBlock(t) /\ ~ InBlock(t)'
  BY <1>2 DEF InBlock
<1>5. SUFFICES ASSUME m.inPreSize > 0, m.needCode, ~ Refused(m) PROVE Fits(t, Start(t))'
  BY <1>1, <1>2, <1>4 DEF Worded, BlockText
<1>6. l.inPreSize > 0 /\ l.needCode /\ ~ Refused(l)
  BY <1>2, <1>5 DEF Block
<1>7. Start(t) = a
  BY <1>1, <1>3, <1>4, <1>6, StartIs
<1>8. Start(t)' = a
  BY <1>2, <1>7 DEF Start
<1>9. Fits(t, a)
  BY <1>1, <1>4, <1>6, <1>7 DEF Worded, BlockText
<1>s. SUFFICES Fits(t, a)'
  BY <1>8
<1>10. ASSUME NEW c \in 0 .. l.inPreSize, Coming(t, a, c)' PROVE Fits(t, a)'
  <2>1. InSize(Outputs(a) + m.outPreSize)'
    BY <1>1, <1>2, <1>9, TextStays DEF Fits, Block
  <2> QED BY <1>1, <1>2, <1>9, <1>10, <2>1 DEF Fits, Block
<1>11. CASE /\ m.outBuf = k.buf /\ m.inCodeSize = k.pos
            /\ m.link = l.link + 1 /\ (m.codeRes = OK => k.ok)
            /\ (pc'[t] = "code" => k.ok /\ k.fits /\ ~ k.stop)
  <2>1. a + l.size <= Len(input.bytes) /\ Holds(th[t].inBuf, a, l.start, l.size)
    <3>1. PICK x, y, z : x = a + l.size /\ y = rd.pos /\ z = Len(input.bytes)
      OBVIOUS
    <3>2. l.size \in Int /\ x \in Int /\ y \in 0 .. z /\ z \in Int
      BY <1>3, <3>1 DEF LocalOK, RdOK, InputOK, Streams
    <3>3. x <= y /\ Holds(th[t].inBuf, a, l.start, l.size)
      BY <1>1, <3>1 DEF HasBlock, Sized
    <3>4. x <= z
      BY <3>2, <3>3
    <3> QED BY <3>1, <3>3, <3>4
  <2>2. PICK c \in 0 .. l.inPreSize :
           /\ TextTo(k.buf, a, a + c) /\ Len(k.buf) <= l.outPreSize
           /\ k.ok /\ l.state # "MARK" => c = k.pos
           /\ k.ok /\ k.fits /\ ~ k.stop => /\ c = k.pos /\ c < l.inPreSize
                                             /\ c = l.start + Lk(l.link + 1)
    BY <1>1, <1>2, <1>3, <1>6, <1>9, <2>1, CodedText
  <2>3. TextTo(m.outBuf, a, a + c)'
    BY <1>1, <1>2, <1>11, <2>2, TextStays
  <2>4. pc'[t] = "code" => m.link \in Nat \ {0} /\ m.link # 1
    <3>1. l.link \in Nat \ {0}
      BY <1>1, <1>2, <1>9 DEF Fits, Coming
    <3>2. PICK x : x = l.link
      OBVIOUS
    <3>3. x + 1 \in Nat \ {0} /\ x + 1 # 1
      BY <3>1, <3>2
    <3> QED BY <1>11, <3>2, <3>3
  <2>5. Coming(t, a, c)'
    BY <1>1, <1>2, <1>11, <2>2, <2>3, <2>4 DEF Coming, Block
  <2> QED BY <1>10, <2>5
<1>12. CASE Unused(m, l) /\ pc'[t] = "wait_write" /\ (m.codeRes = OK => l.codeRes = OK)
  <2>1. PICK c \in 0 .. l.inPreSize : Coming(t, a, c)
    BY <1>1, <1>9 DEF Fits
  <2>2. TextTo(m.outBuf, a, a + c)'
    BY <1>1, <1>2, <1>12, <2>1, TextStays DEF Coming, Unused
  <2>3. Coming(t, a, c)'
    BY <1>1, <1>2, <1>12, <2>1, <2>2 DEF Coming, Unused, Block
  <2> QED BY <1>10, <2>1, <2>3
<1> QED BY <1>2, <1>11, <1>12

(* A step of a thread that has a block goes on with its text.              *)
LEMMA StepWorded ==
  ASSUME Shape, Control, NEW w \in 0 .. MaxThreads, NEW n \in 0 .. MaxThreads, Round(w, n),
         NEW B, Placed(n, B), NEW t \in Threads, Thread(t),
         ~ WaitRead(t), ~ Write(t), InSize(rd.outParsed), Worded(t), Clean(t)
  PROVE  /\ Worded(t)' /\ InSize(rd.outParsed)'
         /\ rd'.outParsed = rd.outParsed \/ Reading(t)
<1>1. CASE InBlock(t)
  <2>1. PICK a : a = B[bi(t)] /\ Looking(t, a)
    BY <1>1, LookingIs
  <2>2. \/ ReadNoLink(t) \/ ReadCross(t) \/ ReadLink(t) \/ ParseOverflow(t) \/ ParseContinue(t)
        \/ ParseEnd(t) \/ ParseNew(t)
    BY <1>1 DEF Thread, InBlock, PreCode, StartNext, StartNone, CodeFails, CodeLink,
                CodeUnprepared
  <2>3. input' = input /\ Reading(t)
    <3>1. Others(t)
      BY ThreadOthers
    <3> QED BY <1>1, <3>1 DEF Others, InBlock, Reading
  <2>4. CASE ReadNoLink(t) \/ ReadCross(t)
    <3>1. Worded(t)' /\ rd' = rd
      BY <2>1, <2>4, ReadNoLinkWorded, ReadCrossWorded
    <3> QED BY <2>3, <3>1, TextStays
  <2>5. CASE ReadLink(t)
    <3>1. Worded(t)' /\ rd'.outParsed = rd.outParsed
      BY <2>1, <2>5, ReadLinkWorded
    <3> QED BY <2>3, <3>1, TextStays
  <2>6. CASE ParseOverflow(t) \/ ParseContinue(t) \/ ParseEnd(t) \/ ParseNew(t)
    BY <2>1, <2>3, <2>6, ParseWorded
  <2> QED BY <2>2, <2>4, <2>5, <2>6
<1>2. CASE ~ InBlock(t)
  <2>1. \/ PreCode(t) \/ StartNext(t) \/ StartNone(t)
        \/ CodeFails(t) \/ CodeLink(t) \/ CodeUnprepared(t)
    BY <1>2 DEF Thread, InBlock, ReadNoLink, ReadCross, ReadLink, ParseOverflow, ParseContinue,
                ParseEnd, ParseNew
  <2>2. Working(t) /\ input' = input
    BY <2>1 DEF Working, Reading, PreCode, StartNext, StartNone, CodeFails, CodeLink,
                CodeUnprepared, caller
  <2>3. HasPlace(t, B) /\ bi(t) \in Nat /\ B \in [Nat -> Nat]
    BY <2>2, InRound DEF Placed, Places
  <2>4. PICK a, b : a = B[bi(t)] /\ b = B[bi(t) + 1]
    OBVIOUS
  <2>5. a \in Nat /\ HasBlock(t, a, b) /\ IsSeq(th[t].l.outBuf)
    BY <1>2, <2>3, <2>4 DEF HasPlace
  <2>6. Worded(t)' /\ rd'.outParsed = rd.outParsed
    <3>1. CASE PreCode(t)
      <4>1. Worded(t)'
        BY <2>5, <3>1, PreCodeWorded
      <4> QED BY <3>1, <4>1 DEF PreCode
    <3>2. CASE StartNext(t) \/ StartNone(t)
      BY <2>5, <3>2, StartWorded
    <3>3. CASE CodeFails(t) \/ CodeLink(t) \/ CodeUnprepared(t)
      BY <2>5, <3>3, CodeWorded
    <3> QED BY <2>1, <3>1, <3>2, <3>3
  <2> QED BY <2>2, <2>6, TextStays
<1> QED BY <1>1, <1>2

(* A thread that takes the next block has read nothing of it.              *)
LEMMA WaitReadWorded ==
  ASSUME Shape, RdOK, NEW t \in Threads, WaitRead(t)
  PROVE  (Working(t)' => Worded(t)') /\ rd'.outParsed = rd.outParsed /\ input' = input
         /\ wr' = wr /\ out' = out
<1>1. input' = input /\ wr' = wr /\ out' = out /\ t \in DOMAIN pc
      /\ t \in DOMAIN th /\ {"l"} \subseteq DOMAIN th[t]
  BY DEF WaitRead, caller, Shape, IsThread
<1>2. CASE exitThread /\ pc' = [pc EXCEPT ![t] = "none"] /\ rd' = rd
  <2>1. ~ Working(t)'
    BY <1>1, <1>2 DEF Working, Reading
  <2> QED BY <1>1, <1>2, <2>1
<1>3. CASE ~ exitThread
  <2>1. rd' = [rd EXCEPT !.blockIndex = @ + 1]
    BY <1>3 DEF WaitRead
  <2>2. PICK r : SetLocals(t, [Fresh EXCEPT !.blockIndex = rd.blockIndex, !.res = r,
                                            !.wasInterrupted = InterruptedBefore(rd.blockIndex),
                                            !.finish = rd.finished])
    BY <1>3 DEF WaitRead
  <2>3. th'[t].l.inPreSize = 0
    BY <1>1, <2>2 DEF Fresh, SetLocals
  <2>4. Worded(t)'
    BY <2>3 DEF Worded
  <2> QED BY <1>1, <2>1, <2>4 DEF RdOK
<1> QED BY <1>2, <1>3 DEF WaitRead

(* The threads' blocks are of the input after every step but a writer's.   *)
LEMMA ThreadWorded ==
  ASSUME Shape, Control, Untouched, NEW t \in Threads, Thread(t), ~ Write(t),
         WaitRead(t) \/ \E w, n \in 0 .. MaxThreads : InPlace(w, n),
         InSize(rd.outParsed), \A u \in Threads : Working(u) => Worded(u)
  PROVE  /\ InSize(rd.outParsed)' /\ (\A u \in Threads : Working(u) => Worded(u))'
         /\ wr' = wr /\ out' = out
<1>1. Others(t) /\ input' = input /\ RdOK
  BY ThreadOthers DEF Others, Control
<1>2. wr' = wr /\ out' = out
  BY DEF Thread, WaitRead, ReadNoLink, ReadCross, ReadLink, ParseOverflow, ParseContinue,
                ParseEnd, ParseNew, PreCode, StoreParsed, StartNext, StartNone, CodeFails,
                CodeLink, CodeUnprepared
<1>3. /\ Working(t)' => Worded(t)'
      /\ InSize(rd.outParsed)'
      /\ rd'.outParsed = rd.outParsed \/ \A u \in Threads : u # t /\ Working(u) => ~ InBlock(u)
  <2>1. CASE WaitRead(t)
    BY <1>1, <2>1, WaitReadWorded, TextStays
  <2>2. CASE ~ WaitRead(t)
    <3>1. PICK w, n \in 0 .. MaxThreads : InPlace(w, n)
      BY <2>2
    <3>2. PICK B : Round(w, n) /\ Placed(n, B)
      BY <3>1 DEF InPlace
    <3>3. Working(t) /\ Clean(t)
      BY <2>2 DEF Thread, Working, Reading, ReadNoLink, ReadCross, ReadLink, ParseOverflow,
                ParseContinue, ParseEnd, ParseNew, PreCode, StartNext, StartNone, CodeFails,
                CodeLink, CodeUnprepared, Untouched
    <3>4. /\ Worded(t)' /\ InSize(rd.outParsed)'
          /\ rd'.outParsed = rd.outParsed \/ Reading(t)
      BY <2>2, <3>2, <3>3, StepWorded
    <3>5. Reading(t) => \A u \in Threads : Working(u) /\ u # t => ~ InBlock(u)
      BY <3>2, BlockIsLast
    <3> QED BY <3>4, <3>5
  <2> QED BY <2>1, <2>2
<1>4. ASSUME NEW u \in Threads, u # t, Working(u)' PROVE Worded(u)'
  <2>1. th'[u] = th[u] /\ pc'[u] = pc[u] /\ Working(u)
    BY <1>1, <1>4 DEF Others, Working, Reading
  <2>2. InBlock(u) => rd'.outParsed = rd.outParsed
    BY <1>3, <1>4, <2>1
  <2> QED BY <1>1, <2>1, <2>2, WordedStays
<1>5. ASSUME NEW u \in Threads, Working(u)' PROVE Worded(u)'
  BY <1>3, <1>4, <1>5
<1> QED BY <1>2, <1>3, <1>5

-----------------------------------------------------------------------------
(* What the stream may get: the first of what the input decodes to, within *)
(* the size asked for.  Either e as a whole may follow on what was         *)
(* written, or what the stream takes of it.                                *)
Tells(b) == IsSeq(b) /\ Texts(b, 0) /\ InSize(Len(b))
Adds(e) == Tells(out.bytes \o e) /\ \A k \in 0 .. Len(e) : Tells(out.bytes \o FirstBytes(e, k))

(* It may, when it is what the input decodes to from where the written     *)
(* blocks end; and then that is where e ends.                              *)
LEMMA AddsText ==
  ASSUME InputOK, NEW a \in Nat, TextAt(a), NEW x \in Nat, NEW e, TextTo(e, a, x),
         InSize(Outputs(a) + Len(e))
  PROVE  /\ Adds(e) /\ TextTo(out.bytes \o e, 0, x)
         /\ Outputs(x) = Outputs(a) + Len(e) /\ InSize(Outputs(x))
<1>1. /\ TextTo(out.bytes, 0, a) /\ IsSeq(out.bytes) /\ IsSeq(e) /\ Len(e) \in Nat
      /\ Len(out.bytes) \in Nat /\ Outputs(x) = Outputs(a) + Len(e)
  BY DEF TextAt, TextTo
<1>2. Outputs(0) = 0 /\ Outputs(a) \in Nat /\ Outputs(a) = Outputs(0) + Len(out.bytes)
  BY <1>1, FS_EmptySet, OutputsNext DEF Outputs, TextTo
<1>3. Len(out.bytes) = Outputs(a)
  BY <1>1, <1>2
<1>4. ASSUME NEW f, IsSeq(f), Texts(f, a), Len(f) <= Len(e) PROVE Tells(out.bytes \o f)
  <2>1. Texts(out.bytes \o f, 0)
    BY <1>1, <1>4, TextsJoin
  <2>2. IsSeq(out.bytes \o f) /\ Len(out.bytes \o f) = Outputs(a) + Len(f) /\ Len(f) \in Nat
    BY <1>1, <1>3, <1>4, SeqItems
  <2>3. InSize(Outputs(a) + Len(f))
    <3>1. PICK s, h, g, o : s = input.outSize /\ h = Len(f) /\ g = Len(e) /\ o = Outputs(a)
      OBVIOUS
    <3>2. s \in Nat \cup {NoSize} /\ (s # NoSize => o + g <= s)
      BY <3>1 DEF InputOK, InSize
    <3>3. h \in Nat /\ g \in Nat /\ o \in Nat /\ h <= g
      BY <1>1, <1>2, <1>4, <2>2, <3>1
    <3>4. s # NoSize => o + h <= s
      BY <3>2, <3>3
    <3> QED BY <3>1, <3>4 DEF InSize
  <2> QED BY <2>1, <2>2, <2>3 DEF Tells
<1>5. Texts(e, a) /\ Tells(out.bytes \o e)
  BY <1>1, <1>4 DEF TextTo
<1>6. ASSUME NEW k \in 0 .. Len(e) PROVE Tells(out.bytes \o FirstBytes(e, k))
  <2>1. PICK f : f = FirstBytes(e, k)
    OBVIOUS
  <2>2. IsSeq(f) /\ Len(f) = k /\ \A n \in 1 .. k : f[n] = e[n]
    BY <1>1, <2>1, SeqItems
  <2>3. Texts(f, a)
    BY <1>1, <1>5, <2>2 DEF Texts
  <2>4. Len(f) <= Len(e)
    BY <1>1, <2>2
  <2> QED BY <1>4, <2>1, <2>2, <2>3, <2>4
<1>7. TextTo(out.bytes \o e, 0, x)
  BY <1>1, TextJoins
<1>8. InSize(Outputs(x))
  BY <1>1
<1> QED BY <1>1, <1>5, <1>6, <1>7, <1>8 DEF Adds

(* Nothing may always follow.                                              *)
LEMMA AddsNothing ==
  ASSUME Told, NEW e, e = << >>
  PROVE  Adds(e) /\ out.bytes \o e = out.bytes
<1>1. PICK S : out.bytes \in Seq(S)
  BY DEF Told, IsSeq
<1>2. out.bytes \o << >> = out.bytes
  BY <1>1
<1>3. \A k \in 0 .. Len(e) : FirstBytes(e, k) = << >>
  BY DEF FirstBytes
<1> QED BY <1>2, <1>3 DEF Told, Adds, Tells

(* What was decoded of the oldest block is what the stream may get.        *)
LEMMA BlockAdds ==
  ASSUME Shape, Control, Told, NEW w \in 0 .. MaxThreads, NEW n \in 0 .. MaxThreads,
         Round(w, n), NEW B, Placed(n, B), NEW t \in Threads, pc[t] = "wait_write", canWrite[t],
         Worded(t), Clean(t), TextAt(wr.inProcessed),
         NEW l, l = th[t].l, l.needCode, ~ Refused(l)
  PROVE  /\ Adds(l.outBuf)
         /\ \/ l.inPreSize = 0 /\ l.outBuf = << >> /\ l.inCodeSize = 0
            \/ /\ l.size = l.inPreSize /\ l.inPreSize > 0
               /\ \E c \in 0 .. l.inPreSize :
                    /\ Coming(t, wr.inProcessed, c)
                    /\ TextTo(out.bytes \o l.outBuf, 0, wr.inProcessed + c)
                    /\ InSize(Outputs(wr.inProcessed + c))
<1>1. t = w /\ Working(t) /\ ~ InBlock(t) /\ LocalOK(l) /\ RdOK /\ InputOK
  BY DEF Round, Working, InBlock, Control, Good, ThreadOK
<1>2. /\ bi(t) = rd.blockIndex - n /\ bi(t) \in Nat /\ bi(t) + 1 \in Nat
      /\ HasPlace(t, B) /\ B \in [Nat -> Nat] /\ Written(B[rd.blockIndex - n])
  BY <1>1, InRound DEF Placed, Places
<1>3. PICK a, b : a = B[bi(t)] /\ b = B[bi(t) + 1]
  OBVIOUS
<1>4. a \in Nat /\ HasBlock(t, a, b) /\ Written(a) /\ IsSeq(l.outBuf)
  BY <1>1, <1>2, <1>3 DEF HasPlace
<1>5. CASE l.inPreSize = 0
  <2>1. Blank(l)
    BY <1>5 DEF Clean
  <2> QED BY <1>5, <2>1, AddsNothing DEF Blank
<1>6. CASE l.inPreSize # 0
  <2>1. l.inPreSize > 0 /\ l.inPreSize \in Nat
    BY <1>1, <1>6 DEF LocalOK
  <2>2. Start(t) = a
    BY <1>1, <1>4, <2>1, StartIs
  <2>3. Fits(t, a)
    BY <1>1, <2>1, <2>2 DEF Worded, BlockText
  <2>4. l.size = l.inPreSize /\ InSize(Outputs(a) + l.outPreSize) /\ l.outPreSize \in Nat
    BY <1>1, <2>3 DEF Fits, LocalOK
  <2>5. a = wr.inProcessed
    <3>1. PICK y, s : y = rd.pos /\ s = l.size
      OBVIOUS
    <3>2. a + s <= y /\ s > 0 /\ s \in Nat
      BY <1>4, <2>1, <2>4, <3>1 DEF HasBlock, Sized
    <3>3. y \in Int
      BY <1>1, <3>1 DEF RdOK, InputOK, Streams
    <3>4. a # y
      BY <1>4, <3>2, <3>3
    <3> QED BY <1>4, <3>1, <3>4 DEF Written, Drained
  <2>6. PICK c \in 0 .. l.inPreSize : Coming(t, a, c)
    BY <2>3 DEF Fits
  <2>7. TextTo(l.outBuf, a, a + c) /\ Len(l.outBuf) <= l.outPreSize /\ a + c \in Nat
    BY <1>4, <2>1, <2>6 DEF Coming
  <2>8. InSize(Outputs(a) + Len(l.outBuf))
    <3>1. PICK s, h, g, o : /\ s = input.outSize /\ h = Len(l.outBuf) /\ g = l.outPreSize
                            /\ o = Outputs(a)
      OBVIOUS
    <3>2. s \in Nat \cup {NoSize} /\ (s # NoSize => o + g <= s)
      BY <1>1, <2>4, <3>1 DEF InputOK, InSize
    <3>3. h \in Nat /\ g \in Nat /\ o \in Nat /\ h <= g
      BY <1>4, <2>4, <2>7, <3>1, OutputsNext DEF TextTo
    <3>4. s # NoSize => o + h <= s
      BY <3>2, <3>3
    <3> QED BY <3>1, <3>4 DEF InSize
  <2>9. /\ Adds(l.outBuf) /\ TextTo(out.bytes \o l.outBuf, 0, a + c)
        /\ InSize(Outputs(a + c))
    BY <1>1, <1>4, <2>5, <2>7, <2>8, AddsText
  <2> QED BY <2>1, <2>4, <2>5, <2>6, <2>9
<1> QED BY <1>5, <1>6

(* The Write callback gives the stream what the block decoded to, or its   *)
(* beginning, when the block is not to be left to the other decoder.       *)
LEMMA WriteGets ==
  ASSUME NEW l, NEW toStream \in BOOLEAN, NEW cb \in WriteResults(l, toStream)
  PROVE  \/ cb.out.bytes = out.bytes
         \/ /\ toStream
            /\ \/ cb.out.bytes = out.bytes \o l.outBuf
               \/ \E k \in 0 .. Len(l.outBuf) - 1 :
                    cb.out.bytes = out.bytes \o FirstBytes(l.outBuf, k)
<1> DEFINE wrote(res, bytes, cont) ==
             [res |-> res, cont |-> cont, recode |-> FALSE, used |-> l.inCodeSize,
              out |-> [bytes |-> out.bytes \o bytes, failed |-> out.failed \/ res # OK]]
<1>1. \/ cb = Kept(l.res, ~ l.finish) \/ cb = Kept(OK, FALSE)
      \/ cb = [Kept("FAIL", FALSE) EXCEPT !.used = l.inCodeSize]
      \/ toStream /\ cb = wrote(OK, l.outBuf, l.state \in {"CONTINUE", "NEW"})
      \/ toStream /\ \E k \in 0 .. Len(l.outBuf) - 1 :
                       cb = wrote("WRITE", FirstBytes(l.outBuf, k), FALSE)
  <2>1. CASE ~ l.needWrite
    BY <2>1 DEF WriteResults
  <2>2. CASE l.needWrite /\ ~ toStream
    BY <2>2 DEF WriteResults
  <2>3. CASE l.needWrite /\ toStream /\ Fails("write")
    BY <2>3 DEF WriteResults
  <2>4. CASE l.needWrite /\ toStream /\ ~ Fails("write")
    BY <2>4 DEF WriteResults
  <2> QED BY <2>1, <2>2, <2>3, <2>4
<1>2. ASSUME NEW res, NEW cont, cb = Kept(res, cont) PROVE cb.out = out
  BY <1>2 DEF Kept
<1>3. ASSUME cb = [Kept("FAIL", FALSE) EXCEPT !.used = l.inCodeSize] PROVE cb.out = out
  BY <1>3 DEF Kept
<1>4. ASSUME NEW res, NEW bytes, NEW cont, cb = wrote(res, bytes, cont)
      PROVE  cb.out.bytes = out.bytes \o bytes
  BY <1>4
<1> HIDE DEF wrote
<1>5. CASE toStream /\ cb = wrote(OK, l.outBuf, l.state \in {"CONTINUE", "NEW"})
  BY <1>4, <1>5
<1>6. CASE toStream /\ \E k \in 0 .. Len(l.outBuf) - 1 :
                         cb = wrote("WRITE", FirstBytes(l.outBuf, k), FALSE)
  <2>1. PICK k \in 0 .. Len(l.outBuf) - 1 : cb = wrote("WRITE", FirstBytes(l.outBuf, k), FALSE)
    BY <1>6
  <2>2. cb.out.bytes = out.bytes \o FirstBytes(l.outBuf, k)
    BY <1>4, <2>1
  <2> QED BY <1>6, <2>2
<1>7. cb = Kept(l.res, ~ l.finish) \/ cb = Kept(OK, FALSE) => cb.out = out
  BY <1>2
<1> QED BY <1>1, <1>3, <1>5, <1>6, <1>7

(* While MtDec_Code runs: no coder that was not called has output, and as  *)
(* long as the call goes on, the blocks are of the input, what was parsed  *)
(* fits into the output, and what was written is what the input decodes    *)
(* to up to wr.inProcessed, unless that was all.                           *)
RunText ==
  mainPc = "run" =>
    /\ Untouched
    /\ Continues => /\ InSize(rd.outParsed) /\ \A t \in Threads : Working(t) => Worded(t)
                    /\ TextAt(wr.inProcessed) \/ (Ending /\ ~ NeedContinue)

(* The round in which a thread writes.                                     *)
LEMMA WriterIn ==
  ASSUME Inv, RunKept, RunText, NEW t \in Threads, Write(t), Continues
  PROVE  /\ mainPc = "run" /\ TextAt(wr.inProcessed)
         /\ \E w, n \in 0 .. MaxThreads : InPlace(w, n)
<1>1. Shape /\ Tokens /\ canWrite[t] /\ pc[t] = "wait_write"
  BY DEF Inv, Write
<1>2. Working(t) /\ ~ Ending
  BY <1>1 DEF Working, Ending
<1>3. mainPc = "run"
  BY <1>1, <1>2, WorksInRound
<1> QED BY <1>2, <1>3 DEF RunKept, RunText, AtEnd

(* What a writer gives the stream is what the input decodes to.            *)
LEMMA WriteTold ==
  ASSUME Inv, RunKept, RunText, Told, NEW t \in Threads, Write(t)
  PROVE  Told'
<1> DEFINE l == th[t].l
           was == l.wasInterrupted \/ wr.interrupted
           wants == l.needWrite /\ (wr.interrupted \/ ~ LeftToOther(l))
           res(r) == IF l.needCode THEN r ELSE l.res
           m(r) == [l EXCEPT !.res = res(r)]
           toStream(r) == res(r) = OK /\ wants /\ ~ was
<1>1. /\ pc[t] = "wait_write" /\ canWrite[t] /\ input' = input /\ Shape /\ Tokens /\ Control
      /\ Working(t) /\ LocalOK(l)
  BY DEF Write, caller, Inv, Working, Control, Good, ThreadOK
<1>2. mainPc = "run" /\ Clean(t)
  BY <1>1, WorksInRound DEF RunText, Untouched
<1>3. SUFFICES Tells(out'.bytes)
  BY <1>1, TextStays DEF Tells, Told
<1>4. PICK r \in IF l.needCode THEN ProgressResults ELSE {sync.res} :
        \E cb \in WriteResults(m(r), toStream(r)) : out' = cb.out
  BY DEF Write
<1>5. PICK cb \in WriteResults(m(r), toStream(r)) : out' = cb.out
  BY <1>4
<1>6. m(r).outBuf = l.outBuf
  BY <1>1 DEF LocalOK
<1>b. toStream(r) \in BOOLEAN
  OBVIOUS
<1>7. ASSUME Adds(l.outBuf),
             \/ out'.bytes = out.bytes \o l.outBuf
             \/ \E k \in 0 .. Len(l.outBuf) - 1 : out'.bytes = out.bytes \o FirstBytes(l.outBuf, k)
      PROVE  Tells(out'.bytes)
  <2> HIDE DEF l
  <2>1. CASE out'.bytes = out.bytes \o l.outBuf
    BY <1>7, <2>1 DEF Adds
  <2>2. CASE \E k \in 0 .. Len(l.outBuf) - 1 : out'.bytes = out.bytes \o FirstBytes(l.outBuf, k)
    <3>1. PICK k \in 0 .. Len(l.outBuf) - 1 : out'.bytes = out.bytes \o FirstBytes(l.outBuf, k)
      BY <2>2
    <3>2. k \in 0 .. Len(l.outBuf)
      OBVIOUS
    <3> QED BY <1>7, <3>1, <3>2 DEF Adds
  <2> QED BY <1>7, <2>1, <2>2
<1>8. \/ out'.bytes = out.bytes
      \/ /\ toStream(r)
         /\ \/ out'.bytes = out.bytes \o l.outBuf
            \/ \E k \in 0 .. Len(l.outBuf) - 1 : out'.bytes = out.bytes \o FirstBytes(l.outBuf, k)
  <2> HIDE DEF m, toStream
  <2>1. \/ cb.out.bytes = out.bytes
        \/ /\ toStream(r)
           /\ \/ cb.out.bytes = out.bytes \o m(r).outBuf
              \/ \E k \in 0 .. Len(m(r).outBuf) - 1 :
                   cb.out.bytes = out.bytes \o FirstBytes(m(r).outBuf, k)
    BY <1>b, WriteGets
  <2> HIDE DEF l
  <2> QED BY <1>5, <1>6, <2>1
<1>9. CASE out'.bytes = out.bytes
  BY <1>9 DEF Told, Tells
<1>10. ASSUME toStream(r) PROVE Adds(l.outBuf)
  <2>1. ~ wr.interrupted /\ ~ LeftToOther(l) /\ (l.needCode => r = OK)
    BY <1>10
  <2>2. CASE ~ l.needCode
    <3>1. l.outBuf = << >>
      BY <1>2, <2>2 DEF Clean, Blank
    <3> QED BY <3>1, AddsNothing
  <2>3. CASE l.needCode
    <3>1. Continues
      BY <1>4, <2>1, <2>3 DEF ProgressResults, Continues
    <3>2. TextAt(wr.inProcessed) /\ \E w, n \in 0 .. MaxThreads : InPlace(w, n)
      BY <3>1, WriterIn
    <3>3. PICK w, n \in 0 .. MaxThreads : InPlace(w, n)
      BY <3>2
    <3>4. PICK B : Round(w, n) /\ Placed(n, B)
      BY <3>3 DEF InPlace
    <3>5. Worded(t) /\ ~ Refused(l)
      BY <1>1, <1>2, <2>1, <3>1 DEF RunText, Refused, LeftToOther, NoMemory
    <3> QED BY <1>1, <1>2, <2>3, <3>2, <3>4, <3>5, BlockAdds
  <2> QED BY <2>2, <2>3
<1> HIDE DEF l, toStream
<1> QED BY <1>7, <1>8, <1>9, <1>10

(* When the call goes on, it does so where the written blocks end.         *)
LEMMA WriteWorded ==
  ASSUME Inv, RunKept, RunText, Told, NEW t \in Threads, Write(t), Continues'
  PROVE  /\ InSize(rd.outParsed)' /\ (\A u \in Threads : Working(u) => Worded(u))'
         /\ (TextAt(wr.inProcessed) \/ (Ending /\ ~ NeedContinue))'
<1>1. /\ Shape /\ Tokens /\ Control /\ Blamed /\ pc[t] = "wait_write" /\ canWrite[t] /\ Continues
      /\ rd' = rd /\ input' = input
  BY ContinuesBefore DEF Inv, Thread, Write, caller
<1>2. /\ mainPc = "run" /\ TextAt(wr.inProcessed)
      /\ \E w, n \in 0 .. MaxThreads : InPlace(w, n)
  BY <1>1, WriterIn
<1>3. PICK w, n \in 0 .. MaxThreads : InPlace(w, n)
  BY <1>2
<1>4. PICK B : Round(w, n) /\ Placed(n, B)
  BY <1>3 DEF InPlace
<1>5. PICK l : l = th[t].l
  OBVIOUS
<1>6. /\ Others(t) /\ ~ Working(t)' /\ Working(t) /\ LocalOK(l) /\ Flags(t)
      /\ WroteIt(t) \/ LeftIt(t)
  BY <1>1, <1>2, <1>4, <1>5, WriterHas
<1>7. InSize(rd.outParsed)'
  BY <1>1, <1>2, TextStays DEF RunText
<1>8. ASSUME NEW u \in Threads, Working(u)' PROVE Worded(u)'
  <2>1. th'[u] = th[u] /\ pc'[u] = pc[u] /\ Working(u)
    BY <1>6, <1>8 DEF Others, Working, Reading
  <2>2. Worded(u)
    BY <1>1, <1>2, <2>1 DEF RunText
  <2> QED BY <1>1, <2>1, <2>2, WordedStays
<1>9. PICK x : x = wr.inProcessed
  OBVIOUS
<1>10. x \in Nat /\ TextTo(out.bytes, 0, x) /\ InSize(Outputs(x))
  BY <1>2, <1>9 DEF TextAt
<1>11. ASSUME NEW y \in Nat, wr'.inProcessed = y, TextTo(out'.bytes, 0, y), InSize(Outputs(y))
       PROVE  TextAt(wr.inProcessed)'
  BY <1>1, <1>11, TextStays DEF TextAt
<1>12. CASE LeftIt(t)
  BY <1>7, <1>8, <1>9, <1>10, <1>11, <1>12 DEF LeftIt
<1>13. CASE WroteIt(t)
  <2>1. /\ ~ LeftToOther(l) /\ l.codeRes = OK /\ l.needCode /\ ~ NeedContinue'
        /\ wr'.inProcessed = x + l.inCodeSize /\ out'.bytes = out.bytes \o l.outBuf
    BY <1>5, <1>9, <1>13 DEF WroteIt
  <2>2. Worded(t) /\ Clean(t) /\ ~ Refused(l)
    BY <1>1, <1>2, <1>6, <2>1 DEF RunText, Untouched, Refused, LeftToOther, NoMemory
  <2>3. \/ l.inPreSize = 0 /\ l.outBuf = << >> /\ l.inCodeSize = 0
        \/ \E c \in 0 .. l.inPreSize :
             /\ Coming(t, x, c) /\ TextTo(out.bytes \o l.outBuf, 0, x + c)
             /\ InSize(Outputs(x + c))
    BY <1>1, <1>2, <1>4, <1>5, <1>9, <2>1, <2>2, BlockAdds
  <2>4. CASE l.outBuf = << >> /\ l.inCodeSize = 0
    <3>1. out'.bytes = out.bytes /\ wr'.inProcessed = x
      BY <1>10, <2>1, <2>4, AddsNothing
    <3> QED BY <1>7, <1>8, <1>10, <1>11, <3>1
  <2>5. CASE \E c \in 0 .. l.inPreSize :
               /\ Coming(t, x, c) /\ TextTo(out.bytes \o l.outBuf, 0, x + c)
               /\ InSize(Outputs(x + c))
    <3>1. PICK c \in 0 .. l.inPreSize :
               /\ Coming(t, x, c) /\ TextTo(out.bytes \o l.outBuf, 0, x + c)
               /\ InSize(Outputs(x + c))
      BY <2>5
    <3>2. CASE l.state # "MARK"
      <4>1. c = l.inCodeSize
        BY <1>5, <2>1, <3>1, <3>2 DEF Coming
      <4>2. x + c \in Nat
        BY <1>6, <1>10 DEF LocalOK
      <4> QED BY <1>7, <1>8, <1>11, <2>1, <3>1, <4>1, <4>2
    <3>3. CASE l.state = "MARK"
      <4>1. PICK cont : HandOn(t, cont) /\ (cont <=> l.state \in {"CONTINUE", "NEW"})
        BY <1>5, <1>13 DEF WroteIt
      <4>2. l.finish /\ ~ cont
        BY <1>1, <1>5, <1>6, <3>3, <4>1 DEF Flags
      <4>3. Ending'
        BY <1>1, <1>2, <1>4, <1>5, <4>1, <4>2, WriteKeeps
      <4> QED BY <1>7, <1>8, <2>1, <4>3
    <3> QED BY <3>2, <3>3
  <2> QED BY <2>3, <2>4, <2>5
<1> QED BY <1>6, <1>12, <1>13

(* Every step of MtDec_ThreadFunc2 leaves the stream what the input        *)
(* decodes to, and the blocks of the input.                                *)
LEMMA ThreadText ==
  ASSUME Inv, RunKept, RunText, Told, NEW t \in Threads, Thread(t)
  PROVE  RunText' /\ Told'
<1>1. /\ Shape /\ Tokens /\ Control /\ Tokens'
  BY NextTokens DEF Inv, Next
<1>2. UNCHANGED <<input, mainPc>>
  BY DEF Thread, WaitRead, ReadNoLink, ReadCross, ReadLink, ParseOverflow, ParseContinue,
         ParseEnd, ParseNew, StoreParsed, PreCode, StartNext, StartNone, CodeFails, CodeLink,
         CodeUnprepared, Write, caller
<1>3. ASSUME ~ Write(t) PROVE wr' = wr /\ out' = out
  BY <1>3 DEF Thread, WaitRead, ReadNoLink, ReadCross, ReadLink, ParseOverflow, ParseContinue,
         ParseEnd, ParseNew, StoreParsed, PreCode, StartNext, StartNone, CodeFails, CodeLink,
         CodeUnprepared
<1>4. Told'
  <2>1. CASE Write(t)
    BY <2>1, WriteTold
  <2>2. CASE ~ Write(t)
    BY <1>2, <1>3, <2>2, TextStays DEF Told
  <2> QED BY <2>1, <2>2
<1>5. ASSUME mainPc' = "run" PROVE Untouched'
  BY <1>1, <1>2, <1>5, ThreadUntouched DEF RunText
<1>6. ASSUME mainPc' = "run", Continues'
      PROVE  /\ InSize(rd.outParsed)' /\ (\A u \in Threads : Working(u) => Worded(u))'
             /\ (TextAt(wr.inProcessed) \/ (Ending /\ ~ NeedContinue))'
  <2>1. CASE Write(t)
    BY <1>6, <2>1, WriteWorded
  <2>2. CASE ~ Write(t)
    <3>1. Continues /\ mainPc = "run"
      BY <1>2, <1>6, ContinuesBefore
    <3>2. wr' = wr /\ out' = out /\ (NeedContinue' <=> NeedContinue)
      BY <1>3, <2>2 DEF NeedContinue
    <3>3. /\ Untouched /\ InSize(rd.outParsed) /\ \A u \in Threads : Working(u) => Worded(u)
          /\ TextAt(wr.inProcessed) \/ (Ending /\ ~ NeedContinue)
      BY <3>1 DEF RunText
    <3>4. WaitRead(t) \/ \E w, n \in 0 .. MaxThreads : InPlace(w, n)
      <4>1. CASE ~ WaitRead(t)
        <5>1. \E w, n \in 0 .. MaxThreads : Round(w, n)
          BY <1>1, <4>1, ThreadRuns
        <5>2. ~ Ending
          <6>1. PICK w, n \in 0 .. MaxThreads : Round(w, n)
            BY <5>1
          <6>2. rd.started \in 1 .. MaxThreads /\ MaxThreads \in Nat
            BY <1>1, ThreadZero DEF Shape, IsRd
          <6>3. w \in Threads /\ canWrite[w]
            BY <6>1, <6>2 DEF Round, Threads
          <6> QED BY <6>3 DEF Ending
        <5> QED BY <3>1, <5>2 DEF RunKept, AtEnd
      <4> QED BY <4>1
    <3>5. InSize(rd.outParsed)' /\ (\A u \in Threads : Working(u) => Worded(u))'
      BY <1>1, <2>2, <3>3, <3>4, ThreadWorded
    <3>6. TextAt(wr.inProcessed) => TextAt(wr.inProcessed)'
      BY <1>2, <3>2, TextStays DEF TextAt
    <3>7. CASE TextAt(wr.inProcessed)
      BY <3>5, <3>6, <3>7
    <3>8. CASE Ending /\ ~ NeedContinue
      <4>1. WaitRead(t) /\ exitThread
        <5>1. ASSUME ~ (WaitRead(t) /\ exitThread) PROVE FALSE
          <6>1. \E w, n \in 0 .. MaxThreads : Round(w, n)
            BY <1>1, <5>1, ThreadRuns
          <6>2. PICK w, n \in 0 .. MaxThreads : Round(w, n)
            BY <6>1
          <6>3. rd.started \in 1 .. MaxThreads /\ MaxThreads \in Nat
            BY <1>1, ThreadZero DEF Shape, IsRd
          <6>4. w \in Threads /\ canWrite[w]
            BY <6>2, <6>3 DEF Round, Threads
          <6> QED BY <3>8, <6>4 DEF Ending
        <5> QED BY <5>1
      <4>2. Ending'
        BY <1>1, <1>6, <4>1 DEF WaitRead, Round, Tokens
      <4> QED BY <3>2, <3>5, <3>8, <4>2
    <3> QED BY <3>3, <3>7, <3>8
  <2> QED BY <2>1, <2>2
<1> QED BY <1>4, <1>5, <1>6 DEF RunText

(* In Lzma2Dec_Decode_ST: what was written is what the input decodes to up *)
(* to the byte that is served next, or up to what is being decoded.        *)
AtDecode(y) ==
  /\ y \in Nat /\ Len(st.src) \in Nat /\ st.expect = y + Len(st.src) + 1 /\ TextAt(y)
  /\ RunFrom(st.src, y) /\ y + Len(st.src) <= Len(input.bytes)
StText ==
  /\ mainPc = "prepare" => TextAt(wr.inProcessed)
  /\ mainPc = "read" => TextAt(st.expect - 1) \/ (~ st.tMode /\ rd.finished)
  /\ mainPc = "decode" => st.src = << >> \/ \E y : AtDecode(y)

(* What was written stays while nothing is written.                        *)
LEMMA TextAtStays ==
  ASSUME UNCHANGED <<input, out>>
  PROVE  (\A p : TextAt(p) => TextAt(p)') /\ (Told => Told')
BY TextStays DEF TextAt, Told

(* A new call: nothing was written yet.                                    *)
LEMMA CallText ==
  ASSUME Shape, Tokens, Call, InputOK'
  PROVE  (RunText /\ Told /\ StText)'
<1>1. /\ wr' = Wr0 /\ rd'.outParsed = 0 /\ out'.bytes = << >> /\ mainPc = "idle"
      /\ mainPc' \in {"run", "prepare"}
      /\ mainPc' = "run" => pc' = [pc EXCEPT ![0] = "wait_read"]
      /\ th' = [t \in Threads |->
                 [NewThread EXCEPT !.inBuf = [k \in DOMAIN th[t].inBuf |-> BlankLink]]]
  BY DEF Call, Rd0
<1>2. input'.outSize \in Nat \cup {NoSize} /\ Len(input'.bytes) \in Nat
  BY DEF InputOK, Streams
<1>3. InSize(0)' /\ Outputs(0)' = 0
  BY <1>2, FS_EmptySet DEF InSize, Outputs
<1>4. IsSeq(out'.bytes) /\ Len(out'.bytes) = 0
  <2>1. << >> \in Seq({}) /\ Len(<< >>) = 0
    OBVIOUS
  <2> QED BY <1>1, <2>1 DEF IsSeq
<1>5. Told'
  BY <1>3, <1>4 DEF Told, Texts
<1>6. TextAt(0)'
  BY <1>2, <1>3, <1>4 DEF TextAt, TextTo, Texts, Plain
<1>7. wr'.inProcessed = 0
  BY <1>1 DEF Wr0
<1>8. TextAt(wr.inProcessed)'
  BY <1>6, <1>7
<1>9. ASSUME mainPc' = "run" PROVE Untouched' /\ \A t \in Threads : ~ Working(t)'
  <2>1. pc' = [pc EXCEPT ![0] = "wait_read"] /\ \A t \in Threads : ~ Working(t)
    BY <1>1, <1>9 DEF Tokens
  <2>2. \A t \in Threads : ~ Working(t)' /\ pc'[t] # "code"
    BY <2>1 DEF Working, Reading, Shape
  <2>3. ASSUME NEW t \in Threads PROVE Clean(t)'
    <3>1. th'[t].l = Fresh
      BY <1>1 DEF NewThread
    <3> QED BY <2>2, <3>1 DEF Clean, Blank, Fresh
  <2> QED BY <2>2, <2>3 DEF Untouched
<1>10. InSize(rd.outParsed)'
  BY <1>1, <1>3
<1>11. RunText'
  BY <1>8, <1>9, <1>10 DEF RunText
<1>12. StText'
  BY <1>1, <1>8 DEF StText
<1> QED BY <1>5, <1>11, <1>12

(* The other decoder begins where the written blocks ended.                *)
LEMMA CodeReturnsText ==
  ASSUME RunText, Told, CodeReturns
  PROVE  (RunText /\ Told /\ StText)'
<1>1. /\ mainPc = "run" /\ mainPc' \in {"idle", "prepare"}
      /\ UNCHANGED <<input, rd, wr, th, st, out>>
      /\ mainPc' = "prepare" => sync.res = OK /\ NeedContinue
  BY DEF CodeReturns, Return
<1>2. ASSUME mainPc' = "prepare" PROVE TextAt(wr.inProcessed)'
  <2>1. Continues /\ NeedContinue
    BY <1>1, <1>2 DEF Continues
  <2>2. TextAt(wr.inProcessed)
    BY <1>1, <2>1 DEF RunText
  <2> QED BY <1>1, <2>2, TextAtStays
<1> QED BY <1>1, <1>2, TextAtStays DEF RunText, StText

(* ... MtDec_PrepareRead tells it.                                         *)
LEMMA PrepareText ==
  ASSUME Handed, Told, StText, Prepare
  PROVE  (RunText /\ Told /\ StText)'
<1>1. /\ mainPc = "prepare" /\ mainPc' \in {"read", "idle"} /\ UNCHANGED <<input, wr, out>>
  BY DEF Prepare, Return
<1>2. PICK b : st' = [st EXCEPT !.tMode = b, !.expect = wr.inProcessed + 1]
  BY DEF Prepare
<1>3. st'.expect = wr.inProcessed + 1
  BY <1>2 DEF Handed, StDomain
<1>4. PICK x : x = wr.inProcessed
  OBVIOUS
<1>5. TextAt(x)
  BY <1>1, <1>4 DEF StText
<1>6. TextAt(x)' /\ x \in Nat
  BY <1>1, <1>5, TextAtStays DEF TextAt
<1>7. st'.expect - 1 = x
  BY <1>3, <1>4, <1>6
<1>8. TextAt(st.expect - 1)'
  BY <1>6, <1>7
<1> QED BY <1>1, <1>8, TextAtStays DEF RunText, StText

(* MtDec_Read serves what comes next.                                      *)
LEMMA MtDec_ReadText ==
  ASSUME Handed, Handed', RdOK', InputOK, Told, StText, MtDec_Read
  PROVE  (RunText /\ Told /\ StText)'
<1>1. mainPc = "read" /\ st.tMode /\ UNCHANGED <<input, out>> /\ StDomain
  BY DEF MtDec_Read, Handed
<1>2. TextAt(st.expect - 1)
  BY <1>1 DEF StText
<1>3. \/ \E data : Served(data)
      \/ st' = [st EXCEPT !.tMode = FALSE, !.src = << >>, !.inLim = 0] /\ mainPc' = mainPc
  BY DEF MtDec_Read
<1>4. CASE st' = [st EXCEPT !.tMode = FALSE, !.src = << >>, !.inLim = 0] /\ mainPc' = mainPc
  <2>1. st'.expect = st.expect
    BY <1>1, <1>4 DEF StDomain
  <2>2. PICK p : p = st.expect - 1
    OBVIOUS
  <2>3. TextAt(p)' /\ st'.expect - 1 = p
    BY <1>1, <1>2, <2>1, <2>2, TextAtStays
  <2> QED BY <1>1, <1>4, <2>3, TextAtStays DEF RunText, StText
<1>5. CASE \E data : Served(data)
  <2>1. PICK data : Served(data)
    BY <1>5
  <2>2. PICK b : st' = [st EXCEPT !.src = data, !.inLim = Len(data), !.expect = @ + Len(data),
                                  !.inOrder = b]
    BY <2>1 DEF Served
  <2>3. /\ st'.tMode = st.tMode /\ st'.src = data /\ st'.expect = st.expect + Len(data)
        /\ mainPc' = IF data = << >> THEN "read" ELSE "decode"
    BY <1>1, <2>1, <2>2 DEF StDomain, Served
  <2>4. PICK x : StGiven(x)
    BY <1>1 DEF Handed, StOK
  <2>5. x \in Nat /\ st.expect = x + 1
    BY <2>4 DEF StGiven
  <2>6. TextAt(x) /\ TextAt(x)'
    <3>1. st.expect - 1 = x
      BY <2>5
    <3>2. TextAt(x)
      BY <1>2, <3>1
    <3> QED BY <1>1, <3>2, TextAtStays
  <2>7. CASE data = << >>
    <3>1. st'.expect - 1 = x
      BY <2>3, <2>5, <2>7
    <3> QED BY <1>1, <2>3, <2>6, <2>7, <3>1, TextAtStays DEF RunText, StText
  <2>8. CASE data # << >>
    <3>1. mainPc' = "decode" /\ st'.tMode
      BY <1>1, <2>3, <2>8
    <3>2. \E z : StGiven(z)'
      BY <3>1 DEF Handed, StOK
    <3>3. PICK z : StGiven(z)'
      BY <3>2
    <3>4. \E y \in Nat : /\ Len(st'.src) \in Nat \ {0} /\ z = y + Len(st'.src) /\ z <= rd'.pos
                         /\ RunFrom(st'.src, y)
      BY <3>1, <3>3 DEF StGiven
    <3>5. PICK y \in Nat : /\ Len(st'.src) \in Nat \ {0} /\ z = y + Len(st'.src) /\ z <= rd'.pos
                           /\ RunFrom(st'.src, y)
      BY <3>4
    <3>6. st'.expect = z + 1 /\ z \in Nat
      BY <3>3 DEF StGiven
    <3>7. y = x
      <4>1. Len(data) \in Nat /\ st'.expect = x + 1 + Len(data) /\ z = y + Len(data)
        BY <2>3, <2>5, <3>5
      <4>2. PICK n, v : n = Len(data) /\ v = st'.expect
        OBVIOUS
      <4>3. n \in Nat /\ v = x + 1 + n /\ z = y + n /\ v = z + 1
        BY <3>6, <4>1, <4>2
      <4> QED BY <2>5, <3>5, <3>6, <4>3
    <3>8. y + Len(st'.src) <= Len(input'.bytes)
      <4>1. rd'.pos \in 0 .. Len(input'.bytes) /\ Len(input'.bytes) \in Nat
        BY <1>1 DEF RdOK, InputOK, Streams
      <4> QED BY <3>5, <3>6, <4>1
    <3>9. AtDecode(y)'
      <4>1. y \in Nat /\ Len(st'.src) \in Nat /\ st'.expect = y + Len(st'.src) + 1
        BY <3>5, <3>6
      <4>2. TextAt(y)'
        BY <2>6, <3>7
      <4> QED BY <3>5, <3>8, <4>1, <4>2 DEF AtDecode
    <3> QED BY <1>1, <3>1, <3>9, TextAtStays DEF RunText, StText
  <2> QED BY <2>7, <2>8
<1> QED BY <1>3, <1>4, <1>5

(* ... and the stream after that.                                          *)
LEMMA StReadText ==
  ASSUME Inv, Handed, Told, StText, StRead
  PROVE  (RunText /\ Told /\ StText)'
<1>1. /\ mainPc = "read" /\ ~ st.tMode /\ mainPc' = "decode" /\ UNCHANGED <<input, out>>
      /\ StDomain /\ RdOK /\ InputOK /\ (rd.finished \/ st.expect = rd.pos + 1)
  BY DEF StRead, Handed, StOK, Inv, Control
<1>2. rd.pos \in Nat /\ InBufSize \in Nat
  <2>1. Len(input.bytes) \in Nat
    BY <1>1 DEF InputOK, Streams
  <2> QED BY <1>1, <2>1, MtDecAssumption DEF RdOK
<1>3. SUFFICES st'.src = << >> \/ \E y : AtDecode(y)'
  BY <1>1, TextAtStays DEF RunText, StText
<1>4. CASE rd.finished
  <2>1. st' = [st EXCEPT !.src = << >>]
    BY <1>4, Zenon DEF StRead
  <2> QED BY <1>1, <2>1 DEF StDomain
<1>5. CASE ~ rd.finished
  <2>1. \E k \in 0 .. InBufSize, ok \in BOOLEAN :
             /\ ReadMax(k, ok)
             /\ st' = [st EXCEPT !.src = NextBytes(k), !.expect = @ + k,
                         !.inOrder = @ /\ (k # 0 => rd.pos + 1 = st.expect)]
    BY <1>5, Zenon DEF StRead
  <2>2. PICK k \in 0 .. InBufSize, ok \in BOOLEAN :
             /\ ReadMax(k, ok)
             /\ st' = [st EXCEPT !.src = NextBytes(k), !.expect = @ + k,
                         !.inOrder = @ /\ (k # 0 => rd.pos + 1 = st.expect)]
    BY <2>1, Zenon
  <2>3. PICK b : st' = [st EXCEPT !.src = NextBytes(k), !.expect = @ + k, !.inOrder = b]
    BY <2>2
  <2>4. st'.src = NextBytes(k) /\ st'.expect = st.expect + k
    BY <1>1, <2>3 DEF StDomain
  <2>5. PICK y : y = rd.pos
    OBVIOUS
  <2>6. k \in Nat /\ y \in Nat /\ st.expect = y + 1
    BY <1>1, <1>2, <1>5, <2>5
  <2>7. Len(NextBytes(k)) = k /\ RunFrom(NextBytes(k), y)
    BY <2>5, <2>6 DEF NextBytes, RunFrom
  <2>8. y + k <= Len(input.bytes)
    <3>1. Len(input.bytes) \in Nat
      BY <1>1 DEF InputOK, Streams
    <3> QED BY <1>1, <2>2, <2>5, <2>6, <3>1, ReadMaxBounds
  <2>9. TextAt(y)'
    <3>1. TextAt(st.expect - 1) /\ st.expect - 1 = y
      BY <1>1, <1>5, <2>6 DEF StText
    <3>2. TextAt(y)
      BY <3>1
    <3> QED BY <1>1, <3>2, TextAtStays
  <2>10. /\ Len(st'.src) = k /\ RunFrom(st'.src, y) /\ y + Len(st'.src) <= Len(input'.bytes)
    BY <1>1, <2>4, <2>7, <2>8
  <2>11. st'.expect = y + Len(st'.src) + 1
    BY <2>4, <2>6, <2>10
  <2>12. AtDecode(y)'
    BY <2>6, <2>9, <2>10, <2>11 DEF AtDecode
  <2> QED BY <2>12
<1> QED BY <1>4, <1>5

(* What it writes is what the input decodes to, from where the blocks and  *)
(* itself wrote up to, and it asks for what comes next.                    *)
LEMMA StDecodeText ==
  ASSUME Inv, Handed, Told, StText, StDecode
  PROVE  (RunText /\ Told /\ StText)'
<1> DEFINE n == Len(out.bytes)
           limit == input.outSize
           any == ~ input.finishMode
           d == Decode(input.bytes, st.src, n, input.outSize, ~ input.finishMode)
           answer == StAnswer(d, n + Len(d.out))
<1>1. /\ mainPc = "decode" /\ mainPc' \in {"read", "idle"} /\ UNCHANGED <<input, rd, wr, th, st>>
      /\ OutDomain /\ InputOK /\ rd.res \in {OK, "READ"}
  BY DEF StDecode, Return, Handed, Inv, Control, RdOK
<1>2. input.bytes \in Seq(Kinds) /\ limit \in Nat \cup {NoSize} /\ any \in BOOLEAN
  BY <1>1 DEF InputOK, Streams
<1>3. n \in Nat /\ (limit # NoSize => n <= limit)
  BY SeqItems DEF Told, InSize
<1>4. /\ \/ out'.bytes = out.bytes \o d.out
         \/ d.out # << >> /\ \E k \in 0 .. Len(d.out) - 1 :
                               out'.bytes = out.bytes \o FirstBytes(d.out, k)
      /\ mainPc' = "read" => answer = "more" /\ out'.bytes = out.bytes \o d.out
  <2>1. \/ /\ out' = [out EXCEPT !.bytes = @ \o d.out]
           /\ Return(answer) \/ (answer = "more" /\ mainPc' = "read") \/ Return("PROGRESS")
        \/ /\ d.out # << >>
           /\ \E k \in 0 .. Len(d.out) - 1 :
                out' = [bytes |-> out.bytes \o FirstBytes(d.out, k), failed |-> TRUE]
           /\ Return("WRITE")
    BY DEF StDecode
  <2> HIDE DEF answer, d
  <2>2. CASE /\ out' = [out EXCEPT !.bytes = @ \o d.out]
             /\ Return(answer) \/ (answer = "more" /\ mainPc' = "read") \/ Return("PROGRESS")
    <3>1. out'.bytes = out.bytes \o d.out
      BY <1>1, <2>2 DEF OutDomain
    <3> QED BY <2>2, <3>1 DEF Return
  <2>3. CASE /\ d.out # << >>
             /\ \E k \in 0 .. Len(d.out) - 1 :
                  out' = [bytes |-> out.bytes \o FirstBytes(d.out, k), failed |-> TRUE]
             /\ Return("WRITE")
    <3>1. mainPc' = "idle"
      BY <2>3 DEF Return
    <3>2. PICK k \in 0 .. Len(d.out) - 1 :
             out' = [bytes |-> out.bytes \o FirstBytes(d.out, k), failed |-> TRUE]
      BY <2>3
    <3>3. out'.bytes = out.bytes \o FirstBytes(d.out, k)
      BY <3>2
    <3> QED BY <2>3, <3>1, <3>3
  <2> QED BY <2>1, <2>2, <2>3
<1>5. ASSUME Adds(d.out) PROVE Told'
  <2> HIDE DEF d, answer
  <2>1. Tells(out'.bytes)
    <3>1. CASE out'.bytes = out.bytes \o d.out
      BY <1>5, <3>1 DEF Adds
    <3>2. CASE \E k \in 0 .. Len(d.out) - 1 : out'.bytes = out.bytes \o FirstBytes(d.out, k)
      <4>1. PICK k \in 0 .. Len(d.out) - 1 : out'.bytes = out.bytes \o FirstBytes(d.out, k)
        BY <3>2
      <4>2. k \in 0 .. Len(d.out)
        OBVIOUS
      <4> QED BY <1>5, <4>1, <4>2 DEF Adds
    <3> QED BY <1>4, <3>1, <3>2
  <2> QED BY <1>1, <2>1, TextStays DEF Told, Tells
<1>6. ASSUME NEW y \in Nat, Len(st.src) \in Nat, RunFrom(st.src, y),
             y + Len(st.src) <= Len(input.bytes)
      PROVE  \E s : Decodes(d, st.src, y, n, limit, any, s)
  <2>1. PICK src, e : src = st.src /\ e = d
    OBVIOUS
  <2>2. e = Decode(input.bytes, src, n, limit, any)
    BY <2>1
  <2> HIDE DEF d, n, limit, any
  <2>3. \E s : Decodes(e, src, y, n, limit, any, s)
    BY <1>2, <1>3, <1>6, <2>1, <2>2, DecodeText
  <2> QED BY <2>1, <2>3
<1>7. CASE st.src = << >>
  <2>1. 0 \in Nat /\ Len(st.src) = 0 /\ Len(input.bytes) \in Nat
    BY <1>2, <1>7
  <2>2. RunFrom(st.src, 0)
    BY <2>1 DEF RunFrom
  <2>3. \E s : Decodes(d, st.src, 0, n, limit, any, s)
    BY <1>6, <2>1, <2>2
  <2> HIDE DEF d, n, limit, any
  <2>4. PICK s : Decodes(d, st.src, 0, n, limit, any, s)
    BY <2>3
  <2>5. s = 1 /\ TextTo(d.out, 0, 0 + (s - 1))
    BY <2>1, <2>4 DEF Decodes
  <2>6. IsSeq(d.out) /\ Len(d.out) = 0
    <3>1. TextTo(d.out, 0, 0)
      BY <2>5
    <3>2. Outputs(0) = 0
      BY FS_EmptySet DEF Outputs
    <3> QED BY <3>1, <3>2 DEF TextTo
  <2>7. d.out = << >>
    <3>1. PICK S : d.out \in Seq(S)
      BY <2>6 DEF IsSeq
    <3> QED BY <2>6, <3>1
  <2>8. Told'
    BY <1>5, <2>7, AddsNothing
  <2>9. mainPc' # "read"
    BY <1>1, <1>4, <1>7, OnlyAsks
  <2> QED BY <1>1, <2>8, <2>9 DEF RunText, StText
<1>8. CASE st.src # << >>
  <2>1. PICK y : AtDecode(y)
    BY <1>1, <1>8 DEF StText
  <2>2. PICK m : m = Len(st.src)
    OBVIOUS
  <2>3. /\ y \in Nat /\ m \in Nat /\ st.expect = y + m + 1 /\ TextAt(y)
        /\ RunFrom(st.src, y) /\ y + m <= Len(input.bytes)
    BY <2>1, <2>2 DEF AtDecode
  <2>4. \E s : Decodes(d, st.src, y, n, limit, any, s)
    BY <1>6, <2>2, <2>3
  <2>a. d.ok \in BOOLEAN
    BY DEF Decode
  <2> HIDE DEF d, n
  <2>5. PICK s : Decodes(d, st.src, y, n, limit, any, s)
    BY <2>4
  <2>6. PICK x, e : x = y + (s - 1) /\ e = d.out
    OBVIOUS
  <2>7. /\ s \in 1 .. m + 1 /\ TextTo(e, y, x) /\ x \in Nat
        /\ limit # NoSize => n + Len(e) <= limit
        /\ d.ok /\ ~ d.mark => s = m + 1 \/ (any /\ limit # NoSize /\ n + Len(e) = limit)
    BY <2>2, <2>3, <2>5, <2>6 DEF Decodes
  <2>8. n = Outputs(y)
    <3>1. Outputs(0) = 0 /\ Outputs(y) \in Nat
      BY <2>3, FS_EmptySet, OutputsNext DEF Outputs
    <3> QED BY <2>3, <1>3, <3>1 DEF TextAt, TextTo, n
  <2>9. InSize(Outputs(y) + Len(e))
    BY <2>7, <2>8 DEF InSize
  <2>10. /\ Adds(e) /\ TextTo(out.bytes \o e, 0, x) /\ InSize(Outputs(x))
    BY <1>1, <2>3, <2>7, <2>9, AddsText
  <2>11. Told'
    BY <1>5, <2>6, <2>10
  <2>12. ASSUME mainPc' = "read" PROVE TextAt(st.expect - 1)'
    <3>1. /\ d.ok /\ ~ d.mark /\ out'.bytes = out.bytes \o e
          /\ ~ (any /\ limit # NoSize /\ limit <= n + Len(e))
      BY <1>1, <1>4, <2>6, <2>12, OnlyAsks
    <3>2. s = m + 1
      <4>1. PICK k : k = n + Len(e)
        OBVIOUS
      <4>2. limit # NoSize => limit \in Nat
        BY <1>2
      <4>3. ~ (any /\ limit # NoSize /\ k = limit)
        BY <3>1, <4>1, <4>2
      <4> QED BY <2>7, <3>1, <4>1, <4>3
    <3>3. x = y + m /\ st'.expect - 1 = x
      BY <1>1, <2>3, <2>6, <3>2
    <3>4. TextAt(x)'
      BY <1>1, <2>7, <2>10, <3>1, TextStays DEF TextAt
    <3> QED BY <3>3, <3>4
  <2> QED BY <1>1, <2>11, <2>12 DEF RunText, StText
<1> QED BY <1>7, <1>8

(* What was made of the input so far.                                      *)
Words == RunText /\ Told /\ StText

(* Nothing was written yet. *)
LEMMA InitWords == Init => Words
<1>1. SUFFICES ASSUME Init PROVE Words
  OBVIOUS
<1>2. mainPc = "idle" /\ out.bytes = << >> /\ InputOK
  BY <1>1, InitInv DEF Init, Inv, Control
<1>3. IsSeq(out.bytes) /\ Len(out.bytes) = 0
  <2>1. << >> \in Seq({}) /\ Len(<< >>) = 0
    OBVIOUS
  <2> QED BY <1>2, <2>1 DEF IsSeq
<1>4. Told
  BY <1>2, <1>3 DEF Told, Texts, InSize, InputOK
<1> QED BY <1>2, <1>4 DEF Words, RunText, StText

(* Every step leaves the stream what the input decodes to. *)
LEMMA NextWords == Inv /\ Handed /\ Words /\ [Next]_vars => Words'
<1> SUFFICES ASSUME Inv, Handed, Words, [Next]_vars PROVE Words'
  OBVIOUS
<1>1. Inv' /\ Handed'
  BY NextInv, NextHanded
<1>2. /\ Shape /\ Tokens /\ InputOK /\ InputOK' /\ RdOK' /\ RunText /\ Told /\ StText /\ RunKept
  BY <1>1 DEF Inv, Control, Words, Handed
<1>3. CASE Call
  BY <1>2, <1>3, CallText DEF Words
<1>4. CASE CodeReturns
  BY <1>2, <1>4, CodeReturnsText DEF Words
<1>5. CASE Prepare
  BY <1>2, <1>5, PrepareText DEF Words
<1>6. CASE MtDec_Read
  BY <1>1, <1>2, <1>6, MtDec_ReadText DEF Words
<1>7. CASE StRead
  BY <1>2, <1>7, StReadText DEF Words
<1>8. CASE StDecode
  BY <1>2, <1>8, StDecodeText DEF Words
<1>9. CASE Destroy
  <2>1. UNCHANGED <<input, out>> /\ mainPc' \in {"destroy", "end"}
    BY <1>9 DEF Destroy
  <2> QED BY <1>2, <2>1, TextAtStays DEF Words, RunText, StText
<1>10. CASE \E t \in Threads : Thread(t)
  <2>1. PICK t \in Threads : Thread(t)
    BY <1>10
  <2>2. RunText' /\ Told'
    BY <1>2, <2>1, ThreadText
  <2>3. mainPc' \notin {"prepare", "read", "decode"}
    <3>1. mainPc' = mainPc
      BY <2>1 DEF Thread, WaitRead, ReadNoLink, ReadCross, ReadLink, ParseOverflow, ParseContinue,
         ParseEnd, ParseNew, StoreParsed, PreCode, StartNext, StartNone, CodeFails, CodeLink,
         CodeUnprepared, Write, caller
    <3>2. CASE WaitRead(t) /\ exitThread
      BY <3>1, <3>2 DEF WaitRead, Inv, Tokens
    <3>3. CASE ~ (WaitRead(t) /\ exitThread)
      BY <2>1, <3>1, <3>3, ThreadRuns DEF Inv
    <3> QED BY <3>2, <3>3
  <2> QED BY <2>2, <2>3 DEF Words, StText
<1>11. CASE UNCHANGED vars
  <2>1. UNCHANGED <<input, rd, wr, sync, exitThread, pc, th, st, out, mainPc, canRead, canWrite>>
    BY <1>11 DEF vars
  <2>2. Told' /\ \A p : TextAt(p) => TextAt(p)'
    BY <1>2, <2>1, TextAtStays
  <2>3. StText'
    <3>1. \A y : AtDecode(y) => AtDecode(y)'
      BY <2>1, <2>2 DEF AtDecode
    <3>2. PICK p, q : p = wr.inProcessed /\ q = st.expect - 1
      OBVIOUS
    <3>3. p = wr'.inProcessed /\ q = st'.expect - 1
      BY <2>1, <3>2
    <3>4. TextAt(wr.inProcessed) => TextAt(wr.inProcessed)'
      BY <2>2, <3>2, <3>3
    <3>5. TextAt(st.expect - 1) => TextAt(st.expect - 1)'
      BY <2>2, <3>2, <3>3
    <3> QED BY <1>2, <2>1, <3>1, <3>4, <3>5 DEF StText
  <2>4. RunText'
    <3>1. \A t \in Threads : Clean(t) => Clean(t)'
      BY <2>1 DEF Clean, Blank
    <3>2. \A t \in Threads : Worded(t) => Worded(t)'
      BY <2>1, WordedStays
    <3>3. /\ (Continues' <=> Continues) /\ (Ending => Ending')
          /\ (NeedContinue' <=> NeedContinue) /\ \A t \in Threads : (Working(t)' <=> Working(t))
      <4>1. \A t \in Threads : (Working(t)' <=> Working(t))
        BY <2>1 DEF Working, Reading
      <4>2. (Continues' <=> Continues) /\ (NeedContinue' <=> NeedContinue)
        BY <2>1 DEF Continues, NeedContinue
      <4>3. Ending => Ending'
        BY <2>1, <4>1 DEF Ending
      <4> QED BY <4>1, <4>2, <4>3
    <3>4. InSize(rd.outParsed) => InSize(rd.outParsed)'
      BY <2>1, TextStays
    <3>5. TextAt(wr.inProcessed) => TextAt(wr.inProcessed)'
      <4>1. PICK p : p = wr.inProcessed
        OBVIOUS
      <4>2. p = wr'.inProcessed
        BY <2>1, <4>1
      <4> QED BY <2>2, <4>1, <4>2
    <3>6. Untouched => Untouched'
      BY <3>1 DEF Untouched
    <3> QED BY <1>2, <2>1, <3>2, <3>3, <3>4, <3>5, <3>6 DEF RunText
  <2> QED BY <2>2, <2>3, <2>4 DEF Words
<1> QED BY <1>3, <1>4, <1>5, <1>6, <1>7, <1>8, <1>9, <1>10, <1>11 DEF Next, Main, Done

(* Whatever the input, the number of threads and the sizes of blocks and   *)
(* buffers, whichever callback, allocation or thread start fails, and      *)
(* however the threads interleave: what the output stream of MtDec_Code    *)
(* got, from the threads' blocks and after a switch from                   *)
(* Lzma2Dec_Decode_ST, is at every moment a beginning of what one thread   *)
(* decodes the input to, within the size that was asked for.               *)
THEOREM WritesAreInOrder == Spec => []WritesInOrder
<1>1. Init => Inv /\ Handed /\ Words
  BY InitInv, InitHanded, InitWords
<1>2. (Inv /\ Handed /\ Words) /\ [Next]_vars => (Inv /\ Handed /\ Words)'
  BY NextInv, NextHanded, NextWords
<1>3. Inv /\ Handed /\ Words => WritesInOrder
  BY ToldInOrder DEF Inv, Control, Words
<1> QED BY <1>1, <1>2, <1>3, PTL DEF Spec
=============================================================================
