------------------------- MODULE MtDecAnswerProofs --------------------------
(***************************************************************************)
(* What MtDec_Code and the single-threaded decoder after it answer, for    *)
(* any number of threads, any input and any reads and failures, in every   *)
(* call on a handle: AnswerRight.  The call fails for the input alone only *)
(* when one thread would, and what it calls sound and whole is.            *)
(*                                                                         *)
(* That the output is right (Words) does not say where the input ends.     *)
(* Where one thread stops is told by the input: in front of what it cannot *)
(* decode (StuckAt) or at an end (EndsAt), and no input has both           *)
(* (StuckNeverEnds).  While the threads run (RunRight), a coder's block is *)
(* what the parser said or it fails for its damage alone (Fair), a block   *)
(* without a byte is the last (Hollow), a coder is called when it is ready *)
(* (Ready), and nothing is left of what was read only when all of it is    *)
(* decoded (Bare).  When they have ended without handing over, the input   *)
(* does not end later (Shown); when they hand over or there is one thread, *)
(* whoever finds nothing left has had all of it (Left).                    *)
(***************************************************************************)
EXTENDS MtDecSwitchProofs

(* The first z bytes of the input are decoded by one thread.               *)
UpTo(z) ==
  /\ z \in Nat /\ z <= Len(input.bytes) /\ Plain(0, z) /\ InSize(Outputs(z))

(* The size that was asked for is there, and it is all that was asked for. *)
FullAt(z) == ~ input.finishMode /\ input.outSize # NoSize /\ Outputs(z) = input.outSize

(* The input may end after its first e bytes: there is the end mark, and   *)
(* the size is right; or there is the size.                                *)
EndsAt(e) ==
  /\ UpTo(e)
  /\ \/ /\ e < Len(input.bytes) /\ input.bytes[e + 1] = "end"
        /\ input.finishMode /\ input.outSize # NoSize => Outputs(e) = input.outSize
     \/ FullAt(e)

(* A thread that is at z cannot go on there, nor is that the end.          *)
StuckAt(z) ==
  /\ UpTo(z) /\ z < Len(input.bytes) /\ ~ FullAt(z) /\ input.bytes[z + 1] # "end"
  /\ \/ input.bytes[z + 1] \in {"bad", "err"}
     \/ input.finishMode /\ input.outSize # NoSize /\ Outputs(z) = input.outSize

(* An input one thread cannot decode beyond z does not end anywhere.       *)
LEMMA StuckNeverEnds ==
  ASSUME InputOK, NEW z, StuckAt(z), NEW e, EndsAt(e)
  PROVE  FALSE
<1>1. /\ z \in Nat /\ e \in Nat /\ Len(input.bytes) \in Nat /\ Plain(0, z) /\ Plain(0, e)
      /\ z < Len(input.bytes) /\ e <= Len(input.bytes)
      /\ input.outSize # NoSize => input.outSize \in Nat
  BY DEF StuckAt, EndsAt, UpTo, InputOK, Streams
<1>2. Outputs(z) \in Nat /\ Outputs(e) \in Nat
  BY <1>1, OutputsNext
<1>3. CASE e < z
  <2>1. input.bytes[e + 1] \in {"new", "data"}
    <3>1. e + 1 \in Int /\ 0 < e + 1 /\ e + 1 <= z
      BY <1>1, <1>3
    <3> QED BY <1>1, <3>1 DEF Plain
  <2>2. FullAt(e)
    BY <2>1 DEF EndsAt
  <2>3. Outputs(e) <= Outputs(z)
    BY <1>1, <1>3, OutputsGrow
  <2> QED BY <1>1, <1>2, <2>2, <2>3 DEF StuckAt, UpTo, InSize, FullAt
<1>4. CASE e = z
  BY <1>4 DEF EndsAt, StuckAt
<1>5. CASE z < e
  <2>1. z + 1 \in Nat /\ z + 1 <= e /\ input.bytes[z + 1] \in {"new", "data"}
    <3>1. z + 1 \in Int /\ 0 < z + 1 /\ z + 1 <= e
      BY <1>1, <1>5
    <3> QED BY <1>1, <3>1 DEF Plain
  <2>2. input.finishMode /\ input.outSize # NoSize /\ Outputs(z) = input.outSize
    BY <2>1 DEF StuckAt
  <2>3. e < Len(input.bytes) /\ input.bytes[e + 1] = "end" /\ Outputs(e) = Outputs(z)
    BY <2>2 DEF EndsAt, FullAt
  <2>4. input.bytes[z + 1] = "new"
    BY <1>1, <1>5, <2>1, <2>3, OutputsSame
  <2>5. input.bytes[(z + 1) + 1] \in {"data", "bad", "err"}
    <3>1. z + 1 \in 1 .. Len(input.bytes) - 1
      BY <1>1, <2>1, <2>3
    <3> QED BY <2>4, <3>1, NewIsFollowed
  <2>6. CASE z + 1 = e
    BY <2>3, <2>5, <2>6
  <2>7. CASE z + 1 < e
    <3>1. (z + 1) + 1 \in Nat /\ (z + 1) + 1 <= e /\ z < (z + 1) + 1
      BY <1>1, <2>7
    <3>2. input.bytes[(z + 1) + 1] \in {"new", "data"}
      BY <1>1, <3>1 DEF Plain
    <3>3. input.bytes[(z + 1) + 1] \notin {"data", "bad"}
      BY <1>1, <1>5, <2>3, <3>1, OutputsSame
    <3> QED BY <2>5, <3>2, <3>3
  <2> QED BY <1>1, <2>1, <2>6, <2>7
<1> QED BY <1>1, <1>3, <1>4, <1>5

(* Where the one thread stops: in front of what it cannot decode, or at    *)
(* the end of the bytes.                                                   *)
WholeTo(s, ok, mark) ==
  LET m == Len(Full)
      stopped == s = Len(input.bytes) + 1 \/ (~ input.finishMode /\ input.outSize # NoSize /\ m = input.outSize)
  IN  /\ s \in 1 .. Len(input.bytes) + 1 /\ TextTo(Full, 0, s - 1)
      /\ input.outSize # NoSize => m <= input.outSize
      /\ \/ s = Len(input.bytes) + 1 \/ input.bytes[s] \in {"end", "bad", "err"}
         \/ input.outSize # NoSize /\ m = input.outSize
      /\ mark <=> ~ stopped /\ input.bytes[s] = "end"
      /\ ok <=> stopped \/ mark
      /\ SoundInput <=> /\ ok
                        /\ \/ mark /\ (input.finishMode /\ input.outSize # NoSize => m = input.outSize)
                           \/ ~ input.finishMode /\ input.outSize = m

(* Every input has what one thread makes of it. *)
LEMMA WholeIs ==
  ASSUME InputOK
  PROVE  \E s, ok, mark : WholeTo(s, ok, mark)
<1> DEFINE d == Decode(input.bytes, Offsets(input.bytes), 0, input.outSize, ~ input.finishMode)
<1>1. input.bytes \in Seq(Kinds) /\ Len(input.bytes) \in Nat
  <2>1. input.bytes \in Seq(Kinds)
    BY DEF InputOK, Streams
  <2> QED BY <2>1
<1>2. /\ (~ input.finishMode) \in BOOLEAN /\ input.outSize \in Nat \cup {NoSize}
      /\ (input.outSize # NoSize => 0 <= input.outSize)
  BY DEF InputOK
<1>3. Whole(input.bytes, input.outSize, input.finishMode) = d
  BY Zenon DEF Whole
<1>4. /\ Full = d.out
      /\ SoundInput <=> /\ d.ok
                        /\ \/ d.mark /\ (input.finishMode /\ input.outSize # NoSize =>
                                           Len(d.out) = input.outSize)
                           \/ ~ input.finishMode /\ input.outSize = Len(d.out)
  <2>1. Full = d.out
    BY <1>3 DEF Full
  <2>2. SoundInput <=> /\ d.ok
                       /\ \/ d.mark /\ (input.finishMode /\ input.outSize # NoSize =>
                                          Len(d.out) = input.outSize)
                          \/ ~ input.finishMode /\ input.outSize = Len(d.out)
    BY <1>3, Zenon DEF SoundInput, Sound
  <2> QED BY <2>1, <2>2
<1>5. Len(Offsets(input.bytes)) = Len(input.bytes) /\ RunFrom(Offsets(input.bytes), 0)
  <2>1. Offsets(input.bytes) \in Seq(Int) /\ Len(Offsets(input.bytes)) = Len(input.bytes)
        /\ \A k \in 1 .. Len(input.bytes) : Offsets(input.bytes)[k] = k
    BY <1>1 DEF Offsets
  <2> QED BY <2>1 DEF RunFrom
<1>6. PICK e, src, any, limit : e = d /\ src = Offsets(input.bytes) /\ any = (~ input.finishMode)
                                /\ limit = input.outSize
  OBVIOUS
<1>7. \E s : Decodes(e, src, 0, 0, limit, any, s)
  <2>1. /\ input.bytes \in Seq(Kinds) /\ Len(src) \in Nat /\ RunFrom(src, 0)
        /\ 0 + Len(src) <= Len(input.bytes) /\ limit \in Nat \cup {NoSize}
        /\ (limit # NoSize => 0 <= limit) /\ any \in BOOLEAN
        /\ e = Decode(input.bytes, src, 0, limit, any)
    BY <1>1, <1>2, <1>5, <1>6
  <2>2. 0 \in Nat
    OBVIOUS
  <2> QED BY <2>1, <2>2, DecodeText
<1>8. PICK s : Decodes(e, src, 0, 0, limit, any, s)
  BY <1>7
<1>9. PICK m, n : m = Len(Full) /\ n = Len(input.bytes)
  OBVIOUS
<1>10. /\ e = d /\ Full = e.out /\ Len(src) = n /\ m = Len(e.out) /\ n \in Nat
  BY <1>1, <1>4, <1>5, <1>6, <1>9
<1> HIDE DEF d
<1>11. s \in 1 .. n + 1 /\ s - 1 \in Int /\ 0 + (s - 1) = s - 1 /\ 0 + s = s
  BY <1>8, <1>10 DEF Decodes
<1>12. /\ TextTo(Full, 0, s - 1) /\ (limit # NoSize => 0 + m <= limit)
       /\ \/ s = n + 1 \/ input.bytes[s] \in {"end", "bad", "err"}
          \/ limit # NoSize /\ 0 + m = limit
       /\ e.mark <=> /\ ~ (s = n + 1 \/ (any /\ limit # NoSize /\ 0 + m = limit))
                     /\ input.bytes[s] = "end"
       /\ e.ok <=> s = n + 1 \/ (any /\ limit # NoSize /\ 0 + m = limit) \/ e.mark
  BY <1>8, <1>10, <1>11, Zenon DEF Decodes
<1>13. m \in Nat /\ 0 + m = m
  BY <1>9, <1>12 DEF TextTo
<1>14. PICK ok, mark : (ok <=> e.ok) /\ (mark <=> e.mark)
  OBVIOUS
<1>15. WholeTo(s, ok, mark)
  <2>1. /\ s \in 1 .. n + 1 /\ TextTo(Full, 0, s - 1)
        /\ input.outSize # NoSize => m <= input.outSize
        /\ \/ s = n + 1 \/ input.bytes[s] \in {"end", "bad", "err"}
           \/ input.outSize # NoSize /\ m = input.outSize
    BY <1>6, <1>11, <1>12, <1>13
  <2>2. mark <=> /\ ~ (s = n + 1 \/ (~ input.finishMode /\ input.outSize # NoSize /\ m = input.outSize))
                 /\ input.bytes[s] = "end"
    BY <1>6, <1>12, <1>13, <1>14, Zenon
  <2>3. ok <=> s = n + 1 \/ (~ input.finishMode /\ input.outSize # NoSize /\ m = input.outSize) \/ mark
    BY <1>6, <1>12, <1>13, <1>14, Zenon
  <2>4. SoundInput <=> /\ ok
                       /\ \/ mark /\ (input.finishMode /\ input.outSize # NoSize => m = input.outSize)
                          \/ ~ input.finishMode /\ input.outSize = m
    BY <1>4, <1>10, <1>14, Zenon
  <2> QED BY <1>9, <2>1, <2>2, <2>3, <2>4, Zenon DEF WholeTo
<1> QED BY <1>15

(* An input that may end somewhere is sound, and nothing comes after that. *)
LEMMA EndIsSound ==
  ASSUME InputOK, NEW e, EndsAt(e)
  PROVE  SoundInput /\ Len(Full) = Outputs(e)
<1>1. PICK s, ok, mark : WholeTo(s, ok, mark)
  BY WholeIs
<1>2. PICK m, n, limit : m = Len(Full) /\ n = Len(input.bytes) /\ limit = input.outSize
  OBVIOUS
<1>3. /\ e \in Nat /\ e <= n /\ n \in Nat /\ s \in 1 .. n + 1 /\ s - 1 \in Nat /\ m \in Nat
      /\ limit # NoSize => limit \in Nat
  BY <1>1, <1>2 DEF EndsAt, UpTo, WholeTo, TextTo, InputOK, Streams
<1>4. Outputs(s - 1) = m /\ Outputs(e) \in Nat /\ Plain(0, s - 1) /\ Plain(0, e)
  <2>1. Outputs(0) = 0 /\ Outputs(e) \in Nat
    BY <1>3, OutputsNext
  <2> QED BY <1>1, <1>2, <1>3, <2>1 DEF WholeTo, TextTo, EndsAt, UpTo
<1>5. /\ limit # NoSize => m <= limit /\ Outputs(e) <= limit
  BY <1>1, <1>2 DEF WholeTo, EndsAt, UpTo, InSize
<1>6. CASE FullAt(s - 1)
  <2>1. ~ input.finishMode /\ limit # NoSize /\ m = limit
    BY <1>2, <1>4, <1>6 DEF FullAt
  <2>2. SoundInput
    BY <1>1, <1>2, <2>1 DEF WholeTo
  <2>3. Outputs(e) = limit
    <3>1. CASE FullAt(e)
      BY <1>2, <3>1 DEF FullAt
    <3>2. CASE ~ FullAt(e)
      <4>1. e < n /\ input.bytes[e + 1] = "end"
        BY <1>2, <3>2 DEF EndsAt
      <4>2. ~ (e < s - 1)
        <5>1. ASSUME e < s - 1 PROVE FALSE
          <6>1. e + 1 \in Int /\ 0 < e + 1 /\ e + 1 <= s - 1
            BY <1>3, <5>1
          <6> QED BY <1>4, <4>1, <6>1 DEF Plain
        <5> QED BY <5>1
      <4>3. Outputs(s - 1) <= Outputs(e)
        BY <1>3, <4>2, OutputsGrow
      <4> QED BY <1>3, <1>4, <1>5, <2>1, <4>3
    <3> QED BY <3>1, <3>2
  <2> QED BY <1>2, <2>1, <2>2, <2>3
<1>7. CASE ~ FullAt(s - 1)
  <2>1. ~ (~ input.finishMode /\ limit # NoSize /\ m = limit)
    BY <1>2, <1>4, <1>7 DEF FullAt
  <2>2. CASE s <= n /\ input.bytes[s] # "end"
    <3>1. StuckAt(s - 1)
      <4>1. (s - 1) + 1 = s /\ s - 1 < n
        BY <1>3, <2>2
      <4>2. UpTo(s - 1)
        BY <1>2, <1>3, <1>4, <1>5 DEF UpTo, InSize
      <4>3. input.bytes[s] \in {"bad", "err"} \/ (limit # NoSize /\ m = limit)
        BY <1>1, <1>2, <1>3, <2>2 DEF WholeTo
      <4>4. input.finishMode \/ ~ (limit # NoSize /\ m = limit)
        BY <2>1
      <4> QED BY <1>2, <1>4, <1>7, <2>2, <4>1, <4>2, <4>3, <4>4 DEF StuckAt
    <3> QED BY <3>1, StuckNeverEnds
  <2>3. CASE ~ (s <= n /\ input.bytes[s] # "end")
    <3>1. ~ (s - 1 < e)
      <4>1. ASSUME s - 1 < e PROVE FALSE
        <5>1. s \in Int /\ 0 < s /\ s <= e /\ s <= n
          BY <1>3, <4>1
        <5> QED BY <1>4, <2>3, <5>1 DEF Plain
      <4> QED BY <4>1
    <3>2. Outputs(e) <= m
      BY <1>3, <1>4, <3>1, OutputsGrow
    <3>3. ~ FullAt(e)
      BY <1>2, <1>3, <1>4, <1>5, <2>1, <3>2 DEF FullAt
    <3>4. /\ e < n /\ input.bytes[e + 1] = "end"
          /\ input.finishMode /\ limit # NoSize => Outputs(e) = limit
      BY <1>2, <3>3 DEF EndsAt
    <3>5. e = s - 1
      <4>1. ASSUME e < s - 1 PROVE FALSE
        <5>1. e + 1 \in Int /\ 0 < e + 1 /\ e + 1 <= s - 1
          BY <1>3, <4>1
        <5> QED BY <1>4, <3>4, <5>1 DEF Plain
      <4> QED BY <1>3, <3>1, <4>1
    <3>6. s # n + 1 /\ input.bytes[s] = "end" /\ Outputs(e) = m
      <4>1. e + 1 = s
        BY <1>3, <3>5
      <4> QED BY <1>3, <1>4, <3>4, <3>5, <4>1
    <3>7. mark /\ ok
      BY <1>1, <1>2, <2>1, <3>6, Zenon DEF WholeTo
    <3>8. SoundInput
      BY <1>1, <1>2, <3>4, <3>6, <3>7, Zenon DEF WholeTo
    <3> QED BY <1>2, <3>6, <3>8
  <2> QED BY <2>2, <2>3
<1> QED BY <1>6, <1>7

(* ... and a sound input ends somewhere.                                   *)
LEMMA SoundEnds ==
  ASSUME InputOK, SoundInput
  PROVE  \E e \in Nat : EndsAt(e)
<1>1. PICK s, ok, mark : WholeTo(s, ok, mark)
  BY WholeIs
<1>2. PICK m, n, limit, e : m = Len(Full) /\ n = Len(input.bytes) /\ limit = input.outSize /\ e = s - 1
  OBVIOUS
<1>3. /\ n \in Nat /\ s \in 1 .. n + 1 /\ e \in Nat /\ m \in Nat /\ e + 1 = s
      /\ limit # NoSize => limit \in Nat
  BY <1>1, <1>2 DEF WholeTo, TextTo, InputOK, Streams
<1>4. Outputs(e) = m
  <2>1. Outputs(0) = 0
    BY OutputsNext
  <2> QED BY <1>1, <1>2, <1>3, <2>1 DEF WholeTo, TextTo
<1>5. UpTo(e)
  BY <1>1, <1>2, <1>3, <1>4 DEF WholeTo, TextTo, UpTo, InSize
<1>6. \/ mark /\ (input.finishMode /\ limit # NoSize => m = limit)
      \/ ~ input.finishMode /\ limit = m
  BY <1>1, <1>2 DEF WholeTo
<1>7. CASE mark /\ (input.finishMode /\ limit # NoSize => m = limit)
  <2>1. s # n + 1 /\ input.bytes[s] = "end"
    BY <1>1, <1>2, <1>7, Zenon DEF WholeTo
  <2>2. e < n
    BY <1>3, <2>1
  <2> QED BY <1>2, <1>3, <1>4, <1>5, <1>7, <2>1, <2>2 DEF EndsAt
<1>8. CASE ~ input.finishMode /\ limit = m
  <2>1. limit # NoSize
    BY <1>3, <1>8 DEF NoSize
  <2> QED BY <1>2, <1>3, <1>4, <1>5, <1>8, <2>1 DEF EndsAt, FullAt
<1> QED BY <1>6, <1>7, <1>8
-----------------------------------------------------------------------------
(* The stream has all that was asked for.                                  *)
AtLimit == ~ input.finishMode /\ input.outSize # NoSize /\ input.outSize <= Len(out.bytes)

(* All of the input was decoded, or as much as was asked for.              *)
AllThere == TextAt(Len(input.bytes)) \/ AtLimit

(* When all that was asked for was written, the input may end there.       *)
LEMMA LimitEnds ==
  ASSUME InputOK, Told, AtLimit
  PROVE  \E z \in Nat : EndsAt(z) /\ Outputs(z) = Len(out.bytes)
<1>1. PICK n, b, limit : n = Len(out.bytes) /\ b = out.bytes /\ limit = input.outSize
  OBVIOUS
<1>2. n \in Nat /\ n = limit /\ Len(input.bytes) \in Nat
  <2>1. n \in Nat
    BY <1>1, SeqItems DEF Told
  <2> QED BY <1>1, <2>1 DEF Told, InSize, AtLimit, InputOK, Streams
<1>3. ~ input.finishMode /\ input.outSize # NoSize
  BY DEF AtLimit
<1>4. Outputs(0) = 0
  BY OutputsNext
<1>5. CASE n = 0
  <2>1. 0 \in Nat /\ UpTo(0)
    BY <1>1, <1>2, <1>4, <1>5 DEF UpTo, Plain, InSize
  <2> QED BY <1>1, <1>2, <1>3, <1>4, <1>5, <2>1 DEF EndsAt, FullAt
<1>6. CASE n # 0
  <2>1. n \in 1 .. n
    BY <1>2, <1>6
  <2>2. Nth(0, n, b[n])
    BY <1>1, <2>1 DEF Told, Texts
  <2>3. PICK z : z = b[n]
    OBVIOUS
  <2>4. z \in Nat /\ z <= Len(input.bytes) /\ Plain(0, z) /\ Outputs(z) = n
    BY <1>2, <1>4, <2>2, <2>3 DEF Nth
  <2>5. UpTo(z)
    BY <1>1, <1>2, <2>4 DEF UpTo, InSize
  <2> QED BY <1>1, <1>2, <1>3, <2>4, <2>5 DEF EndsAt, FullAt
<1> QED BY <1>5, <1>6

(* When all of the input was decoded and more was asked for, it has no     *)
(* place to end at.                                                        *)
LEMMA NoEndThere ==
  ASSUME InputOK, TextAt(Len(input.bytes)), ~ AtLimit, NEW e, EndsAt(e)
  PROVE  FALSE
<1>1. PICK n, m, limit : n = Len(input.bytes) /\ m = Len(out.bytes) /\ limit = input.outSize
  OBVIOUS
<1>2. /\ n \in Nat /\ m \in Nat /\ Plain(0, n) /\ Outputs(n) = m /\ e \in Nat /\ e <= n
      /\ limit # NoSize => limit \in Nat
  <2>1. Outputs(0) = 0
    BY OutputsNext
  <2> QED BY <1>1, <2>1 DEF TextAt, TextTo, EndsAt, UpTo, InputOK, Streams
<1>3. ~ (e < n /\ input.bytes[e + 1] = "end")
  <2>1. ASSUME e < n PROVE input.bytes[e + 1] # "end"
    <3>1. e + 1 \in Int /\ 0 < e + 1 /\ e + 1 <= n
      BY <1>2, <2>1
    <3> QED BY <1>2, <3>1 DEF Plain
  <2> QED BY <2>1
<1>4. FullAt(e)
  BY <1>1, <1>3 DEF EndsAt
<1>5. Outputs(e) <= m
  BY <1>2, OutputsGrow
<1> QED BY <1>1, <1>2, <1>4, <1>5 DEF FullAt, AtLimit

(* What Lzma2Dec_Decode_ST answers after it decoded d, with size bytes     *)
(* written.                                                                *)
Answered(answer, size) ==
  /\ answer \in {OK, "DATA", "EOF", "READ", "more"}
  /\ answer \in {"DATA", "EOF"} => ~ SoundInput
  /\ answer = OK => \E z \in Nat : EndsAt(z) /\ Outputs(z) = size

(* With nothing left to decode.                                            *)
LEMMA AnswerAtEnd ==
  ASSUME InputOK, Told, rd.res \in {OK, "READ"}, st.src = << >>, rd.res # OK \/ AllThere,
         NEW d, d = Decode(input.bytes, st.src, Len(out.bytes), input.outSize, ~ input.finishMode),
         d.out = << >>, d.ok, ~ d.mark, NEW size, size = Len(out.bytes)
  PROVE  Answered(StAnswer(d, size), size) /\ StAnswer(d, size) # "more"
<1>1. CASE AtLimit
  <2>1. StAnswer(d, size) = IF rd.res # OK THEN rd.res ELSE OK
    BY <1>1 DEF StAnswer, AtLimit, OK
  <2>2. \E z \in Nat : EndsAt(z) /\ Outputs(z) = size
    BY <1>1, LimitEnds
  <2> QED BY <2>1, <2>2 DEF Answered, OK
<1>2. CASE ~ AtLimit
  <2>1. StAnswer(d, size) = IF rd.res # OK THEN rd.res ELSE "EOF"
    BY <1>2 DEF StAnswer, AtLimit, OK
  <2>2. ASSUME rd.res = OK PROVE ~ SoundInput
    <3>1. TextAt(Len(input.bytes))
      BY <1>2, <2>2 DEF AllThere
    <3> QED BY <1>2, <3>1, SoundEnds, NoEndThere
  <2> QED BY <2>1, <2>2 DEF Answered, OK
<1> QED BY <1>1, <1>2

(* ... and from what was read up to x.                                     *)
LEMMA AnswerOnTheWay ==
  ASSUME InputOK, rd.res \in {OK, "READ"}, st.src # << >>, NEW y \in Nat, TextAt(y),
         RunFrom(st.src, y), y + Len(st.src) <= Len(input.bytes), Len(st.src) \in Nat,
         NEW n, n = Len(out.bytes), NEW d, NEW s,
         Decodes(d, st.src, y, n, input.outSize, ~ input.finishMode, s)
  PROVE  Answered(StAnswer(d, n + Len(d.out)), n + Len(d.out))
<1>1. PICK z, m, k, limit : z = y + (s - 1) /\ m = Len(st.src) /\ k = n + Len(d.out) /\ limit = input.outSize
  OBVIOUS
<1>2. /\ Len(input.bytes) \in Nat /\ m \in Nat /\ s \in 1 .. m + 1 /\ z \in Nat /\ y <= z
      /\ y + m <= Len(input.bytes) /\ z <= y + m /\ z + 1 = y + s
      /\ limit # NoSize => limit \in Nat
  BY <1>1 DEF Decodes, InputOK, Streams
<1>3. n \in Nat /\ Outputs(y) = n /\ Plain(0, y)
  <2>1. Outputs(0) = 0
    BY OutputsNext
  <2> QED BY <2>1 DEF TextAt, TextTo
<1>4. k \in Nat /\ Outputs(z) = k /\ Plain(y, z) /\ (limit # NoSize => k <= limit)
  <2>1. TextTo(d.out, y, z) /\ (limit # NoSize => n + Len(d.out) <= limit)
    BY <1>1 DEF Decodes
  <2>2. PICK e, x : e = d.out /\ x = Len(e)
    OBVIOUS
  <2>3. x \in Nat /\ Plain(y, z) /\ Outputs(z) = Outputs(y) + x
    BY <2>1, <2>2 DEF TextTo
  <2>4. k = n + x /\ (limit # NoSize => n + x <= limit)
    BY <1>1, <2>1, <2>2
  <2> QED BY <1>3, <2>3, <2>4
<1>5. UpTo(z)
  <2>1. Plain(0, z)
    <3>1. SUFFICES ASSUME NEW j \in Int, 0 < j, j <= z PROVE input.bytes[j] \in {"new", "data"}
      BY DEF Plain
    <3>2. CASE j <= y
      BY <1>3, <3>1, <3>2 DEF Plain
    <3>3. CASE y < j
      BY <1>4, <3>1, <3>3 DEF Plain
    <3> QED BY <3>2, <3>3
  <2>2. z <= Len(input.bytes)
    BY <1>2
  <2>3. InSize(Outputs(z))
    BY <1>1, <1>4 DEF InSize
  <2> QED BY <1>2, <2>1, <2>2, <2>3 DEF UpTo
<1>6. FullAt(z) <=> ~ input.finishMode /\ limit # NoSize /\ k = limit
  BY <1>1, <1>4 DEF FullAt
<1>7. /\ d.mark <=> s # m + 1 /\ ~ FullAt(z) /\ input.bytes[z + 1] = "end"
      /\ d.ok <=> s = m + 1 \/ FullAt(z) \/ d.mark
      /\ \/ s = m + 1 \/ input.bytes[z + 1] \in {"end", "bad", "err"} \/ (limit # NoSize /\ k = limit)
  <2>1. /\ d.mark <=> /\ ~ (s = m + 1 \/ (~ input.finishMode /\ limit # NoSize /\ k = limit))
                      /\ input.bytes[y + s] = "end"
        /\ d.ok <=> (s = m + 1 \/ (~ input.finishMode /\ limit # NoSize /\ k = limit)) \/ d.mark
        /\ \/ s = m + 1 \/ input.bytes[y + s] \in {"end", "bad", "err"}
           \/ limit # NoSize /\ k = limit
    BY <1>1, Zenon DEF Decodes
  <2> QED BY <1>2, <1>6, <2>1, Zenon
<1>8. s # m + 1 => z < Len(input.bytes)
  BY <1>2
<1>9. PICK a : a = StAnswer(d, k)
  OBVIOUS
<1>10. CASE ~ d.ok
  <2>1. StuckAt(z)
    BY <1>1, <1>4, <1>5, <1>6, <1>7, <1>8, <1>10 DEF StuckAt
  <2>2. ~ SoundInput
    BY <2>1, SoundEnds, StuckNeverEnds
  <2>3. a = "DATA"
    BY <1>9, <1>10 DEF StAnswer, OK
  <2> QED BY <1>1, <1>9, <2>2, <2>3 DEF Answered, OK
<1>11. CASE d.ok /\ d.mark
  <2>1. z < Len(input.bytes) /\ input.bytes[z + 1] = "end"
    BY <1>7, <1>8, <1>11
  <2>2. CASE input.finishMode /\ limit # NoSize /\ limit # k
    <3>1. a = "DATA"
      BY <1>1, <1>9, <1>11, <2>2 DEF StAnswer, OK
    <3>2. ASSUME NEW e \in Nat, EndsAt(e) PROVE FALSE
      <4>1. /\ e < Len(input.bytes) /\ input.bytes[e + 1] = "end" /\ Outputs(e) = limit /\ Plain(0, e)
        BY <1>1, <2>2, <3>2 DEF EndsAt, FullAt, UpTo
      <4>2. ~ (e < z)
        <5>1. ASSUME e < z PROVE FALSE
          <6>1. e + 1 \in Int /\ 0 < e + 1 /\ e + 1 <= z
            BY <1>2, <5>1
          <6> QED BY <1>5, <4>1, <6>1 DEF UpTo, Plain
        <5> QED BY <5>1
      <4>3. ~ (z < e)
        <5>1. ASSUME z < e PROVE FALSE
          <6>1. z + 1 \in Int /\ 0 < z + 1 /\ z + 1 <= e
            BY <1>2, <5>1
          <6> QED BY <2>1, <4>1, <6>1 DEF Plain
        <5> QED BY <5>1
      <4>4. e = z
        BY <1>2, <4>2, <4>3
      <4> QED BY <1>4, <2>2, <4>1, <4>4
    <3>3. ~ SoundInput
      BY <3>2, SoundEnds
    <3> QED BY <1>1, <1>9, <3>1, <3>3 DEF Answered, OK
  <2>3. CASE ~ (input.finishMode /\ limit # NoSize /\ limit # k)
    <3>1. a = IF rd.res # OK THEN rd.res ELSE OK
      BY <1>1, <1>9, <1>11, <2>3 DEF StAnswer, OK
    <3>2. EndsAt(z)
      BY <1>1, <1>4, <1>5, <2>1, <2>3 DEF EndsAt
    <3> QED BY <1>1, <1>2, <1>4, <1>9, <3>1, <3>2 DEF Answered, OK
  <2> QED BY <2>2, <2>3
<1>12. CASE d.ok /\ ~ d.mark
  <2>1. CASE ~ input.finishMode /\ limit # NoSize /\ limit <= k
    <3>1. a = IF rd.res # OK THEN rd.res ELSE OK
      BY <1>1, <1>9, <1>12, <2>1 DEF StAnswer, OK
    <3>2. EndsAt(z)
      <4>1. k = limit
        BY <1>2, <1>4, <2>1
      <4> QED BY <1>5, <1>6, <2>1, <4>1 DEF EndsAt
    <3> QED BY <1>1, <1>2, <1>4, <1>9, <3>1, <3>2 DEF Answered, OK
  <2>2. CASE ~ (~ input.finishMode /\ limit # NoSize /\ limit <= k)
    <3>1. a = "more"
      BY <1>1, <1>9, <1>12, <2>2 DEF StAnswer, OK
    <3> QED BY <1>1, <1>9, <3>1 DEF Answered, OK
  <2> QED BY <2>1, <2>2
<1> QED BY <1>10, <1>11, <1>12
-----------------------------------------------------------------------------
(* Reading ends with the input or with a failure, and not before.          *)
FinOK ==
  /\ rd.finished => rd.res # OK \/ rd.pos = Len(input.bytes)
  /\ ~ rd.finished => rd.res = OK

(* Each step keeps the stream's end a true one. *)
LEMMA FinKept == Inv /\ FinOK /\ [Next]_vars => FinOK'
<1> SUFFICES ASSUME Inv, FinOK, [Next]_vars PROVE FinOK'
  OBVIOUS
<1>1. RdOK /\ InputOK /\ Len(input.bytes) \in Nat /\ InBufSize \in Nat \ {0}
      /\ rd.pos \in 0 .. Len(input.bytes)
  BY MtDecAssumption DEF Inv, Control, InputOK, RdOK, Streams
<1>2. CASE Call
  <2>1. ~ rd'.finished /\ rd'.res = OK
    BY <1>2 DEF Call, Rd0
  <2> QED BY <2>1 DEF FinOK
<1>3. CASE input' = input /\ rd'.finished = rd.finished /\ rd'.res = rd.res /\ rd'.pos = rd.pos
  BY <1>3 DEF FinOK
<1>4. CASE Main /\ ~ Call /\ ~ StRead
  <2>1. CASE CodeReturns
    BY <1>3, <2>1 DEF CodeReturns
  <2>2. CASE Prepare
    <3>1. rd' = rd \/ rd' = [rd EXCEPT !.crossBlock = FALSE]
      BY <2>2 DEF Prepare
    <3> QED BY <1>1, <1>3, <2>2, <3>1 DEF Prepare, RdOK
  <2>3. CASE MtDec_Read
    <3>1. \/ rd' = rd
          \/ rd' = [rd EXCEPT !.cross = << >>, !.crossBlock = rd.cross # << >>]
      BY <2>3 DEF MtDec_Read
    <3> QED BY <1>1, <1>3, <2>3, <3>1 DEF MtDec_Read, RdOK
  <2>4. CASE StDecode
    BY <1>3, <2>4 DEF StDecode
  <2> QED BY <1>4, <2>1, <2>2, <2>3, <2>4 DEF Main
<1>5. CASE StRead
  <2>1. CASE rd.finished
    <3>1. rd' = rd /\ input' = input
      BY <1>5, <2>1, Zenon DEF StRead
    <3> QED BY <1>3, <3>1
  <2>2. CASE ~ rd.finished
    <3>1. \E k \in 0 .. InBufSize, ok \in BOOLEAN :
             /\ ReadMax(k, ok)
             /\ rd' = [rd EXCEPT !.pos = @ + k, !.finished = k = 0 \/ ~ ok,
                                 !.res = IF ok THEN OK ELSE "READ"]
             /\ st' = [st EXCEPT !.src = NextBytes(k), !.expect = @ + k,
                         !.inOrder = @ /\ (k # 0 => rd.pos + 1 = st.expect)]
      <4>1. \/ rd.finished /\ st' = [st EXCEPT !.src = << >>] /\ UNCHANGED rd
            \/ ~ rd.finished /\ \E k \in 0 .. InBufSize, ok \in BOOLEAN :
             /\ ReadMax(k, ok)
             /\ rd' = [rd EXCEPT !.pos = @ + k, !.finished = k = 0 \/ ~ ok,
                                 !.res = IF ok THEN OK ELSE "READ"]
             /\ st' = [st EXCEPT !.src = NextBytes(k), !.expect = @ + k,
                         !.inOrder = @ /\ (k # 0 => rd.pos + 1 = st.expect)]
        BY <1>5, Zenon DEF StRead
      <4> QED BY <2>2, <4>1, Zenon
    <3>2. PICK k \in 0 .. InBufSize, ok \in BOOLEAN :
             /\ ReadMax(k, ok)
             /\ rd' = [rd EXCEPT !.pos = @ + k, !.finished = k = 0 \/ ~ ok,
                                 !.res = IF ok THEN OK ELSE "READ"]
             /\ st' = [st EXCEPT !.src = NextBytes(k), !.expect = @ + k,
                         !.inOrder = @ /\ (k # 0 => rd.pos + 1 = st.expect)]
      BY <3>1, Zenon
    <3>3. /\ rd'.pos = rd.pos + k /\ (rd'.finished <=> k = 0 \/ ~ ok)
          /\ rd'.res = IF ok THEN OK ELSE "READ"
      <4>1. PICK f : f = (k = 0 \/ ~ ok)
        OBVIOUS
      <4>2. rd' = [rd EXCEPT !.pos = @ + k, !.finished = f, !.res = IF ok THEN OK ELSE "READ"]
        BY <3>2, <4>1
      <4>3. rd'.pos = rd.pos + k /\ rd'.finished = f /\ rd'.res = IF ok THEN OK ELSE "READ"
        BY <1>1, <4>2 DEF RdOK
      <4> QED BY <4>1, <4>3, Zenon
    <3>4. rd.res = OK /\ input' = input
      BY <1>5, <2>2 DEF FinOK, StRead
    <3>5. ok /\ k = 0 => rd.pos = Len(input.bytes)
      BY <1>1, <3>2, <3>4 DEF ReadMax, Smaller
    <3> QED BY <1>1, <3>3, <3>4, <3>5 DEF FinOK, OK
  <2> QED BY <2>1, <2>2
<1>6. CASE \E t \in Threads : Thread(t)
  <2>1. PICK t \in Threads : Thread(t)
    BY <1>6
  <2>2. input' = input
    BY <2>1 DEF Thread, WaitRead, ReadNoLink, ReadCross, ReadLink, ParseOverflow, ParseContinue,
       ParseEnd, ParseNew, StoreParsed, PreCode, StartNext, StartNone, CodeFails, CodeLink,
       CodeUnprepared, Write, caller
  <2>3. CASE ReadLink(t)
    <3> DEFINE l == th[t].l
               size(k)    == l.size + k
               finish(k, ok) == ~ ok \/ k # InBufSize
               checks(k)  == size(k) # l.checked
               was(k)     == checks(k) /\ InterruptedBefore(l.blockIndex)
               res(k, r)  == IF checks(k) THEN r ELSE OK
               mm(k, ok, r) == [l EXCEPT !.size = size(k), !.checked = size(k), !.last = k,
                                         !.start = IF Links(t) = 0 THEN k ELSE @,
                                         !.finish = finish(k, ok), !.res = res(k, r),
                                         !.wasInterrupted = was(k)]
    <3>a. PICK k \in 0 .. InBufSize, ok \in BOOLEAN, r \in ProgressResults :
            /\ ReadMax(k, ok)
            /\ checks(k) \/ r = sync.res
            /\ rd' = [rd EXCEPT !.pos = @ + k, !.finished = @ \/ finish(k, ok),
                                !.res = IF ok THEN @ ELSE "READ"]
            /\ sync' = [sync EXCEPT !.res = r]
            /\ th' = [th EXCEPT ![t] = [@ EXCEPT !.inBuf = LinkFilled(t, NextBytes(k)), !.l = mm(k, ok, r)]]
            /\ pc' = [pc EXCEPT ![t] = IF res(k, r) = OK /\ ~ was(k) THEN "parse" ELSE "parsed"]
      BY <2>3 DEF ReadLink
    <3>b. PICK f : f = (~ ok \/ k # InBufSize)
      OBVIOUS
    <3>1. /\ ReadMax(k, ok) /\ f = (~ ok \/ k # InBufSize)
          /\ rd' = [rd EXCEPT !.pos = @ + k, !.finished = @ \/ f, !.res = IF ok THEN @ ELSE "READ"]
      BY <3>a, <3>b
    <3>2. /\ rd'.pos = rd.pos + k /\ (rd'.finished <=> rd.finished \/ f)
          /\ rd'.res = IF ok THEN rd.res ELSE "READ"
      BY <1>1, <3>1 DEF RdOK
    <3>3. rd'.finished => rd'.res # OK \/ rd'.pos = Len(input.bytes)
      <4>a. PICK rr : rr = IF ok THEN rd.res ELSE "READ"
        OBVIOUS
      <4>b. PICK g \in BOOLEAN : g <=> rd.finished \/ ~ ok \/ k # InBufSize
        OBVIOUS
      <4>1. (g <=> rd.finished \/ ~ ok \/ k # InBufSize) /\ rr = IF ok THEN rd.res ELSE "READ"
        BY <4>a, <4>b
      <4>2. g => rr # OK \/ rd.pos + k = Len(input.bytes)
        <5>1. k \in Nat /\ (rd.finished => rd.res # OK \/ rd.pos = Len(input.bytes))
          BY <1>1 DEF FinOK
        <5> QED BY <1>1, <3>a, <4>1, <5>1, ReadMaxIs
      <4>3. rd'.finished => g
        BY <3>1, <3>2, <4>1, Zenon
      <4> QED BY <3>2, <4>1, <4>2, <4>3
    <3>4. ~ rd'.finished => rd'.res = OK
      <4>1. ~ rd'.finished => ok /\ ~ rd.finished
        BY <3>1, <3>2, Zenon
      <4> QED BY <3>2, <4>1 DEF FinOK
    <3> QED BY <2>2, <3>3, <3>4 DEF FinOK
  <2>4. CASE ~ ReadLink(t)
    <3>1. rd'.finished = rd.finished /\ rd'.res = rd.res /\ rd'.pos = rd.pos
      <4>1. CASE WaitRead(t) \/ StartNext(t)
        BY <1>1, <4>1 DEF WaitRead, StartNext, RdOK
      <4>2. CASE ParseOverflow(t) \/ ParseContinue(t) \/ ParseEnd(t) \/ ParseNew(t)
        <5>1. CASE ParseOverflow(t)
          BY <1>1, <5>1 DEF ParseOverflow, RdOK
        <5>2. CASE ParseContinue(t)
          BY <1>1, <5>2 DEF ParseContinue, RdOK
        <5>3. CASE ParseEnd(t)
          <6>1. PICK c, o : rd' = [rd EXCEPT !.cross = c, !.outParsed = o]
            BY <5>3 DEF ParseEnd
          <6> QED BY <1>1, <6>1 DEF RdOK
        <5>4. CASE ParseNew(t)
          <6>1. PICK c, o : \/ rd' = [rd EXCEPT !.cross = c, !.crossBlock = TRUE, !.outParsed = o]
                           \/ rd' = [rd EXCEPT !.outParsed = o]
            BY <5>4 DEF ParseNew
          <6> QED BY <1>1, <6>1 DEF RdOK
        <5> QED BY <4>2, <5>1, <5>2, <5>3, <5>4
      <4>3. CASE ReadNoLink(t) \/ ReadCross(t) \/ PreCode(t) \/ StartNone(t) \/ CodeFails(t)
                 \/ CodeLink(t) \/ CodeUnprepared(t) \/ Write(t)
        <5>1. rd' = rd
          BY <4>3 DEF ReadNoLink, ReadCross, PreCode, StartNone, CodeFails, CodeLink, CodeUnprepared, Write
        <5> QED BY <5>1
      <4> QED BY <2>1, <2>4, <4>1, <4>2, <4>3 DEF Thread
    <3> QED BY <1>3, <2>2, <3>1
  <2> QED BY <2>3, <2>4
<1>7. CASE Destroy \/ UNCHANGED vars
  BY <1>3, <1>7 DEF Destroy, vars
<1> QED BY <1>2, <1>4, <1>5, <1>6, <1>7 DEF Next, Main, Done
-----------------------------------------------------------------------------
(* When nothing more is read, all was decoded, or reading failed.          *)
Dried == rd.finished => rd.res # OK \/ AllThere
(* Whoever looks for input finds the last of it gone, or a failure.        *)
Left ==
  /\ mainPc = "prepare" /\ wr.numFilled = 0 /\ rd.cross = << >> => Dried
  /\ mainPc = "read" /\ ~ st.tMode => Dried
  /\ mainPc = "decode" => IF st.src = << >> THEN rd.res # OK \/ AllThere
                          ELSE ~ st.tMode /\ rd.finished => rd.res # OK

(* What was all of the input stays all of it. *)
LEMMA AllStays ==
  ASSUME UNCHANGED <<input, out>>, AllThere
  PROVE  AllThere'
<1>1. PICK p : p = Len(input.bytes)
  OBVIOUS
<1>2. p = Len(input'.bytes)
  BY <1>1
<1>3. TextAt(Len(input.bytes)) => TextAt(Len(input.bytes))'
  BY <1>1, <1>2, TextAtStays
<1>4. AtLimit => AtLimit'
  BY DEF AtLimit
<1> QED BY <1>3, <1>4 DEF AllThere

(* So does a stream that has run dry. *)
LEMMA DriedStays ==
  ASSUME UNCHANGED <<input, out>>, rd'.finished = rd.finished, rd'.res = rd.res, Dried
  PROVE  Dried'
BY AllStays DEF Dried

(* A new call has read nothing yet. *)
LEMMA CallLeft ==
  ASSUME Call
  PROVE  Left'
<1>1. ~ rd'.finished /\ mainPc' \in {"prepare", "run"}
  BY DEF Call, Rd0
<1> QED BY <1>1 DEF Left, Dried

(* Lzma2Dec_Prepare_ST starts with what the threads left. *)
LEMMA PrepareLeft ==
  ASSUME Inv, Handed, Left, Prepare
  PROVE  Left'
<1>1. /\ mainPc = "prepare" /\ mainPc' \in {"read", "idle"} /\ UNCHANGED <<input, wr, out>>
      /\ StDomain /\ RdOK
  BY DEF Prepare, Return, Handed, Inv, Control
<1>2. rd'.finished = rd.finished /\ rd'.res = rd.res
  <2>1. rd' = rd \/ rd' = [rd EXCEPT !.crossBlock = FALSE]
    BY DEF Prepare
  <2> QED BY <1>1, <2>1 DEF RdOK
<1>3. ASSUME ~ st'.tMode PROVE Dried'
  <2>1. PICK b : /\ b <=> input.threads # 1 /\ (wr.numFilled # 0 \/ rd.cross # << >>)
                 /\ st' = [st EXCEPT !.tMode = b, !.expect = wr.inProcessed + 1]
    <3>1. PICK b : /\ b = (input.threads # 1 /\ (wr.numFilled # 0 \/ rd.cross # << >>))
      OBVIOUS
    <3>2. st' = [st EXCEPT !.tMode = b, !.expect = wr.inProcessed + 1]
      BY <3>1 DEF Prepare
    <3> QED BY <3>1, <3>2
  <2>2. st'.tMode = b
    BY <1>1, <2>1 DEF StDomain
  <2>3. wr.numFilled = 0 /\ rd.cross = << >>
    BY <1>1, <1>3, <2>1, <2>2 DEF Handed
  <2> QED BY <1>1, <1>2, <2>3, DriedStays DEF Left
<1> QED BY <1>1, <1>3 DEF Left

(* What is not of the threads any more is in the stream.                   *)
LEMMA MtDec_ReadLeft ==
  ASSUME Inv, Handed, StText, FinOK, MtDec_Read
  PROVE  Left'
<1>1. /\ mainPc = "read" /\ st.tMode /\ UNCHANGED <<input, out>> /\ StDomain /\ RdOK
  BY DEF MtDec_Read, Handed, Inv, Control
<1>2. \/ \E data : Served(data)
      \/ /\ st' = [st EXCEPT !.tMode = FALSE, !.src = << >>, !.inLim = 0] /\ mainPc' = mainPc
         /\ rd.cross = << >>
         /\ wr.numFilled = 0 \/ (st.inLim # 0 /\ th[wr.filledStart].size = 0 /\ wr.numFilled = 1)
         /\ rd' = [rd EXCEPT !.cross = << >>, !.crossBlock = rd.cross # << >>]
  BY DEF MtDec_Read
<1>3. CASE \E data : Served(data)
  <2>1. PICK data : Served(data)
    BY <1>3
  <2>2. PICK b, e : st' = [st EXCEPT !.src = data, !.inLim = Len(data), !.expect = e, !.inOrder = b]
    BY <2>1 DEF Served
  <2>3. /\ st'.tMode /\ st'.src = data /\ mainPc' = IF data = << >> THEN "read" ELSE "decode"
    BY <1>1, <2>1, <2>2 DEF StDomain, Served
  <2> QED BY <2>3 DEF Left
<1>4. CASE /\ st' = [st EXCEPT !.tMode = FALSE, !.src = << >>, !.inLim = 0] /\ mainPc' = mainPc
           /\ rd.cross = << >>
           /\ wr.numFilled = 0 \/ (st.inLim # 0 /\ th[wr.filledStart].size = 0 /\ wr.numFilled = 1)
           /\ rd' = [rd EXCEPT !.cross = << >>, !.crossBlock = rd.cross # << >>]
  <2>1. PICK x : StGiven(x)
    BY <1>1 DEF Handed, StOK
  <2>2. x \in Nat /\ st.expect = x + 1 /\ ToServe(x)
    BY <2>1 DEF StGiven
  <2>3. Front(x)
    <3>1. PICK f, z : f = wr.filledStart /\ z = th[f].size
      OBVIOUS
    <3>2. \/ wr.numFilled = 0 /\ Front(x)
          \/ wr.numFilled = 1 /\ (Front(x + z) \/ x < x + z)
      BY <1>1, <2>2, <3>1 DEF ToServe
    <3>3. wr.numFilled = 1 => z = 0
      BY <1>4, <3>1
    <3> QED BY <2>2, <3>2, <3>3
  <2>4. rd.pos = x
    BY <1>4, <2>2, <2>3 DEF Front
  <2>5. TextAt(x)
    <3>1. st.expect - 1 = x
      BY <2>2
    <3> QED BY <1>1, <3>1 DEF StText
  <2>6. rd'.finished = rd.finished /\ rd'.res = rd.res
    BY <1>1, <1>4 DEF RdOK
  <2>7. Dried
    BY <2>4, <2>5 DEF FinOK, Dried, AllThere
  <2> QED BY <1>1, <1>4, <2>6, <2>7, DriedStays DEF Left
<1> QED BY <1>2, <1>3, <1>4

(* A read of the stream ends it only with its last byte, or a failure. *)
LEMMA StReadLeft ==
  ASSUME Inv, Handed, StText, FinOK, Left, StRead
  PROVE  Left'
<1>1. /\ mainPc = "read" /\ ~ st.tMode /\ mainPc' = "decode" /\ UNCHANGED <<input, out>>
      /\ StDomain /\ RdOK /\ InputOK /\ (rd.finished \/ st.expect = rd.pos + 1)
      /\ rd.pos \in 0 .. Len(input.bytes) /\ Len(input.bytes) \in Nat /\ InBufSize \in Nat \ {0}
  <2>1. /\ mainPc = "read" /\ ~ st.tMode /\ mainPc' = "decode" /\ UNCHANGED <<input, out>>
    BY DEF StRead
  <2>2. StDomain /\ RdOK /\ InputOK /\ (rd.finished \/ st.expect = rd.pos + 1)
    BY <2>1 DEF Handed, StOK, Inv, Control
  <2>3. rd.pos \in 0 .. Len(input.bytes) /\ Len(input.bytes) \in Nat /\ InBufSize \in Nat \ {0}
    BY <2>2, MtDecAssumption DEF RdOK, InputOK, Streams
  <2> QED BY <2>1, <2>2, <2>3
<1>2. SUFFICES IF st'.src = << >> THEN rd'.res # OK \/ AllThere'
               ELSE ~ st'.tMode /\ rd'.finished => rd'.res # OK
  BY <1>1 DEF Left
<1>3. CASE rd.finished
  <2>1. st' = [st EXCEPT !.src = << >>] /\ rd' = rd
    BY <1>3, Zenon DEF StRead
  <2>2. st'.src = << >>
    BY <1>1, <2>1 DEF StDomain
  <2>3. rd.res # OK \/ AllThere
    BY <1>1, <1>3 DEF Left, Dried
  <2> QED BY <1>1, <2>1, <2>2, <2>3, AllStays
<1>4. CASE ~ rd.finished
  <2>1. \E k \in 0 .. InBufSize, ok \in BOOLEAN :
             /\ ReadMax(k, ok)
             /\ rd' = [rd EXCEPT !.pos = @ + k, !.finished = k = 0 \/ ~ ok,
                                 !.res = IF ok THEN OK ELSE "READ"]
             /\ st' = [st EXCEPT !.src = NextBytes(k), !.expect = @ + k,
                         !.inOrder = @ /\ (k # 0 => rd.pos + 1 = st.expect)]
    BY <1>4, Zenon DEF StRead
  <2>2. PICK k \in 0 .. InBufSize, ok \in BOOLEAN :
             /\ ReadMax(k, ok)
             /\ rd' = [rd EXCEPT !.pos = @ + k, !.finished = k = 0 \/ ~ ok,
                                 !.res = IF ok THEN OK ELSE "READ"]
             /\ st' = [st EXCEPT !.src = NextBytes(k), !.expect = @ + k,
                         !.inOrder = @ /\ (k # 0 => rd.pos + 1 = st.expect)]
    BY <2>1, Zenon
  <2>3. st'.src = NextBytes(k)
    <3>1. PICK b : st' = [st EXCEPT !.src = NextBytes(k), !.expect = @ + k, !.inOrder = b]
      BY <2>2
    <3> QED BY <1>1, <3>1 DEF StDomain
  <2>4. (rd'.finished <=> k = 0 \/ ~ ok) /\ rd'.res = IF ok THEN OK ELSE "READ"
    <3>1. PICK f : f = (k = 0 \/ ~ ok)
      OBVIOUS
    <3>2. rd' = [rd EXCEPT !.pos = @ + k, !.finished = f, !.res = IF ok THEN OK ELSE "READ"]
      BY <2>2, <3>1
    <3>3. rd'.finished = f /\ rd'.res = IF ok THEN OK ELSE "READ"
      BY <1>1, <3>2 DEF RdOK
    <3> QED BY <3>1, <3>3, Zenon
  <2>5. CASE k = 0
    <3>1. st'.src = << >>
      BY <2>3, <2>5 DEF NextBytes
    <3>2. ASSUME ok PROVE AllThere'
      <4>1. rd.res = OK
        BY <1>4 DEF FinOK
      <4>2. rd.pos = Len(input.bytes)
        BY <1>1, <2>2, <2>5, <3>2, <4>1 DEF ReadMax, Smaller
      <4>3. st.expect - 1 = Len(input.bytes)
        BY <1>1, <1>4, <4>2
      <4>4. TextAt(Len(input.bytes))
        BY <1>1, <1>4, <4>3 DEF StText
      <4> QED BY <1>1, <4>4, AllStays DEF AllThere
    <3> QED BY <2>4, <3>1, <3>2 DEF OK
  <2>6. CASE k # 0
    <3>1. st'.src # << >>
      <4>1. Len(NextBytes(k)) = k
        BY <2>6 DEF NextBytes
      <4> QED BY <2>3, <2>6, <4>1
    <3> QED BY <2>4, <2>6, <3>1 DEF OK
  <2> QED BY <2>5, <2>6
<1> QED BY <1>3, <1>4

-----------------------------------------------------------------------------
(* ToldInOrder, of the state after a step. *)
LEMMA ToldInOrderPrimed == InputOK' /\ Told' => WritesInOrder'
<1>1. InputOK /\ Told => WritesInOrder
  BY ToldInOrder
<1> QED BY <1>1, PTL

(* All of a sequence is the sequence.                                      *)
LEMMA FirstIsAll ==
  ASSUME NEW s, IsSeq(s)
  PROVE  FirstBytes(s, Len(s)) = s
<1>1. PICK S : s \in Seq(S)
  BY DEF IsSeq
<1>2. Len(s) \in Nat /\ Len(s) \in 0 .. Len(s)
  BY <1>1
<1>3. FirstBytes(s, Len(s)) \in Seq(S)
  BY <1>1, <1>2 DEF FirstBytes
<1>4. /\ Len(FirstBytes(s, Len(s))) = Len(s)
      /\ \A n \in 1 .. Len(s) : FirstBytes(s, Len(s))[n] = s[n]
  BY <1>2, SeqItems
<1> QED BY <1>1, <1>3, <1>4

(* The single-threaded decoder answers what AnswerRight says, and asks for *)
(* more only while there may be more.                                      *)
LEMMA StDecodeLeft ==
  ASSUME Inv, Handed, Told, Told', StText, Left, StDecode
  PROVE  Left' /\ AnswerRight'
<1> DEFINE n == Len(out.bytes)
           d == Decode(input.bytes, st.src, n, input.outSize, ~ input.finishMode)
           answer == StAnswer(d, n + Len(d.out))
<1>1. /\ mainPc = "decode" /\ mainPc' \in {"read", "idle"} /\ UNCHANGED <<input, rd, st>>
      /\ OutDomain /\ InputOK /\ rd.res \in {OK, "READ"}
  BY DEF StDecode, Return, Handed, Inv, Control, RdOK
<1>2. input.bytes \in Seq(Kinds) /\ input.outSize \in Nat \cup {NoSize} /\ (~ input.finishMode) \in BOOLEAN
  BY <1>1 DEF InputOK, Streams
<1>3. n \in Nat /\ (input.outSize # NoSize => n <= input.outSize)
  BY SeqItems DEF Told, InSize
<1>4. /\ mainPc' = "read" => answer = "more"
      /\ mainPc' = "idle" => \/ result' \in {"PROGRESS", "WRITE"}
                             \/ /\ result' = answer /\ answer # "more"
                                /\ out'.bytes = out.bytes \o d.out
  <2>1. \/ /\ out' = [out EXCEPT !.bytes = @ \o d.out]
           /\ \/ answer # "more" /\ Return(answer)
              \/ answer = "more" /\ mainPc' = "read"
              \/ Return("PROGRESS")
        \/ Return("WRITE")
    BY DEF StDecode
  <2> HIDE DEF answer, d
  <2> QED BY <1>1, <2>1 DEF Return, OutDomain
<1>5. ASSUME NEW y \in Nat, Len(st.src) \in Nat, RunFrom(st.src, y),
             y + Len(st.src) <= Len(input.bytes)
      PROVE  \E s : Decodes(d, st.src, y, n, input.outSize, ~ input.finishMode, s)
  <2>1. PICK src, e, any, limit : src = st.src /\ e = d /\ any = (~ input.finishMode) /\ limit = input.outSize
    OBVIOUS
  <2>2. e = Decode(input.bytes, src, n, limit, any)
    BY <2>1
  <2> HIDE DEF d, n
  <2>3. \E s : Decodes(e, src, y, n, limit, any, s)
    BY <1>2, <1>3, <1>5, <2>1, <2>2, DecodeText
  <2> QED BY <2>1, <2>3
<1>6. /\ Answered(answer, n + Len(d.out)) /\ IsSeq(d.out)
      /\ answer = "more" => st.src # << >>
  <2>1. CASE st.src = << >>
    <3>1. 0 \in Nat /\ Len(st.src) = 0 /\ Len(input.bytes) \in Nat
      BY <1>2, <2>1
    <3>2. RunFrom(st.src, 0)
      BY <3>1 DEF RunFrom
    <3>3. \E s : Decodes(d, st.src, 0, n, input.outSize, ~ input.finishMode, s)
      BY <1>5, <3>1, <3>2
    <3>d. PICK e : e = d
      OBVIOUS
    <3>e. e = Decode(input.bytes, st.src, Len(out.bytes), input.outSize, ~ input.finishMode)
      BY <3>d
    <3> HIDE DEF d
    <3>4. PICK s : Decodes(d, st.src, 0, n, input.outSize, ~ input.finishMode, s)
      BY <3>3
    <3>5. s = 1 /\ TextTo(d.out, 0, 0 + (s - 1)) /\ ~ d.mark /\ d.ok
      BY <3>1, <3>4 DEF Decodes
    <3>6. IsSeq(d.out) /\ Len(d.out) = 0
      <4>1. TextTo(d.out, 0, 0)
        BY <3>5
      <4>2. Outputs(0) = 0
        BY OutputsNext
      <4> QED BY <4>1, <4>2 DEF TextTo
    <3>7. d.out = << >>
      <4>1. PICK S : d.out \in Seq(S)
        BY <3>6 DEF IsSeq
      <4> QED BY <3>6, <4>1
    <3>8. rd.res # OK \/ AllThere
      BY <1>1, <2>1 DEF Left
    <3>9. PICK size : size = n
      OBVIOUS
    <3>10. n + Len(d.out) = size
      BY <1>3, <3>6, <3>9
    <3>11. Answered(StAnswer(e, size), size) /\ StAnswer(e, size) # "more"
      BY <1>1, <2>1, <3>d, <3>e, <3>5, <3>7, <3>8, <3>9, AnswerAtEnd
    <3> QED BY <3>d, <3>6, <3>10, <3>11
  <2>2. CASE st.src # << >>
    <3>1. PICK y : AtDecode(y)
      BY <1>1, <2>2 DEF StText
    <3>2. /\ y \in Nat /\ Len(st.src) \in Nat /\ TextAt(y)
          /\ RunFrom(st.src, y) /\ y + Len(st.src) <= Len(input.bytes)
      BY <3>1 DEF AtDecode
    <3>3. \E s : Decodes(d, st.src, y, n, input.outSize, ~ input.finishMode, s)
      BY <1>5, <3>2
    <3>4. PICK e, m : e = d /\ m = n
      OBVIOUS
    <3> HIDE DEF d, n
    <3>5. PICK s : Decodes(e, st.src, y, m, input.outSize, ~ input.finishMode, s)
      BY <3>3, <3>4
    <3>6. m = Len(out.bytes)
      BY <3>4 DEF n
    <3>7. Answered(StAnswer(e, m + Len(e.out)), m + Len(e.out))
      BY <1>1, <2>2, <3>2, <3>5, <3>6, AnswerOnTheWay
    <3>8. IsSeq(e.out)
      BY <3>5 DEF Decodes, TextTo
    <3> QED BY <2>2, <3>4, <3>7, <3>8
  <2> QED BY <2>1, <2>2
<1> HIDE DEF answer, d
<1>7. ASSUME mainPc' = "read", ~ st'.tMode PROVE Dried'
  <2>1. st.src # << >>
    BY <1>4, <1>6, <1>7
  <2>2. rd.finished => rd.res # OK
    BY <1>1, <1>7, <2>1 DEF Left
  <2> QED BY <1>1, <2>2 DEF Dried
<1>8. Left'
  BY <1>1, <1>7 DEF Left
<1>9. (SoundInput' <=> SoundInput) /\ Full' = Full
  BY <1>1 DEF SoundInput, Full
<1>10. ASSUME mainPc' = "idle", result' = answer, answer # "more", out'.bytes = out.bytes \o d.out,
              result' = OK
       PROVE  SoundInput /\ out'.bytes = Full
  <2>1. PICK z \in Nat : EndsAt(z) /\ Outputs(z) = n + Len(d.out)
    BY <1>6, <1>10 DEF Answered
  <2>2. SoundInput /\ Len(Full) = Outputs(z)
    BY <1>1, <2>1, EndIsSound
  <2>3. Len(out'.bytes) = n + Len(d.out)
    BY <1>6, <1>10, SeqItems DEF Told
  <2>4. WritesInOrder'
    <3>1. InputOK'
      BY <1>1 DEF InputOK
    <3> QED BY <3>1, ToldInOrderPrimed
  <2>5. out'.bytes = FirstBytes(Full, Len(Full))
    BY <1>9, <2>1, <2>2, <2>3, <2>4 DEF WritesInOrder
  <2>6. FirstBytes(Full, Len(Full)) = Full
    BY <1>1, FullIs, FirstIsAll
  <2> QED BY <2>2, <2>5, <2>6
<1>11. ASSUME mainPc' = "idle"
       PROVE  /\ SoundInput => /\ result' \in {OK, "MEM", "PROGRESS", "READ", "WRITE"}
                               /\ result' = OK => out'.bytes = Full
              /\ result' = OK => SoundInput
  <2>1. CASE result' \in {"PROGRESS", "WRITE"}
    BY <2>1 DEF OK
  <2>2. CASE result' = answer /\ answer # "more" /\ out'.bytes = out.bytes \o d.out
    <3>1. answer \in {OK, "DATA", "EOF", "READ"} /\ (answer \in {"DATA", "EOF"} => ~ SoundInput)
      BY <1>6, <2>2 DEF Answered
    <3> QED BY <1>10, <1>11, <2>2, <3>1
  <2> QED BY <1>4, <1>11, <2>1, <2>2
<1> QED BY <1>8, <1>9, <1>11 DEF AnswerRight

-----------------------------------------------------------------------------
(* What the parser says of the bytes from y on, the next of the block.     *)
Exact(t, y) ==
  LET p == Parsed(t)
  IN  /\ \A k \in 1 .. p.used :
           /\ input.bytes[y + k] = "err" => k = p.used /\ p.state \in {"ERROR", "OVERFLOW"}
           /\ p.state # "OVERFLOW" => Before(y + k)
      /\ p.state = "MARK" => input.bytes[y + p.used] = "end"
      /\ p.state = "ERROR" => input.bytes[y + p.used] = "err"
      /\ p.state = "NEW" => y + p.used < Len(input.bytes) /\ input.bytes[y + p.used + 1] = "new"
      /\ p.used = 0 /\ th[t].l.inPreSize = 0 => p.state \in {"CONTINUE", "STOP"}

(* The parser takes no byte past the output asked for.                     *)
LEMMA ParseBefore ==
  ASSUME NEW t \in Threads, NEW a, Looking(t, a), Given(t, a), Found(t, a),
         NEW p, p = Parsed(t), p.state # "OVERFLOW", NEW c \in BOOLEAN,
         c <=> ~ OutLimited \/ input.finishMode,
         Within(p, input.bytes, Src(t), th[t].l.outPreSize, OutLimit, c),
         InSize(rd.outParsed + p.out), NEW k \in 1 .. p.used
  PROVE  Before(a + th[t].l.inPreSize + k)
<1>1. SUFFICES ASSUME ~ input.finishMode, input.outSize # NoSize
               PROVE  Outputs((a + th[t].l.inPreSize + k) - 1) < input.outSize
  BY DEF Before
<1>2. PICK src, s, o, y, d, u, v, lim, i :
        /\ src = Src(t) /\ s = input.outSize /\ o = rd.outParsed /\ y = a + th[t].l.inPreSize
        /\ d = th[t].l.outPreSize /\ u = p.used /\ v = p.out /\ lim = OutLimit /\ i = k
  OBVIOUS
<1>3. /\ a \in Nat /\ y \in Nat /\ a <= y /\ Len(src) \in Nat /\ RunFrom(src, y) /\ u \in Nat
      /\ u <= Len(src) /\ v \in Nat /\ o \in Nat /\ s \in Nat /\ d = Outputs(y) - Outputs(a)
      /\ rd.pos = y + Len(src) /\ OutBlockMax \in Nat /\ th[t].l.inPreSize \in Nat
      /\ v = Outputs(y + u) - Outputs(a)
  <2>1. /\ a \in Nat /\ y \in Nat /\ Len(src) \in Nat /\ RunFrom(src, y) /\ th[t].l.inPreSize \in Nat
        /\ d = Outputs(y) - Outputs(a) /\ rd.pos = y + Len(src)
    BY <1>2 DEF Given, Looking
  <2>2. /\ u \in Nat /\ u <= Len(src) /\ v \in Nat /\ v = Outputs(y + u) - Outputs(a)
    BY <1>2, <2>1 DEF Found
  <2>3. o \in Nat /\ s \in Nat /\ OutBlockMax \in Nat
    BY <1>1, <1>2, Lzma2BlocksAssumption DEF Looking, RdOK, InputOK
  <2>4. a <= y
    <3>1. PICK x : x = th[t].l.inPreSize
      OBVIOUS
    <3>2. x \in Nat /\ a \in Nat /\ y = a + x
      BY <1>2, <2>1, <3>1
    <3> QED BY <3>2
  <2> QED BY <2>1, <2>2, <2>3, <2>4
<1>4. i \in 1 .. u /\ i \in Nat /\ i - 1 \in 0 .. Len(src) /\ (i - 1) + 1 = i /\ y + (i - 1) \in Nat
      /\ y + (i - 1) <= y + u /\ i >= 1 /\ (y + i) - 1 = y + (i - 1)
  <2>1. i \in 1 .. u
    BY <1>2
  <2>2. u \in Nat /\ y \in Nat /\ Len(src) \in Nat /\ u <= Len(src)
    BY <1>3
  <2> HIDE <1>2, <1>3
  <2> QED BY <2>1, <2>2
<1>5. PICK q, r, z, h : q = Outputs(y + (i - 1)) /\ r = Outputs(y + u) /\ z = Outputs(a) /\ h = Outputs(y)
  OBVIOUS
<1>6. q <= r /\ q \in Nat /\ r \in Nat /\ z \in Nat /\ h \in Nat
  <2>1. y + u \in Nat
    BY <1>3
  <2> QED BY <1>3, <1>4, <1>5, <2>1, OutputsGrow
<1>7. o = z
  <2>1. Len(src) >= 1
    BY <1>3, <1>4
  <2>2. rd.pos # a
    BY <1>3, <2>1
  <2>3. Level(a)
    BY DEF Looking, Reader
  <2> QED BY <1>2, <1>5, <2>2, <2>3 DEF Level, Drained
<1>8. r <= s
  <2>1. o + v <= s
    BY <1>1, <1>2 DEF InSize
  <2> QED BY <1>3, <1>5, <1>6, <1>7, <2>1
<1>9. OutLimited <=> OutBlockMax >= s - o
  BY <1>1, <1>2 DEF OutLimited, OutRemains
<1>10. q < s
  <2>1. CASE OutLimited
    <3>1. ~ c /\ lim = s - o
      BY <1>1, <1>2, <2>1 DEF OutLimit, OutRemains
    <3>2. th[t].l.outPreSize + NumData(input.bytes, Src(t), k) # OutLimit
      BY <3>1 DEF Within
    <3>3. PICK e : e = NumData(input.bytes, src, i)
      OBVIOUS
    <3>4. d + e # s - o
      BY <1>2, <3>1, <3>2, <3>3
    <3>5. q = h + e
      <4>1. Outputs(y + (i - 1)) = Outputs(y) + NumData(input.bytes, src, (i - 1) + 1)
        BY <1>3, <1>4, OutputsRun
      <4> QED BY <1>4, <1>5, <3>3, <4>1
    <3>6. e \in Int
      BY <1>4, <3>3, NumDataType
    <3>7. d = h - z
      BY <1>3, <1>5
    <3> HIDE <1>2, <1>3
    <3>8. s \in Nat /\ o = z /\ z \in Nat /\ h \in Nat /\ q \in Nat /\ r \in Nat /\ q <= r /\ r <= s
      BY <1>3, <1>6, <1>7, <1>8
    <3> QED BY <3>4, <3>5, <3>6, <3>7, <3>8
  <2>2. CASE ~ OutLimited
    <3>1. lim = OutBlockMax /\ v <= lim /\ OutBlockMax < s - o
      BY <1>2, <1>3, <1>9, <2>2 DEF OutLimit, Within
    <3>2. PICK g : g = OutBlockMax
      OBVIOUS
    <3>3. g \in Nat /\ v = r - z /\ s \in Nat /\ v <= g /\ g < s - z
      BY <1>3, <1>5, <1>7, <3>1, <3>2
    <3>4. q <= r /\ q \in Nat /\ r \in Nat /\ z \in Nat
      BY <1>6
    <3> QED BY <3>3, <3>4
  <2> QED BY <2>1, <2>2
<1>11. (a + th[t].l.inPreSize + k) - 1 = y + (i - 1)
  BY <1>2, <1>3, <1>4
<1> QED BY <1>2, <1>5, <1>10, <1>11

(* The parser's answer, in places of the input.                            *)
LEMMA ParseExact ==
  ASSUME NEW t \in Threads, NEW a, Looking(t, a), pc[t] = "parse", Given(t, a), Found(t, a),
         InSize(rd.outParsed), Worded(t)
  PROVE  Exact(t, a + th[t].l.inPreSize) /\ InSize(rd.outParsed + Parsed(t).out)
<1>1. PICK p, x, src, y : p = Parsed(t) /\ x = th[t].l.inPreSize /\ src = Src(t)
                          /\ y = a + th[t].l.inPreSize
  OBVIOUS
<1>2. /\ a \in Nat /\ x \in Nat /\ y = a + x /\ y \in Nat /\ Len(src) \in Nat /\ RunFrom(src, y)
      /\ p.used \in Nat /\ p.used <= Len(src) /\ p.out \in Nat /\ rd.pos = y + Len(src)
      /\ p.state = "NEW" => p.used < Len(src)
  BY <1>1 DEF Given, Found, Looking
<1>3. /\ InSize(rd.outParsed + p.out)
      /\ \E c \in BOOLEAN : /\ c <=> ~ OutLimited \/ input.finishMode
                            /\ Within(p, input.bytes, src, th[t].l.outPreSize, OutLimit, c)
  BY <1>1, <1>2, ParseScans
<1>4. PICK c \in BOOLEAN : /\ c <=> ~ OutLimited \/ input.finishMode
                           /\ Within(p, input.bytes, src, th[t].l.outPreSize, OutLimit, c)
  BY <1>3
<1>5. PICK u, n : u = p.used /\ n = Len(src)
  OBVIOUS
<1>6. u \in Nat /\ n \in Nat /\ u <= n /\ \A k \in 1 .. n : src[k] = y + k
  BY <1>2, <1>5 DEF RunFrom
<1>7. ASSUME NEW k \in 1 .. p.used
      PROVE  /\ input.bytes[y + k] = "err" => k = p.used /\ p.state \in {"ERROR", "OVERFLOW"}
             /\ p.state # "OVERFLOW" => Before(y + k)
  <2>1. src[k] = y + k
    BY <1>5, <1>6
  <2>2. input.bytes[src[k]] = "err" => k = p.used /\ p.state \in {"ERROR", "OVERFLOW"}
    BY <1>4 DEF Within
  <2>3. ASSUME p.state # "OVERFLOW" PROVE Before(y + k)
    <3>1. Before(a + th[t].l.inPreSize + k)
      BY <1>1, <1>3, <1>4, <2>3, ParseBefore
    <3> QED BY <1>1, <3>1
  <2> QED BY <2>1, <2>2, <2>3
<1>8. ASSUME p.state \in {"MARK", "ERROR"} PROVE src[u] = y + u
  <2>1. p.used > 0
    <3>1. Answers(p, input.bytes, src, th[t].l.outPreSize, OutLimit, ~ OutLimited \/ input.finishMode)
      BY <1>1, ParsedIs DEF Looking
    <3> QED BY <1>8, <3>1 DEF Answers
  <2> QED BY <1>5, <1>6, <2>1
<1>9. p.state = "MARK" => input.bytes[y + u] = "end"
  BY <1>4, <1>5, <1>8 DEF Within
<1>10. p.state = "ERROR" => input.bytes[y + u] = "err"
  BY <1>4, <1>5, <1>8 DEF Within
<1>11. ASSUME p.state = "NEW"
       PROVE  y + u < Len(input.bytes) /\ input.bytes[y + u + 1] = "new"
  <2>1. u + 1 \in 1 .. n /\ u < n
    BY <1>2, <1>5, <1>6, <1>11
  <2>2. src[u + 1] = y + (u + 1)
    BY <1>6, <2>1
  <2>3. input.bytes[src[u + 1]] = "new"
    BY <1>4, <1>5, <1>11 DEF Within
  <2>4. y + (u + 1) = y + u + 1
    BY <1>2, <1>6
  <2>5. rd.pos <= Len(input.bytes) /\ Len(input.bytes) \in Nat /\ rd.pos = y + n
    BY <1>2, <1>5 DEF Looking, RdOK, InputOK, Streams
  <2> QED BY <1>2, <1>6, <2>1, <2>2, <2>3, <2>4, <2>5
<1>12. p.used = 0 /\ x = 0 => p.state \in {"CONTINUE", "STOP"}
  <2>1. SUFFICES ASSUME p.used = 0, x = 0 PROVE p.state \in {"CONTINUE", "STOP"}
    OBVIOUS
  <2>2. th[t].l.outPreSize = 0
    <3>1. th[t].l.outPreSize = Outputs(y) - Outputs(a) /\ y = a
      BY <1>1, <1>2, <2>1 DEF Given
    <3>2. Outputs(a) \in Nat
      BY <1>2, OutputsGrow
    <3> QED BY <3>1, <3>2
  <2> QED BY <1>4, <2>1, <2>2 DEF Within
<1> QED BY <1>1, <1>3, <1>5, <1>7, <1>9, <1>10, <1>11, <1>12 DEF Exact

-----------------------------------------------------------------------------
(* No byte of what was parsed so far is past the output asked for, or not  *)
(* valid.                                                                  *)
Scan(l, a) == \A k \in 1 .. l.inPreSize : Before(a + k) /\ input.bytes[a + k] # "err"

(* What the coder said of the block: it fails for the damage alone, or for *)
(* a block it was not made ready for, because the others were interrupted. *)
Judged(l, a, done) ==
  /\ l.codeRes \in {OK, "DATA"}
  /\ l.codeRes = "DATA" => l.coderRes # OK /\ (~ l.wasInterrupted => Damaged(l, a))
  /\ done /\ l.codeRes = OK /\ ~ l.wasInterrupted =>
       Len(l.outBuf) = l.outPreSize /\ (BlockFinished(l) => l.inCodeSize = l.inPreSize)

(* A block without a failure of its own: scanned while it is read, and     *)
(* judged after that.                                                      *)
FairText(t, a) ==
  LET l == th[t].l
  IN  IF InBlock(t) THEN Scan(l, a)
      ELSE l.needCode /\ ~ Refused(l) => Shaped(l, a) /\ Judged(l, a, pc[t] = "wait_write")
Fair(t) == th[t].l.inPreSize > 0 => FairText(t, Start(t))

(* A block without a byte is the last: nothing more was read, or the       *)
(* output asked for ends before what was.                                  *)
Past == \E z \in Nat : z + Len(rd.cross) <= rd.pos /\ FullAt(z)
Beyond == (rd.finished /\ rd.cross = << >>) \/ Past
Hollow(t) ==
  LET l == th[t].l
  IN  l.inPreSize = 0 /\ l.needWrite /\ ~ Refused(l) /\ ~ InBlock(t) =>
        l.size = 0 /\ l.finish /\ Beyond

(* The coder is ready when it is called, unless the thread was interrupted;*)
(* and what failed before that is a block to be left, or an empty one.     *)
Ready(t) ==
  LET l == th[t].l
  IN  /\ InBlock(t) /\ l.links = 0 => ~ l.needWrite
      /\ l.needCode /\ ~ l.wasInterrupted /\ pc[t] \in {"start_next", "code", "wait_write"} =>
           l.prepared
      /\ pc[t] \in {"start_next", "code"} /\ l.needCode => l.codeRes = OK
      /\ l.codeRes # OK => l.needWrite
      /\ ~ l.needCode /\ l.codeRes # OK /\ ~ Refused(l) => l.codeRes = "MEM" \/ l.inPreSize = 0
(* What is right about a thread at work.                                   *)
Right(t) == Fair(t) /\ Hollow(t) /\ Ready(t)

(* Where no thread holds anything, all that was read was decoded.          *)
Empty ==
  /\ wr.numFilled = 0 /\ rd.cross = << >>
  /\ \A t \in Threads : Working(t) => th[t].l.size = 0
Bare == Empty => TextAt(rd.pos) \/ AtLimit

-----------------------------------------------------------------------------
(* What each case of the Parse loop leaves in the crossBlock and the       *)
(* locals.                                                                 *)
LeftOver(t) == RestOf(Src(t), Parsed(t).used)
Stored(t, m, next, cross) ==
  LET l == th[t].l
      p == Parsed(t)
  IN  /\ m.codeRes = l.codeRes /\ m.coderRes = l.coderRes /\ m.wasInterrupted = l.wasInterrupted
      /\ m.needWrite = TRUE
      /\ \/ /\ p.state = "OVERFLOW" /\ next = "parsed" /\ Refused(m) /\ m.size = l.size
            /\ cross = << >>
         \/ /\ p.state = "CONTINUE" /\ next = "read" /\ m.size = l.size /\ m.links = l.links + 1
            /\ cross = << >>
         \/ /\ p.state \in {"MARK", "STOP", "ERROR", "CONTINUE"} /\ next = "parsed"
            /\ (p.state = "CONTINUE" => l.finish) /\ m.finish
            /\ m.size = l.size - Len(LeftOver(t))
            /\ cross = (IF FromCross(t) THEN LeftOver(t) ELSE rd.cross)
         \/ /\ p.state = "NEW" /\ next = "parsed" /\ cross = LeftOver(t)
         \/ /\ next = "parsed" /\ Refused(m) /\ m.size = l.size /\ ~ FromCross(t)
            /\ cross = rd.cross

(* So does every step of the Parse loop.                                   *)
LEMMA ParseLeaves ==
  ASSUME NEW t \in Threads, NEW a, Looking(t, a),
         ParseOverflow(t) \/ ParseContinue(t) \/ ParseEnd(t) \/ ParseNew(t)
  PROVE  Stored(t, th'[t].l, pc'[t], rd'.cross)
<1> DEFINE l == th[t].l
           p == Parsed(t)
           e == AfterParse(l, p)
<1>1. LocalOK(l) /\ RdOK
  BY DEF Looking
<1>2. /\ DOMAIN e = {"blockIndex", "res", "codeRes", "wasInterrupted", "finish", "needCode",
                     "needWrite", "isAllocError", "overflow", "threadingError", "start", "size",
                     "checked", "links", "last", "link", "next", "state", "inPreSize",
                     "outPreSize", "prepared", "inCodeSize", "outBuf", "coderRes"}
      /\ e.size = l.size /\ e.links = l.links /\ e.codeRes = l.codeRes /\ e.coderRes = l.coderRes
      /\ e.wasInterrupted = l.wasInterrupted /\ e.needWrite = TRUE
  <2>1. DOMAIN e = DOMAIN l
    BY <1>1 DEF AfterParse, LocalOK
  <2>2. /\ e.size = l.size /\ e.links = l.links /\ e.codeRes = l.codeRes
        /\ e.coderRes = l.coderRes /\ e.wasInterrupted = l.wasInterrupted /\ e.needWrite = TRUE
    BY <1>1 DEF AfterParse, LocalOK
  <2> HIDE DEF e
  <2> QED BY <1>1, <2>1, <2>2 DEF LocalOK
<1> HIDE DEF e, p
<1> DEFINE Same(m) == /\ m.codeRes = l.codeRes /\ m.coderRes = l.coderRes
                      /\ m.wasInterrupted = l.wasInterrupted /\ m.needWrite = TRUE
<1>r. DOMAIN rd = {"blockIndex", "finished", "res", "pos", "crossBlock", "cross", "started",
                   "limit", "outParsed"}
  BY <1>1 DEF RdOK
<1>3. CASE ParseOverflow(t)
  <2> DEFINE m == [e EXCEPT !.finish = TRUE, !.overflow = TRUE]
  <2>1. StoreParsed(t, Len(Src(t)), m, "parsed") /\ rd' = [rd EXCEPT !.cross = << >>]
        /\ p.state = "OVERFLOW"
    BY <1>3 DEF ParseOverflow, e, p
  <2>2. m.overflow = TRUE /\ m.size = l.size /\ Same(m)
    BY <1>2
  <2> HIDE DEF m
  <2>3. th'[t].l = m /\ pc'[t] = "parsed"
    BY <2>1, ParseStores
  <2>4. rd'.cross = << >>
    BY <1>r, <2>1
  <2> QED BY <2>1, <2>2, <2>3, <2>4 DEF Refused, Stored, p
<1>4. CASE ParseContinue(t)
  <2> DEFINE m == [e EXCEPT !.links = @ + 1]
  <2>1. StoreParsed(t, p.used, m, "read") /\ rd' = [rd EXCEPT !.cross = << >>]
        /\ p.state = "CONTINUE"
    BY <1>4 DEF ParseContinue, e, p
  <2>2. m.links = l.links + 1 /\ m.size = l.size /\ Same(m)
    BY <1>2
  <2> HIDE DEF m
  <2>3. th'[t].l = m /\ pc'[t] = "read"
    BY <2>1, ParseStores
  <2>4. rd'.cross = << >>
    BY <1>r, <2>1
  <2> QED BY <2>1, <2>2, <2>3, <2>4 DEF Stored, p
<1>5. PICK z : z = Len(RestOf(Src(t), p.used))
  OBVIOUS
<1> DEFINE n(f) == [CutSizes(t, e, p.used, z) EXCEPT !.needCode = TRUE, !.finish = f]
<1>6. ASSUME NEW f PROVE n(f).size = l.size - z /\ n(f).finish = f /\ Same(n(f))
  <2> DEFINE c == CutSizes(t, e, p.used, z)
  <2>1. c.size = e.size - z /\ DOMAIN c = DOMAIN e
    BY <1>2 DEF CutSizes
  <2>2. c.codeRes = e.codeRes /\ c.coderRes = e.coderRes /\ c.wasInterrupted = e.wasInterrupted
        /\ c.needWrite = e.needWrite
    BY <1>2 DEF CutSizes
  <2> HIDE DEF c
  <2> QED BY <1>2, <2>1, <2>2 DEF c
<1>7. n(TRUE).size = l.size - z /\ n(TRUE).finish /\ Same(n(TRUE)) /\ Same(n(FALSE))
  <2> HIDE DEF n
  <2>1. n(TRUE).finish = TRUE
    BY <1>6
  <2> QED BY <1>6, <2>1
<1> DEFINE o == [e EXCEPT !.needCode = TRUE, !.finish = TRUE, !.isAllocError = TRUE]
<1>8. CASE ParseEnd(t)
  <2>1. PICK m, x : m = n(TRUE) /\ x = RestOf(Src(t), p.used)
    OBVIOUS
  <2>2. StoreParsed(t, p.used, m, "parsed")
    BY <1>5, <1>8, <2>1 DEF ParseEnd, e, p
  <2>3. rd' = [rd EXCEPT !.cross = IF FromCross(t) THEN x ELSE @,
                         !.outParsed = IF p.state = "CONTINUE" THEN @ ELSE @ + p.out]
    BY <1>8, <2>1 DEF ParseEnd, p
  <2>4. rd'.cross = IF FromCross(t) THEN x ELSE rd.cross
    BY <1>r, <2>3
  <2>5. p.state \in {"MARK", "STOP", "ERROR", "CONTINUE"} /\ (p.state = "CONTINUE" => l.finish)
    BY <1>8 DEF ParseEnd, p
  <2>6. m.size = l.size - z /\ m.finish /\ Same(m)
    <3> HIDE DEF n
    <3> QED BY <1>7, <2>1
  <2>7. th'[t].l = m /\ pc'[t] = "parsed"
    BY <2>2, ParseStores
  <2>8. LeftOver(t) = x /\ Len(x) = z
    BY <1>5, <2>1 DEF LeftOver, p
  <2> QED BY <2>4, <2>5, <2>6, <2>7, <2>8 DEF Stored, p
<1>9. CASE ParseNew(t)
  <2>1. PICK m, h, x : m = n(FALSE) /\ h = o /\ x = RestOf(Src(t), p.used)
    OBVIOUS
  <2>2. \/ /\ StoreParsed(t, p.used, m, "parsed")
           /\ rd' = [rd EXCEPT !.cross = x, !.crossBlock = TRUE, !.outParsed = @ + p.out]
        \/ /\ StoreParsed(t, 0, h, "parsed") /\ rd' = [rd EXCEPT !.outParsed = @ + p.out]
           /\ ~ FromCross(t)
    BY <1>5, <1>9, <2>1 DEF ParseNew, e, p
  <2>3. p.state = "NEW" /\ LeftOver(t) = x
    BY <1>9, <2>1 DEF ParseNew, LeftOver, p
  <2>g. Same(m)
    <3> HIDE DEF n
    <3> QED BY <1>7, <2>1
  <2>4. CASE /\ StoreParsed(t, p.used, m, "parsed")
             /\ rd' = [rd EXCEPT !.cross = x, !.crossBlock = TRUE, !.outParsed = @ + p.out]
    <3>1. Same(m)
      BY <2>g
    <3>2. th'[t].l = m /\ pc'[t] = "parsed"
      BY <2>4, ParseStores
    <3>3. rd'.cross = x
      BY <1>r, <2>4
    <3> QED BY <2>3, <3>1, <3>2, <3>3 DEF Stored, p
  <2>5. CASE /\ StoreParsed(t, 0, h, "parsed") /\ rd' = [rd EXCEPT !.outParsed = @ + p.out]
             /\ ~ FromCross(t)
    <3>1. Same(h) /\ h.isAllocError = TRUE /\ h.size = l.size
      BY <1>2, <2>1
    <3>2. th'[t].l = h /\ pc'[t] = "parsed"
      BY <2>5, ParseStores
    <3>3. rd'.cross = rd.cross
      BY <1>r, <2>5
    <3> QED BY <2>5, <3>1, <3>2, <3>3 DEF Stored, Refused
  <2> QED BY <2>2, <2>4, <2>5
<1> QED BY <1>3, <1>4, <1>8, <1>9

-----------------------------------------------------------------------------
(* What is said of a block stays in a call.                                *)
LEMMA ShapesStay ==
  ASSUME input' = input
  PROVE  \A l, a, done : /\ Shaped(l, a)' <=> Shaped(l, a)
                         /\ Scan(l, a)' <=> Scan(l, a)
                         /\ Judged(l, a, done)' <=> Judged(l, a, done)
<1>1. \A p : Outputs(p)' = Outputs(p)
  BY TextStays
<1>2. \A x : Before(x)' <=> Before(x)
  BY <1>1 DEF Before
<1>3. \A l, a : Damaged(l, a)' <=> Damaged(l, a)
  BY DEF Damaged
<1>4. \A l, a : Shaped(l, a)' <=> Shaped(l, a)
  BY <1>1, <1>2 DEF Shaped
<1>5. \A l, a : Scan(l, a)' <=> Scan(l, a)
  BY <1>2 DEF Scan
<1>6. \A l, a, done : Judged(l, a, done)' <=> Judged(l, a, done)
  BY <1>3 DEF Judged, BlockFinished
<1> QED BY <1>4, <1>5, <1>6

(* A size that is the one asked for stays that in a call.                  *)
LEMMA FullStays ==
  ASSUME input' = input
  PROVE  \A z : FullAt(z)' <=> FullAt(z)
BY TextStays DEF FullAt

(* A thread that does not move, and is not the last unless nothing is      *)
(* read, is as before.                                                     *)
LEMMA RightStays ==
  ASSUME input' = input, NEW u \in Threads, th'[u] = th[u], pc'[u] = pc[u], Right(u),
         \/ rd'.pos = rd.pos /\ rd'.cross = rd.cross /\ rd'.finished = rd.finished
         \/ ~ th[u].l.finish
  PROVE  Right(u)'
<1>1. InBlock(u)' <=> InBlock(u)
  BY DEF InBlock
<1>2. Fair(u)'
  <2>1. SUFFICES ASSUME th[u].l.inPreSize > 0 PROVE FairText(u, Start(u))'
    BY DEF Fair
  <2>2. PICK a, l : a = Start(u) /\ l = th[u].l
    OBVIOUS
  <2>3. FairText(u, a)
    BY <2>1, <2>2 DEF Right, Fair
  <2>4. Start(u)' = a
    BY <2>2 DEF Start
  <2>5. FairText(u, a)'
    BY <1>1, <2>2, <2>3, ShapesStay DEF FairText
  <2> QED BY <2>4, <2>5
<1>3. Hollow(u)'
  <2>1. Hollow(u)
    BY DEF Right
  <2>2. CASE ~ th[u].l.finish
    BY <1>1, <2>1, <2>2 DEF Hollow, Refused
  <2>3. CASE rd'.pos = rd.pos /\ rd'.cross = rd.cross /\ rd'.finished = rd.finished
    <3>1. Beyond => Beyond'
      BY <2>3, FullStays DEF Beyond, Past
    <3> QED BY <1>1, <2>1, <3>1 DEF Hollow, Refused
  <2> QED BY <2>2, <2>3
<1>4. Ready(u)'
  BY <1>1 DEF Right, Ready, Refused
<1> QED BY <1>2, <1>3, <1>4 DEF Right

(* A thread without memory for a link leaves its block.                    *)
LEMMA ReadNoLinkRight ==
  ASSUME NEW t \in Threads, NEW a, Looking(t, a), ReadNoLink(t)
  PROVE  Right(t)'
<1> DEFINE l == th[t].l
           m == [l EXCEPT !.finish = TRUE, !.isAllocError = TRUE]
<1>1. /\ ThreadOK(th[t]) /\ LocalOK(l) /\ t \in DOMAIN th /\ t \in DOMAIN pc /\ l.codeRes = OK
  BY DEF Looking
<1>2. m.isAllocError = TRUE /\ m.codeRes = OK
  BY <1>1 DEF LocalOK
<1>3. th' = [th EXCEPT ![t].l = m] /\ pc' = [pc EXCEPT ![t] = "parsed"]
  BY DEF ReadNoLink, SetLocals
<1> HIDE DEF m
<1>4. th'[t].l = m /\ pc'[t] = "parsed"
  BY <1>1, <1>3 DEF ThreadOK
<1>5. Refused(th[t].l)'
  BY <1>2, <1>4 DEF Refused
<1>6. ~ InBlock(t)'
  BY <1>4 DEF InBlock
<1>7. Fair(t)'
  BY <1>5, <1>6 DEF Fair, FairText
<1>8. Hollow(t)'
  BY <1>5 DEF Hollow
<1>9. Ready(t)'
  BY <1>2, <1>4, <1>6 DEF Ready
<1> QED BY <1>7, <1>8, <1>9 DEF Right

(* What the block before left over is not parsed yet.                      *)
LEMMA ReadCrossRight ==
  ASSUME NEW t \in Threads, NEW a, Looking(t, a), Right(t), ReadCross(t)
  PROVE  Right(t)'
<1> DEFINE l == th[t].l
           size == Len(rd.cross)
           x == [th[t] EXCEPT !.l.size = size, !.l.start = size, !.inBuf = LinkFilled(t, << >>)]
<1>1. pc[t] = "read" /\ FromCross(t) /\ th' = [th EXCEPT ![t] = x]
      /\ pc' = [pc EXCEPT ![t] = "parse"]
  BY DEF ReadCross
<1>2. l.inPreSize = 0 /\ ~ l.needCode /\ l.codeRes = OK /\ l.links = 0
  BY <1>1 DEF Looking, Reader, AtRead, FromCross, Links, Unparsed
<1>3. /\ x.l.inPreSize = l.inPreSize /\ x.l.needCode = l.needCode /\ x.l.codeRes = l.codeRes
      /\ x.l.links = l.links /\ x.l.needWrite = l.needWrite
  BY DEF Looking, ThreadOK, LocalOK
<1> HIDE DEF x
<1>4. th'[t] = x /\ pc'[t] = "parse" /\ InBlock(t)' /\ InBlock(t)
  BY <1>1 DEF Looking, InBlock
<1>5. ~ l.needWrite
  BY <1>2, <1>4 DEF Right, Ready
<1>6. Fair(t)'
  BY <1>2, <1>3, <1>4 DEF Fair
<1>7. Hollow(t)'
  BY <1>4 DEF Hollow
<1>8. Ready(t)'
  BY <1>2, <1>3, <1>4, <1>5 DEF Ready
<1> QED BY <1>6, <1>7, <1>8 DEF Right

(* Another link of the block: what is said is of the links parsed before.  *)
LEMMA ReadLinkRight ==
  ASSUME Shape, Control, Control', NEW t \in Threads, NEW a, Looking(t, a), Right(t), ReadLink(t)
  PROVE  Right(t)'
<1>1. PICK l, m : l = th[t].l /\ m = th'[t].l
  OBVIOUS
<1>2. /\ m.inPreSize = l.inPreSize /\ m.needCode = l.needCode /\ m.needWrite = l.needWrite
      /\ m.links = l.links /\ (\E k \in Nat : th'[t].inBuf = LinkFilled(t, NextBytes(k)))
      /\ pc'[t] \in {"parse", "parsed"}
  BY <1>1, ReadLinkStores
<1>3. pc[t] = "read" /\ input' = input /\ InBlock(t)
  BY DEF ReadLink, caller, InBlock
<1>4. ~ l.needCode
  BY <1>1 DEF Looking, Reader, Unparsed
<1>5. m.codeRes = OK
  <2>1. Flags(t)'
    <3>1. Working(t)'
      BY <1>2 DEF Working, Reading
    <3> QED BY <3>1 DEF Control, Good
  <2> QED BY <1>1, <1>2, <2>1 DEF Flags
<1>6. l.links # 0 => l.inPreSize > 0 /\ l.start > 0 /\ Holds(th[t].inBuf, a, l.start, l.size)
  <2>1. SUFFICES ASSUME l.links # 0
                 PROVE  l.inPreSize > 0 /\ l.start > 0 /\ Holds(th[t].inBuf, a, l.start, l.size)
    OBVIOUS
  <2>2. /\ l.start > 0 /\ l.inPreSize = l.size /\ Holds(th[t].inBuf, a, l.start, l.size)
    BY <1>1, <1>3, <2>1 DEF Looking, Reader, AtRead
  <2>3. l.start <= l.size /\ l.start \in Int /\ l.size \in Int
    BY <1>1, <2>2 DEF Holds, Looking, LocalOK
  <2> QED BY <2>2, <2>3
<1>7. l.links = 0 => l.inPreSize = 0 /\ ~ l.needWrite
  BY <1>1, <1>3 DEF Looking, Reader, AtRead, Right, Ready
<1>8. Fair(t)'
  <2>1. SUFFICES ASSUME l.inPreSize > 0 PROVE FairText(t, Start(t))'
    BY <1>1, <1>2 DEF Fair
  <2>2. CASE pc'[t] = "parsed"
    <3>1. ~ InBlock(t)'
      BY <2>2 DEF InBlock
    <3> QED BY <1>1, <1>2, <1>4, <3>1 DEF FairText
  <2>3. CASE pc'[t] = "parse"
    <3>1. Scan(l, Start(t))
      BY <1>1, <1>3, <2>1 DEF Right, Fair, FairText
    <3>2. l.links # 0 /\ l.links \in Nat /\ th[t].inBuf \in Seq(Link) /\ Len(th[t].inBuf) > 0
      BY <1>1, <1>6, <1>7, <2>1 DEF Looking, LocalOK, ThreadOK, Holds
    <3>3. th'[t].inBuf[1] = th[t].inBuf[1]
      <4>1. PICK k \in Nat : th'[t].inBuf = LinkFilled(t, NextBytes(k))
        BY <1>2
      <4>2. Links(t) = l.links
        BY <1>1 DEF Links
      <4>3. PICK e, f : LinkFilled(t, NextBytes(k)) =
                          IF NeedsLink(t) THEN Append(th[t].inBuf, e)
                          ELSE [th[t].inBuf EXCEPT ![l.links + 1] = f]
        BY <4>2 DEF LinkFilled
      <4>4. l.links + 1 # 1
        BY <3>2
      <4> QED BY <3>2, <4>1, <4>3, <4>4
    <3>4. Start(t)' = Start(t)
      BY <3>3 DEF Start
    <3>5. InBlock(t)'
      BY <2>3 DEF InBlock
    <3>6. PICK b : b = Start(t)
      OBVIOUS
    <3>7. Scan(m, b)'
      <4>1. Scan(m, b)
        BY <1>2, <3>1, <3>6 DEF Scan
      <4> QED BY <1>3, <4>1, ShapesStay
    <3> QED BY <1>1, <3>4, <3>5, <3>6, <3>7 DEF FairText
  <2> QED BY <1>2, <2>2, <2>3
<1>9. Hollow(t)'
  BY <1>1, <1>2, <1>6, <1>7 DEF Hollow
<1>10. Ready(t)'
  BY <1>1, <1>2, <1>5, <1>7 DEF Ready
<1> QED BY <1>8, <1>9, <1>10 DEF Right

-----------------------------------------------------------------------------
(* What the parser says of the whole block, with what it said before.      *)
Said(t, a) ==
  LET p == Parsed(t)
      n == th[t].l.inPreSize + p.used
  IN  /\ \A k \in 1 .. n :
           /\ input.bytes[a + k] = "err" => k = n /\ p.state \in {"ERROR", "OVERFLOW"}
           /\ p.state # "OVERFLOW" => Before(a + k)
      /\ p.state = "MARK" => input.bytes[a + n] = "end"
      /\ p.state = "ERROR" => input.bytes[a + n] = "err"
      /\ p.state = "NEW" => a + n < Len(input.bytes) /\ input.bytes[a + n + 1] = "new"
      /\ n = 0 => p.state \in {"CONTINUE", "STOP"}
      /\ p.state = "STOP" => FullAt(a + n) \/ (n = 0 /\ Drained(a))
      /\ p.state # "OVERFLOW" => p.out = Outputs(a + n) - Outputs(a)

(* The bytes parsed before and those parsed now are one block.             *)
LEMMA ParseSays ==
  ASSUME NEW t \in Threads, NEW a, Looking(t, a), pc[t] = "parse", Given(t, a), Found(t, a),
         InSize(rd.outParsed), Worded(t), Right(t)
  PROVE  Said(t, a)
<1>1. PICK p, x, u, y : p = Parsed(t) /\ x = th[t].l.inPreSize /\ u = p.used /\ y = Len(Src(t))
  OBVIOUS
<1>2. /\ a \in Nat /\ x \in Nat /\ u \in Nat /\ y \in Nat /\ u <= y /\ p.out \in Nat
      /\ rd.pos = (a + x) + y /\ Reader(t, a) /\ LocalOK(th[t].l) /\ InBlock(t)
  BY <1>1 DEF Given, Found, Looking, InBlock
<1>3. Exact(t, a + x)
  BY <1>1, ParseExact
<1>4. \A k \in 1 .. x : Before(a + k) /\ input.bytes[a + k] # "err"
  <2>1. CASE x = 0
    BY <2>1
  <2>2. CASE x > 0
    <3>1. Start(t) = a
      BY <1>1, <1>2, <2>2, StartIs
    <3>2. FairText(t, a)
      BY <1>1, <2>2, <3>1 DEF Right, Fair
    <3> QED BY <1>1, <1>2, <3>2 DEF FairText, Scan
  <2> QED BY <1>2, <2>1, <2>2
<1>5. ASSUME NEW k \in 1 .. x + u
      PROVE  /\ input.bytes[a + k] = "err" => k = x + u /\ p.state \in {"ERROR", "OVERFLOW"}
             /\ p.state # "OVERFLOW" => Before(a + k)
  <2>1. CASE k <= x
    BY <1>2, <1>4, <2>1
  <2>2. CASE k > x
    <3>1. PICK j : j = k - x
      OBVIOUS
    <3>2. j \in 1 .. u /\ a + k = (a + x) + j /\ (j = u => k = x + u)
      BY <1>2, <2>2, <3>1
    <3>3. j \in 1 .. Parsed(t).used
      BY <1>1, <3>2
    <3>4. /\ input.bytes[(a + x) + j] = "err" => j = p.used /\ p.state \in {"ERROR", "OVERFLOW"}
          /\ p.state # "OVERFLOW" => Before((a + x) + j)
      BY <1>1, <1>3, <3>3 DEF Exact
    <3> QED BY <1>1, <3>2, <3>4
  <2> QED BY <1>2, <2>1, <2>2
<1>6. (a + x) + u = a + (x + u) /\ (a + x) + u + 1 = a + (x + u) + 1
  BY <1>2
<1>7. /\ p.state = "MARK" => input.bytes[a + (x + u)] = "end"
      /\ p.state = "ERROR" => input.bytes[a + (x + u)] = "err"
      /\ p.state = "NEW" => a + (x + u) < Len(input.bytes) /\ input.bytes[a + (x + u) + 1] = "new"
  BY <1>1, <1>3, <1>6 DEF Exact
<1>8. x + u = 0 => p.state \in {"CONTINUE", "STOP"}
  <2>1. x + u = 0 => u = 0 /\ x = 0
    BY <1>2
  <2> QED BY <1>1, <1>3, <2>1 DEF Exact
<1>9. p.state # "OVERFLOW" => p.out = Outputs(a + (x + u)) - Outputs(a)
  BY <1>1, <1>6 DEF Found
<1>10. p.state = "STOP" => FullAt(a + (x + u)) \/ (x + u = 0 /\ Drained(a))
  <2>1. SUFFICES ASSUME p.state = "STOP"
                 PROVE  FullAt(a + (x + u)) \/ (x + u = 0 /\ Drained(a))
    OBVIOUS
  <2>2. /\ input.outSize # NoSize /\ ~ input.finishMode /\ p.out = input.outSize - rd.outParsed
    BY <1>1, <2>1 DEF Found
  <2>3. PICK q, r, s, o : q = Outputs(a + (x + u)) /\ r = Outputs(a) /\ s = input.outSize
                          /\ o = rd.outParsed
    OBVIOUS
  <2>4. q \in Nat /\ r \in Nat
    <3>1. a + (x + u) \in Nat
      BY <1>2
    <3> QED BY <1>2, <2>3, <3>1, OutputsGrow
  <2>5. s \in Nat /\ o \in Nat
    BY <2>2, <2>3 DEF Looking, RdOK, InputOK
  <2>6. q - r = s - o
    BY <1>9, <2>1, <2>2, <2>3
  <2>7. CASE o = r
    <3>1. q = s
      BY <2>4, <2>5, <2>6, <2>7
    <3> QED BY <2>2, <2>3, <3>1 DEF FullAt
  <2>8. CASE Drained(a)
    <3>1. rd.pos = a
      BY <2>8 DEF Drained
    <3>2. x + u = 0
      BY <1>2, <3>1
    <3> QED BY <2>8, <3>2
  <2> QED BY <1>2, <2>3, <2>7, <2>8 DEF Reader, Level
<1> QED BY <1>1, <1>5, <1>7, <1>8, <1>9, <1>10 DEF Said

(* ... so that it is what the coder will find.                             *)
LEMMA SaidIsShaped ==
  ASSUME NEW t \in Threads, NEW a \in Nat, Said(t, a), NEW m, m.state = Parsed(t).state,
         m.inPreSize = th[t].l.inPreSize + Parsed(t).used, m.outPreSize = Parsed(t).out,
         m.inPreSize > 0, m.state # "OVERFLOW", m.inPreSize \in Nat, InputOK
  PROVE  Shaped(m, a)
<1>1. PICK n, p : n = m.inPreSize /\ p = Parsed(t)
  OBVIOUS
<1>2. /\ \A k \in 1 .. n :
            /\ input.bytes[a + k] = "err" => k = n /\ p.state \in {"ERROR", "OVERFLOW"}
            /\ p.state # "OVERFLOW" => Before(a + k)
      /\ p.state = "MARK" => input.bytes[a + n] = "end"
      /\ p.state = "ERROR" => input.bytes[a + n] = "err"
      /\ p.state = "NEW" => a + n < Len(input.bytes) /\ input.bytes[a + n + 1] = "new"
      /\ p.state = "STOP" => FullAt(a + n) \/ (n = 0 /\ Drained(a))
      /\ p.state # "OVERFLOW" => p.out = Outputs(a + n) - Outputs(a)
  BY <1>1 DEF Said
<1>3. p.state = "STOP" => input.outSize # NoSize /\ Outputs(a) + p.out = input.outSize
  <2>1. SUFFICES ASSUME p.state = "STOP"
                 PROVE  input.outSize # NoSize /\ Outputs(a) + p.out = input.outSize
    OBVIOUS
  <2>2. FullAt(a + n) /\ p.out = Outputs(a + n) - Outputs(a)
    BY <1>1, <1>2, <2>1
  <2>3. input.outSize # NoSize /\ Outputs(a + n) = input.outSize
    BY <2>2 DEF FullAt
  <2>4. PICK q, r : q = Outputs(a + n) /\ r = Outputs(a)
    OBVIOUS
  <2>5. q \in Nat /\ r \in Nat
    <3>1. a + n \in Nat
      BY <1>1
    <3> QED BY <2>4, <3>1, OutputsGrow
  <2>6. r + (q - r) = q
    BY <2>5
  <2> QED BY <2>2, <2>3, <2>4, <2>6
<1> QED BY <1>1, <1>2, <1>3 DEF Shaped

(* A block without a byte of its own is the last one.                      *)
LEMMA SaidIsHollow ==
  ASSUME NEW t \in Threads, NEW a, Looking(t, a), pc[t] = "parse", Given(t, a), Found(t, a),
         Said(t, a), th[t].l.inPreSize + Parsed(t).used = 0,
         rd'.pos = rd.pos, rd'.finished = rd.finished, input' = input,
         ParseOverflow(t) \/ ParseContinue(t) \/ ParseEnd(t) \/ ParseNew(t),
         pc'[t] # "read", ~ Refused(th'[t].l)
  PROVE  th'[t].l.size = 0 /\ th'[t].l.finish /\ Beyond'
<1>1. PICK p, l, m, y, r : p = Parsed(t) /\ l = th[t].l /\ m = th'[t].l /\ y = Len(Src(t))
                           /\ r = LeftOver(t)
  OBVIOUS
<1>2. /\ a \in Nat /\ y \in Nat /\ l.inPreSize = 0 /\ p.used = 0 /\ Src(t) \in Seq(Int)
      /\ rd.pos = a + y /\ l.size = y
  <2>1. PICK x, u : x = l.inPreSize /\ u = p.used
    OBVIOUS
  <2>2. x \in Nat /\ u \in Nat /\ x + u = 0
    BY <1>1, <2>1 DEF Given, Found
  <2>3. x = 0 /\ u = 0
    BY <2>2
  <2>4. /\ a \in Nat /\ y \in Nat /\ Src(t) \in Seq(Int) /\ rd.pos = (a + x) + y
        /\ l.size = x + y
    BY <1>1, <2>1 DEF Given, Looking
  <2> QED BY <2>1, <2>3, <2>4
<1>3. p.state \in {"CONTINUE", "STOP"}
  BY <1>1 DEF Said
<1>4. r = Src(t) /\ Len(r) = y
  <2>1. Len(Src(t)) = y /\ r = SubSeq(Src(t), 1, y)
    BY <1>1, <1>2 DEF LeftOver, RestOf
  <2> QED BY <1>2, <2>1
<1>5. Stored(t, m, pc'[t], rd'.cross)
  BY <1>1, ParseLeaves
<1>6. /\ m.finish /\ m.size = l.size - y /\ rd'.cross = (IF FromCross(t) THEN r ELSE rd.cross)
      /\ p.state = "CONTINUE" => l.finish
  BY <1>1, <1>3, <1>4, <1>5 DEF Stored
<1>7. m.size = 0
  BY <1>2, <1>6
<1>8. (l.finish => rd.finished) /\ (~ FromCross(t) => rd.cross = << >>)
      /\ (FromCross(t) => y > 0) /\ (~ FromCross(t) /\ ~ l.finish => y > 0)
  <2>1. InBufSize > 0
    BY MtDecAssumption
  <2> QED BY <1>1, <2>1 DEF Given, Looking, Reader
<1>9. CASE y = 0
  <2>1. ~ FromCross(t) /\ l.finish
    BY <1>8, <1>9
  <2> QED BY <1>1, <1>6, <1>7, <1>8, <2>1 DEF Beyond
<1>10. CASE y > 0
  <2>1. p.state = "STOP"
    <3>1. p.state = "CONTINUE" => p.used = y
      BY <1>1 DEF Found
    <3> QED BY <1>2, <1>3, <1>10, <3>1
  <2>2. FullAt(a)
    <3>1. ~ Drained(a)
      <4>1. rd.pos # a
        BY <1>2, <1>10
      <4> QED BY <4>1 DEF Drained
    <3>2. a + 0 = a
      BY <1>2
    <3> QED BY <1>1, <2>1, <3>1, <3>2 DEF Said
  <2>3. FullAt(a)'
    BY <2>2, FullStays
  <2>4. a + Len(rd'.cross) <= rd'.pos
    <3>1. CASE FromCross(t)
      BY <1>2, <1>4, <1>6, <3>1
    <3>2. CASE ~ FromCross(t)
      <4>1. Len(rd'.cross) = 0
        BY <1>6, <1>8, <3>2
      <4> QED BY <1>2, <4>1
    <3> QED BY <3>1, <3>2
  <2>5. Past'
    BY <1>2, <2>3, <2>4 DEF Past
  <2> QED BY <1>1, <1>6, <1>7, <2>5 DEF Beyond
<1> QED BY <1>2, <1>9, <1>10

(* What the Parse callback stores is right.                                *)
LEMMA ParseRight ==
  ASSUME Shape, Control, NEW t \in Threads, NEW a, Looking(t, a), InSize(rd.outParsed),
         Worded(t), Right(t),
         ParseOverflow(t) \/ ParseContinue(t) \/ ParseEnd(t) \/ ParseNew(t)
  PROVE  Right(t)'
<1>1. PICK l, m, p : l = th[t].l /\ m = th'[t].l /\ p = Parsed(t)
  OBVIOUS
<1>2. /\ input' = input /\ pc[t] = "parse" /\ Given(t, a) /\ Found(t, a) /\ Reader(t, a)
      /\ rd'.pos = rd.pos /\ rd'.finished = rd.finished
  BY ParseLooks
<1>3. /\ m.inPreSize = l.inPreSize + p.used /\ m.outPreSize = p.out /\ m.state = p.state
      /\ pc'[t] \in {"read", "parsed"}
  BY <1>1, ParseKeeps
<1>4. Stored(t, m, pc'[t], rd'.cross)
  BY <1>1, ParseLeaves
<1>5. Said(t, a)
  BY <1>2, ParseSays
<1>6. PICK x, u, n : x = l.inPreSize /\ u = p.used /\ n = m.inPreSize
  OBVIOUS
<1>7. /\ x \in Nat /\ u \in Nat /\ n = x + u /\ n \in Nat /\ a \in Nat /\ u <= Len(Src(t))
      /\ l.links \in Nat
  BY <1>1, <1>2, <1>3, <1>6 DEF Given, Found, Looking
<1>8. m.codeRes = OK
  BY <1>1, <1>4 DEF Stored, Looking
<1>9. Ready(t)'
  <2>1. InBlock(t)' => m.links # 0
    <3>1. InBlock(t)' => pc'[t] = "read"
      BY <1>3 DEF InBlock
    <3>2. pc'[t] = "read" => m.links = l.links + 1
      BY <1>1, <1>4 DEF Stored
    <3> QED BY <1>7, <3>1, <3>2
  <2> QED BY <1>1, <1>3, <1>8, <2>1 DEF Ready
<1>10. Hollow(t)'
  <2>1. CASE n # 0 \/ Refused(m) \/ pc'[t] = "read"
    BY <1>1, <1>6, <2>1 DEF Hollow, InBlock, Refused
  <2>2. CASE n = 0 /\ ~ Refused(m) /\ pc'[t] # "read"
    <3>1. th[t].l.inPreSize + Parsed(t).used = 0
      BY <1>1, <1>6, <1>7, <2>2
    <3>2. th'[t].l.size = 0 /\ th'[t].l.finish /\ Beyond'
      BY <1>1, <1>2, <1>5, <2>2, <3>1, SaidIsHollow
    <3> QED BY <3>2 DEF Hollow
  <2> QED BY <2>1, <2>2
<1>11. Fair(t)'
  <2>1. SUFFICES ASSUME n > 0 PROVE FairText(t, Start(t))'
    BY <1>1, <1>6 DEF Fair
  <2>2. ASSUME th'[t].inBuf = OwnLinks(t, p.used) PROVE Start(t)' = a
    <3>1. ThreadOK(th[t]) /\ Linked(t) /\ RdOK /\ u \in 0 .. Len(Src(t)) /\ a \in Nat
      BY <1>7 DEF Looking
    <3>2. PICK s : s = IF l.links = 0 THEN u ELSE l.start
      OBVIOUS
    <3>3. Holds(OwnLinks(t, u), a, s, x + u)
      BY <1>1, <1>2, <1>6, <3>1, <3>2, OwnHolds
    <3>4. OwnLinks(t, u)[1][1] - 1 = a
      BY <1>7, <2>1, <3>3, HoldsStart
    <3> QED BY <1>6, <2>2, <3>4 DEF Start
  <2>3. PICK b : b = Start(t)'
    OBVIOUS
  <2>4. \/ pc'[t] = "read" /\ p.state = "CONTINUE" /\ th'[t].inBuf = OwnLinks(t, p.used)
        \/ pc'[t] = "parsed" /\ (~ m.needCode \/ Refused(m))
        \/ pc'[t] = "parsed" /\ th'[t].inBuf = OwnLinks(t, p.used)
    BY <1>1, ParseMore
  <2>5. CASE pc'[t] = "read" /\ p.state = "CONTINUE" /\ th'[t].inBuf = OwnLinks(t, p.used)
    <3>1. b = a /\ InBlock(t)'
      BY <2>2, <2>3, <2>5 DEF InBlock
    <3>2. \A k \in 1 .. n : Before(a + k) /\ input.bytes[a + k] # "err"
      BY <1>1, <1>5, <1>6, <1>7, <2>5 DEF Said
    <3>3. Scan(m, b)
      BY <1>6, <3>1, <3>2 DEF Scan
    <3>4. Scan(m, b)'
      BY <1>2, <3>3, ShapesStay
    <3> QED BY <1>1, <2>3, <3>1, <3>4 DEF FairText
  <2>6. CASE pc'[t] = "parsed" /\ (~ m.needCode \/ Refused(m))
    BY <1>1, <2>6 DEF FairText, InBlock, Refused
  <2>7. CASE /\ pc'[t] = "parsed" /\ th'[t].inBuf = OwnLinks(t, p.used) /\ m.needCode
             /\ ~ Refused(m)
    <3>1. b = a /\ ~ InBlock(t)'
      BY <2>2, <2>3, <2>7 DEF InBlock
    <3>2. p.state # "OVERFLOW"
      BY <1>1, <1>4, <2>7 DEF Stored
    <3>3. Shaped(m, b)
      <4>1. InputOK
        BY DEF Control
      <4> QED BY <1>1, <1>3, <1>5, <1>6, <1>7, <2>1, <3>1, <3>2, <4>1, SaidIsShaped
    <3>4. Judged(m, b, FALSE)
      BY <1>8 DEF Judged, OK
    <3>5. Shaped(m, b)' /\ Judged(m, b, FALSE)'
      BY <1>2, <3>3, <3>4, ShapesStay
    <3>6. Judged(m, b, pc[t] = "wait_write")'
      <4>1. pc'[t] # "wait_write"
        BY <2>7
      <4> QED BY <1>8, <3>5, <4>1 DEF Judged, OK
    <3> QED BY <1>1, <2>3, <3>1, <3>5, <3>6 DEF FairText
  <2> QED BY <2>4, <2>5, <2>6, <2>7
<1> QED BY <1>9, <1>10, <1>11 DEF Right

-----------------------------------------------------------------------------
(* A step of a thread that has its block.                                  *)
LEMMA CarryRight ==
  ASSUME NEW t \in Threads, input' = input, ~ InBlock(t), ~ InBlock(t)',
         th'[t].inBuf = th[t].inBuf, rd'.pos = rd.pos, rd'.cross = rd.cross,
         rd'.finished = rd.finished, Right(t), NEW l, l = th[t].l, NEW m, th'[t].l = m,
         m.inPreSize = l.inPreSize, m.size = l.size, m.needWrite = l.needWrite,
         l.finish => m.finish, Refused(l) => Refused(m),
         m.needCode /\ ~ Refused(m) =>
           l.needCode /\ ~ Refused(l) /\ m.state = l.state /\ m.outPreSize = l.outPreSize,
         NEW done \in BOOLEAN, done <=> pc'[t] = "wait_write", pc[t] # "wait_write",
         NEW a, a = Start(t),
         /\ m.inPreSize > 0 /\ l.needCode /\ ~ Refused(l) /\ m.needCode
         /\ Shaped(l, a) /\ Judged(l, a, FALSE)
         => Judged(m, a, done),
         Ready(t)'
  PROVE  Right(t)'
<1>1. Start(t)' = a
  BY DEF Start
<1>2. Fair(t)'
  <2>1. SUFFICES ASSUME m.inPreSize > 0, m.needCode, ~ Refused(m)
                 PROVE  Shaped(m, a)' /\ Judged(m, a, pc[t] = "wait_write")'
    BY <1>1 DEF Fair, FairText
  <2>2. Shaped(l, a) /\ Judged(l, a, pc[t] = "wait_write")
    BY <2>1 DEF Right, Fair, FairText
  <2>3. Judged(l, a, FALSE)
    BY <2>2 DEF Judged
  <2>4. Shaped(m, a)
    BY <2>1, <2>2 DEF Shaped
  <2>5. Judged(m, a, done)
    BY <2>1, <2>2, <2>3
  <2>6. Shaped(m, a)' /\ Judged(m, a, done)'
    BY <2>4, <2>5, ShapesStay
  <2>7. Judged(m, a, pc[t] = "wait_write")'
    BY <2>6 DEF Judged
  <2> QED BY <2>6, <2>7
<1>3. Hollow(t)'
  <2>1. SUFFICES ASSUME m.inPreSize = 0, m.needWrite, ~ Refused(m)
                 PROVE  m.size = 0 /\ m.finish /\ Beyond'
    BY DEF Hollow
  <2>2. l.size = 0 /\ l.finish /\ Beyond
    BY <2>1 DEF Right, Hollow
  <2>3. Beyond'
    BY <2>2, FullStays DEF Beyond, Past
  <2> QED BY <2>2, <2>3
<1> QED BY <1>2, <1>3 DEF Right

(* PreCode calls the coder, or says why not.                               *)
LEMMA PreCodeRight ==
  ASSUME Shape, Control, NEW t \in Threads, NEW a, NEW b, HasBlock(t, a, b),
         th[t].l.res = OK, Right(t), PreCode(t), sync.res = OK
  PROVE  Right(t)'
<1> DEFINE l == th[t].l
           looks == pc[t] = "parsed" /\ l.res = OK
           res == IF looks THEN sync.res ELSE l.res
           was == IF looks THEN InterruptedBefore(l.blockIndex) ELSE l.wasInterrupted
           called == res = OK /\ l.needCode /\ ~ was
           mm(code) == [l EXCEPT !.res = res, !.wasInterrupted = was, !.codeRes = code,
                                 !.prepared = called /\ code = OK,
                                 !.coderRes = IF code = "DATA" THEN code ELSE @,
                                 !.needCode = @ /\ code = OK,
                                 !.finish = @ \/ code # OK \/ res # OK \/ was]
<1>1. /\ pc[t] \in {"parsed", "pass"} /\ pc' = [pc EXCEPT ![t] = "start_next"] /\ Working(t)
      /\ input' = input /\ rd' = rd
  BY DEF PreCode, Working, Reading, caller
<1>2. PICK code : /\ SetLocals(t, mm(code)) /\ code \in {OK, "DATA", "MEM"}
                  /\ code = "DATA" <=> called /\ l.inPreSize = 0
                  /\ code = "MEM" => called
  BY Zenon DEF PreCode
<1>3. /\ ThreadOK(th[t]) /\ LocalOK(l) /\ t \in DOMAIN th /\ t \in DOMAIN pc
      /\ l.codeRes = OK
  BY <1>1 DEF Control, Good, ThreadOK, Shape, Flags
<1>4. called <=> l.needCode /\ ~ was
  BY Zenon
<1>5. l.needCode => l.needWrite
  BY DEF HasBlock, Sized
<1> HIDE DEF called, was, res
<1> DEFINE m == mm(code)
<1>6. /\ m.inPreSize = l.inPreSize /\ m.outPreSize = l.outPreSize /\ m.size = l.size
      /\ m.state = l.state /\ m.needCode = (l.needCode /\ code = OK)
      /\ m.isAllocError = l.isAllocError /\ m.threadingError = l.threadingError
      /\ m.overflow = l.overflow /\ m.needWrite = l.needWrite /\ m.codeRes = code
      /\ m.wasInterrupted = was /\ m.prepared = (called /\ code = OK)
      /\ (l.finish => m.finish) /\ (code = OK => m.coderRes = l.coderRes)
  BY <1>3 DEF LocalOK, OK
<1>7. th' = [th EXCEPT ![t].l = m]
  BY <1>2 DEF SetLocals
<1> HIDE DEF m, mm
<1>8. th'[t].l = m /\ pc'[t] = "start_next" /\ th'[t].inBuf = th[t].inBuf
  BY <1>1, <1>3, <1>7 DEF ThreadOK
<1>9. m.needCode /\ ~ Refused(m) => l.needCode /\ ~ Refused(l)
  BY <1>3, <1>6 DEF Refused, OK
<1>10. ~ InBlock(t) /\ ~ InBlock(t)'
  BY <1>1, <1>8 DEF InBlock
<1>11. Ready(t)'
  <2>1. m.needCode /\ ~ m.wasInterrupted => m.prepared
    BY <1>4, <1>6
  <2>2. m.needCode => m.codeRes = OK
    BY <1>6
  <2>3. m.codeRes # OK => m.needWrite
    <3>1. code # OK => called
      BY <1>2
    <3> QED BY <1>4, <1>5, <1>6, <3>1
  <2>4. m.codeRes # OK => m.codeRes = "MEM" \/ m.inPreSize = 0
    BY <1>2, <1>6
  <2> QED BY <1>8, <1>10, <2>1, <2>2, <2>3, <2>4 DEF Ready
<1>12. PICK s, k, done : s = Start(t) /\ k = l /\ done = FALSE
  OBVIOUS
<1>13. k.needCode /\ m.needCode /\ Shaped(k, s) /\ Judged(k, s, FALSE) => Judged(m, s, done)
  BY <1>3, <1>6, <1>12 DEF Judged, OK
<1>14. Refused(k) => Refused(m)
  BY <1>6, <1>12 DEF Refused
<1>15. done \in BOOLEAN /\ (done <=> pc'[t] = "wait_write") /\ pc[t] # "wait_write"
  BY <1>1, <1>8, <1>12
<1> QED BY <1>1, <1>6, <1>8, <1>9, <1>10, <1>11, <1>12, <1>13, <1>14, <1>15, CarryRight

(* Waking the next thread says nothing of the block.                       *)
LEMMA StartRight ==
  ASSUME Shape, Control, NEW t \in Threads, th[t].l.res = OK, Right(t),
         StartNext(t) \/ StartNone(t)
  PROVE  Right(t)'
<1>1. PICK l, m, a : l = th[t].l /\ m = th'[t].l /\ a = Start(t)
  OBVIOUS
<1>2. /\ Unused(m, l) /\ m.inPreSize = l.inPreSize /\ th'[t].inBuf = th[t].inBuf
      /\ pc[t] = "start_next"
      /\ m.size = l.size /\ m.needWrite = l.needWrite /\ (l.finish => m.finish)
      /\ m.codeRes = l.codeRes /\ m.coderRes = l.coderRes
      /\ m.wasInterrupted = l.wasInterrupted
      /\ \/ /\ pc'[t] = AfterStart(l) /\ m.needCode = l.needCode
            /\ m.outPreSize = l.outPreSize /\ m.state = l.state
            /\ (Refused(m) <=> Refused(l))
         \/ pc'[t] = "wait_write" /\ m.needCode = FALSE /\ Refused(m)
  BY <1>1, StartStores
<1>3. input' = input /\ IsRd(rd) /\ RdOK
  BY DEF StartNext, StartNone, caller, Shape, Control
<1>4. rd'.pos = rd.pos /\ rd'.cross = rd.cross /\ rd'.finished = rd.finished
  <2>1. \/ rd' = rd \/ rd' = [rd EXCEPT !.started = @ + 1] \/ rd' = [rd EXCEPT !.limit = rd.started]
    BY DEF StartNext, StartNone
  <2> QED BY <1>3, <2>1 DEF RdOK
<1>5. ~ InBlock(t) /\ ~ InBlock(t)'
  BY <1>2 DEF InBlock, AfterStart
<1>6. l.needCode => l.codeRes = OK
  BY <1>1, <1>2 DEF Right, Ready
<1>7. Ready(t)'
  <2>1. /\ l.needCode /\ ~ l.wasInterrupted => l.prepared
        /\ l.codeRes # OK => l.needWrite
        /\ ~ l.needCode /\ l.codeRes # OK /\ ~ Refused(l) => l.codeRes = "MEM" \/ l.inPreSize = 0
    BY <1>1, <1>2 DEF Right, Ready
  <2>2. m.prepared = l.prepared
    BY <1>2 DEF Unused
  <2>3. m.needCode => l.needCode
    BY <1>2
  <2>4. ~ m.needCode /\ ~ Refused(m) => ~ l.needCode /\ ~ Refused(l)
    BY <1>2
  <2> QED BY <1>1, <1>2, <1>5, <1>6, <2>1, <2>2, <2>3, <2>4 DEF Ready
<1>8. PICK done \in BOOLEAN : done <=> pc'[t] = "wait_write"
  OBVIOUS
<1>9. ASSUME m.needCode, ~ Refused(m)
      PROVE  l.needCode /\ ~ Refused(l) /\ m.state = l.state /\ m.outPreSize = l.outPreSize
  BY <1>2, <1>9
<1>10. ASSUME l.needCode, m.needCode, Judged(l, a, FALSE)
       PROVE  Judged(m, a, done)
  <2>1. pc'[t] = "code"
    BY <1>1, <1>2, <1>6, <1>10 DEF AfterStart
  <2>2. ~ done
    BY <1>8, <2>1
  <2> QED BY <1>2, <1>10, <2>2 DEF Judged, Damaged
<1>11. /\ Refused(l) => Refused(m)
       /\ pc[t] # "wait_write" /\ th'[t].l = m
  BY <1>1, <1>2
<1>12. /\ m.needCode /\ ~ Refused(m) =>
             l.needCode /\ ~ Refused(l) /\ m.state = l.state /\ m.outPreSize = l.outPreSize
       /\ /\ m.inPreSize > 0 /\ l.needCode /\ ~ Refused(l) /\ m.needCode
          /\ Shaped(l, a) /\ Judged(l, a, FALSE)
          => Judged(m, a, done)
  BY <1>9, <1>10
<1>13. /\ m.inPreSize = l.inPreSize /\ th'[t].inBuf = th[t].inBuf /\ m.size = l.size
       /\ m.needWrite = l.needWrite /\ (l.finish => m.finish)
  BY <1>2
<1> HIDE <1>2
<1> QED BY <1>1, <1>3, <1>4, <1>5, <1>7, <1>8, <1>11, <1>12, <1>13, CarryRight, ZenonT(30)

(* How a call of the coder ends: with a failure that is damage; with the   *)
(* block; or in the middle of it, to go on or interrupted.                 *)
Outcome(m, l, k, more) ==
  \/ ~ k.ok /\ m.codeRes = "DATA" /\ m.coderRes = "DATA" /\ m.wasInterrupted = l.wasInterrupted
  \/ k.ok /\ ~ k.fits
  \/ /\ k.ok /\ k.fits /\ k.stop /\ m.codeRes = l.codeRes /\ m.coderRes = l.coderRes
     /\ m.wasInterrupted = l.wasInterrupted
     /\ m.outBuf = k.buf /\ m.inCodeSize = k.pos
  \/ /\ k.ok /\ k.fits /\ m.codeRes = l.codeRes /\ m.coderRes = l.coderRes
     /\ more \/ m.wasInterrupted
Untried(m, l) ==
  /\ m.wasInterrupted = l.wasInterrupted
  /\ \/ m.codeRes = l.codeRes /\ m.coderRes = l.coderRes
     \/ m.codeRes = "DATA" /\ m.coderRes = "DATA"

(* What the Code callback says of the block.                               *)
LEMMA CodeSays ==
  ASSUME Shape, Control, NEW t \in Threads, CodeFails(t) \/ CodeLink(t) \/ CodeUnprepared(t),
         sync'.res = OK
  PROVE  LET l == th[t].l
             m == th'[t].l
         IN  /\ m.needWrite = l.needWrite /\ m.finish = l.finish /\ m.prepared = l.prepared
             /\ \/ l.prepared /\ Outcome(m, l, Coded(t), pc'[t] = "code")
                \/ ~ l.prepared /\ Untried(m, l) /\ pc'[t] = "wait_write"
<1> DEFINE l == th[t].l
           k == Coded(t)
           e == AfterCode(l, k)
<1>1. pc[t] = "code" /\ Working(t)
  BY DEF CodeFails, CodeLink, CodeUnprepared, Working
<1>2. ThreadOK(th[t]) /\ LocalOK(l) /\ t \in DOMAIN th /\ t \in DOMAIN pc /\ SyncOK
  BY <1>1 DEF Control, Good, ThreadOK, Shape
<1>3. ASSUME NEW m, th' = [th EXCEPT ![t].l = m]
      PROVE  th'[t].l = m
  BY <1>2, <1>3 DEF ThreadOK
<1> DEFINE Same(m) == m.needWrite = l.needWrite /\ m.finish = l.finish /\ m.prepared = l.prepared
<1>4. /\ Same(e) /\ e.outBuf = k.buf /\ e.inCodeSize = k.pos /\ DOMAIN e = DOMAIN l
      /\ e.codeRes = l.codeRes /\ e.coderRes = l.coderRes /\ e.wasInterrupted = l.wasInterrupted
  BY <1>2 DEF AfterCode, LocalOK
<1>d. DOMAIN e = {"blockIndex", "res", "codeRes", "wasInterrupted", "finish", "needCode",
                  "needWrite", "isAllocError", "overflow", "threadingError", "start", "size",
                  "checked", "links", "last", "link", "next", "state", "inPreSize",
                  "outPreSize", "prepared", "inCodeSize", "outBuf", "coderRes"}
  BY <1>2, <1>4 DEF LocalOK
<1> HIDE DEF e
<1>5. SUFFICES \E m : /\ th'[t].l = m /\ Same(m)
                      /\ \/ l.prepared /\ Outcome(m, l, k, pc'[t] = "code")
                         \/ ~ l.prepared /\ Untried(m, l) /\ pc'[t] = "wait_write"
  OBVIOUS
<1>6. CASE CodeFails(t)
  <2>0. PICK x, y : x = (IF k.ok THEN "FAIL" ELSE "DATA") /\ y = (IF k.ok THEN OK ELSE "DATA")
    OBVIOUS
  <2> DEFINE m == [e EXCEPT !.codeRes = x, !.coderRes = y]
  <2>1. th' = [th EXCEPT ![t].l = m] /\ l.prepared /\ ~ (k.ok /\ k.fits)
    BY <1>6, <2>0 DEF CodeFails, SetLocals, e
  <2>2. Same(m) /\ m.codeRes = x /\ m.coderRes = y /\ m.wasInterrupted = l.wasInterrupted
    BY <1>d, <1>4
  <2> HIDE DEF m, k, Same
  <2>3. th'[t].l = m
    BY <1>3, <2>1
  <2>4. Outcome(m, l, k, pc'[t] = "code")
    BY <2>0, <2>1, <2>2 DEF Outcome
  <2>5. Same(m)
    BY <2>2
  <2> QED BY <2>1, <2>3, <2>4, <2>5 DEF Same, k
<1>7. CASE CodeLink(t)
  <2>0. l.prepared /\ k.ok /\ k.fits
    BY <1>7 DEF CodeLink
  <2>1. CASE k.stop /\ th' = [th EXCEPT ![t].l = e]
    <3> HIDE DEF k, Same
    <3>1. th'[t].l = e
      BY <1>3, <2>1
    <3>2. Outcome(e, l, k, pc'[t] = "code")
      BY <1>4, <2>0, <2>1 DEF Outcome
    <3> QED BY <1>4, <2>0, <3>1, <3>2 DEF Same, k
  <2>2. CASE ~ k.stop
    <3>0. PICK y : y = InterruptedBefore(l.blockIndex)
      OBVIOUS
    <3>1. PICK r \in ProgressResults :
             /\ th' = [th EXCEPT ![t].l = [e EXCEPT !.res = r, !.wasInterrupted = y]]
             /\ sync' = [sync EXCEPT !.res = r]
             /\ pc' = [pc EXCEPT ![t] = IF r = OK /\ ~ y THEN "code" ELSE "wait_write"]
      BY <1>7, <2>2, <3>0 DEF CodeLink, SetLocals, e
    <3>2. r = OK
      BY <1>2, <3>1 DEF SyncOK
    <3> DEFINE m == [e EXCEPT !.res = r, !.wasInterrupted = y]
    <3>3. Same(m) /\ m.codeRes = l.codeRes /\ m.coderRes = l.coderRes /\ m.wasInterrupted = y
      BY <1>d, <1>4
    <3>4. pc'[t] = "code" \/ y
      BY <1>2, <3>1, <3>2
    <3> HIDE DEF m, k, Same
    <3>5. th'[t].l = m
      BY <1>3, <3>1 DEF m
    <3>6. Outcome(m, l, k, pc'[t] = "code")
      BY <2>0, <3>3, <3>4 DEF Outcome
    <3> QED BY <2>0, <3>3, <3>5, <3>6 DEF Same, k
  <2> QED BY <1>7, <2>1, <2>2 DEF CodeLink, SetLocals, e
<1>8. CASE CodeUnprepared(t)
  <2> DEFINE n == [l EXCEPT !.codeRes = "DATA", !.coderRes = "DATA"]
  <2>1. pc'[t] = "wait_write" /\ ~ l.prepared
    BY <1>2, <1>8 DEF CodeUnprepared
  <2>2. th' = [th EXCEPT ![t].l = n] \/ th' = th
    BY <1>8 DEF CodeUnprepared, SetLocals
  <2>3. Untried(n, l) /\ Same(n)
    BY <1>2 DEF LocalOK, Untried
  <2> HIDE DEF n
  <2>4. CASE th' = th
    <3>1. th'[t].l = l /\ Same(l) /\ Untried(l, l)
      BY <2>4 DEF Untried
    <3> QED BY <2>1, <3>1
  <2>5. CASE th' = [th EXCEPT ![t].l = n]
    <3>1. th'[t].l = n
      BY <1>3, <2>5
    <3> QED BY <2>1, <2>3, <3>1
  <2> QED BY <2>2, <2>4, <2>5
<1> QED BY <1>6, <1>7, <1>8

(* The coder judges the block it decodes, unless it was interrupted.       *)
LEMMA CodeRight ==
  ASSUME Shape, Control, NEW t \in Threads, Clean(t), NEW a \in Nat, NEW b, HasBlock(t, a, b),
         IsSeq(th[t].l.outBuf), Worded(t), Right(t),
         CodeFails(t) \/ CodeLink(t) \/ CodeUnprepared(t), sync'.res = OK
  PROVE  Right(t)'
<1>1. PICK l, m, k, s : l = th[t].l /\ m = th'[t].l /\ k = Coded(t) /\ s = Start(t)
  OBVIOUS
<1>2. /\ Block(m, l) /\ th'[t].inBuf = th[t].inBuf /\ pc[t] = "code"
      /\ pc'[t] \in {"code", "wait_write"} /\ rd' = rd /\ input' = input
      /\ pc'[t] = "code" => (k.ok /\ k.fits) \/ ~ l.prepared
  BY <1>1, CodeStores
<1>3. /\ m.needWrite = l.needWrite /\ m.finish = l.finish /\ m.prepared = l.prepared
      /\ \/ l.prepared /\ Outcome(m, l, k, pc'[t] = "code")
         \/ ~ l.prepared /\ Untried(m, l) /\ pc'[t] = "wait_write"
  BY <1>1, CodeSays
<1>4. /\ ThreadOK(th[t]) /\ LocalOK(l) /\ InputOK /\ RdOK
  BY <1>1 DEF Control, Good, ThreadOK
<1>5. ~ InBlock(t) /\ ~ InBlock(t)'
  BY <1>2 DEF InBlock
<1>6. /\ l.needCode /\ l.needWrite /\ l.codeRes = OK
      /\ ~ l.prepared => l.wasInterrupted
  <2>1. l.needCode /\ l.needWrite
    BY <1>1, <1>2 DEF Clean, HasBlock, Sized
  <2> QED BY <1>1, <1>2, <2>1 DEF Right, Ready
<1>7. Ready(t)'
  <2>1. m.needCode = l.needCode
    BY <1>2 DEF Block
  <2>2. m.needCode /\ ~ m.wasInterrupted => m.prepared
    BY <1>3, <1>6 DEF Untried
  <2>3. pc'[t] = "code" => m.codeRes = OK
    BY <1>2, <1>3, <1>6 DEF Outcome
  <2>4. pc'[t] # "start_next"
    BY <1>2
  <2> QED BY <1>1, <1>3, <1>5, <1>6, <2>1, <2>2, <2>3, <2>4 DEF Ready
<1>8. PICK done \in BOOLEAN : done <=> pc'[t] = "wait_write"
  OBVIOUS
<1>9. ASSUME m.inPreSize > 0, ~ Refused(l), Shaped(l, s), Judged(l, s, FALSE)
      PROVE  Judged(m, s, done)
  <2>1. l.inPreSize > 0
    BY <1>2, <1>9 DEF Block
  <2>2. s = a
    BY <1>1, <1>4, <1>5, <2>1, StartIs
  <2>3. Fits(t, a)
    BY <1>1, <1>5, <1>6, <1>9, <2>1, <2>2 DEF Worded, BlockText
  <2>4. a + l.size <= Len(input.bytes) /\ Holds(th[t].inBuf, a, l.start, l.size)
    <3>1. PICK x, y, z : x = a + l.size /\ y = rd.pos /\ z = Len(input.bytes)
      OBVIOUS
    <3>2. l.size \in Int /\ x \in Int /\ y \in 0 .. z /\ z \in Int
      BY <1>4, <3>1 DEF LocalOK, RdOK, InputOK, Streams
    <3>3. x <= y /\ Holds(th[t].inBuf, a, l.start, l.size)
      BY <1>1, <3>1 DEF HasBlock, Sized
    <3>4. x <= z
      BY <3>2, <3>3
    <3> QED BY <3>1, <3>3, <3>4
  <2>5. Judges(k, l, a)
    BY <1>1, <1>2, <1>4, <1>9, <2>1, <2>2, <2>3, <2>4, CodedText
  <2>6. Damaged(l, a) => Damaged(m, a)
    BY <1>2 DEF Damaged, Block
  <2>7. CASE ~ l.prepared
    <3>1. m.wasInterrupted
      BY <1>3, <1>6, <2>7 DEF Untried
    <3>2. m.codeRes = OK \/ (m.codeRes = "DATA" /\ m.coderRes # OK)
      BY <1>3, <1>6, <2>7 DEF Untried, OK
    <3> QED BY <3>1, <3>2 DEF Judged, OK
  <2>8. CASE l.prepared
    <3>1. CASE ~ k.ok
      BY <1>3, <2>2, <2>5, <2>6, <2>8, <3>1 DEF Outcome, Judges, Judged, OK
    <3>2. CASE k.ok /\ k.stop /\ m.codeRes = OK /\ m.outBuf = k.buf /\ m.inCodeSize = k.pos
      <4>1. Len(m.outBuf) = m.outPreSize
        BY <1>2, <2>5, <3>2 DEF Judges, Block
      <4>2. BlockFinished(m) => m.inCodeSize = m.inPreSize
        BY <1>2, <2>5, <3>2 DEF Judges, Block, BlockFinished
      <4> QED BY <3>2, <4>1, <4>2 DEF Judged, OK
    <3>3. CASE k.ok /\ m.codeRes = OK /\ (pc'[t] = "code" \/ m.wasInterrupted)
      <4>1. done => m.wasInterrupted
        BY <1>8, <3>3
      <4> QED BY <3>3, <4>1 DEF Judged, OK
    <3> QED BY <1>3, <1>6, <2>5, <2>8, <3>1, <3>2, <3>3 DEF Outcome, Judges
  <2> QED BY <2>7, <2>8
<1>10. /\ m.inPreSize = l.inPreSize /\ m.size = l.size /\ m.needWrite = l.needWrite
       /\ (l.finish => m.finish) /\ (Refused(l) => Refused(m))
       /\ pc[t] # "wait_write" /\ th'[t].l = m
  BY <1>1, <1>2, <1>3 DEF Block
<1>11. m.needCode /\ ~ Refused(m) =>
             l.needCode /\ ~ Refused(l) /\ m.state = l.state /\ m.outPreSize = l.outPreSize
  BY <1>2 DEF Block
<1>12. /\ m.inPreSize > 0 /\ l.needCode /\ ~ Refused(l) /\ m.needCode
       /\ Shaped(l, s) /\ Judged(l, s, FALSE)
       => Judged(m, s, done)
  BY <1>9
<1> QED BY <1>1, <1>2, <1>5, <1>7, <1>8, <1>10, <1>11, <1>12, CarryRight, ZenonT(30)

-----------------------------------------------------------------------------
(* A thread that takes the next block knows nothing of it.                 *)
LEMMA WaitReadRight ==
  ASSUME Shape, RdOK, NEW t \in Threads, WaitRead(t)
  PROVE  /\ Working(t)' => Right(t)'
         /\ rd'.pos = rd.pos /\ rd'.cross = rd.cross /\ rd'.finished = rd.finished
<1>1. t \in DOMAIN pc /\ t \in DOMAIN th /\ {"l"} \subseteq DOMAIN th[t]
  BY DEF Shape, IsThread
<1>2. CASE exitThread /\ pc' = [pc EXCEPT ![t] = "none"] /\ rd' = rd
  <2>1. ~ Working(t)'
    BY <1>1, <1>2 DEF Working, Reading
  <2> QED BY <1>1, <1>2, <2>1
<1>3. CASE ~ exitThread
  <2>1. rd' = [rd EXCEPT !.blockIndex = @ + 1]
    BY <1>3 DEF WaitRead
  <2>2. PICK r : SetLocals(t, [Fresh EXCEPT !.blockIndex = rd.blockIndex, !.res = r,
                                            !.wasInterrupted = InterruptedBefore(rd.blockIndex),
                                            !.finish = rd.finished])
    BY <1>3 DEF WaitRead
  <2>3. /\ th'[t].l.inPreSize = 0 /\ th'[t].l.needWrite = FALSE /\ th'[t].l.needCode = FALSE
        /\ th'[t].l.codeRes = OK
    BY <1>1, <2>2 DEF Fresh, SetLocals
  <2>4. Right(t)'
    BY <2>3 DEF Right, Fair, Hollow, Ready
  <2> QED BY <2>1, <2>4 DEF RdOK
<1> QED BY <1>2, <1>3 DEF WaitRead

(* A step of a thread that works, but a writer's, is right.                *)
LEMMA StepRight ==
  ASSUME Shape, Control, Control', NEW w \in 0 .. MaxThreads, NEW n \in 0 .. MaxThreads,
         Round(w, n), NEW B, Placed(n, B), NEW t \in Threads, Thread(t),
         ~ WaitRead(t), ~ Write(t), InSize(rd.outParsed), Worded(t), Clean(t), Right(t),
         sync.res = OK, sync'.res = OK
  PROVE  /\ Right(t)'
         /\ \/ rd'.pos = rd.pos /\ rd'.cross = rd.cross /\ rd'.finished = rd.finished
            \/ Reading(t)
<1>1. CASE InBlock(t)
  <2>1. PICK a : a = B[bi(t)] /\ Looking(t, a)
    BY <1>1, LookingIs
  <2>2. \/ ReadNoLink(t) \/ ReadCross(t) \/ ReadLink(t) \/ ParseOverflow(t) \/ ParseContinue(t)
        \/ ParseEnd(t) \/ ParseNew(t)
    BY <1>1 DEF Thread, InBlock, PreCode, StartNext, StartNone, CodeFails, CodeLink,
                CodeUnprepared
  <2>3. Reading(t)
    BY <1>1 DEF InBlock, Reading
  <2>4. CASE ReadNoLink(t)
    BY <2>1, <2>3, <2>4, ReadNoLinkRight
  <2>5. CASE ReadCross(t)
    BY <2>1, <2>3, <2>5, ReadCrossRight
  <2>6. CASE ReadLink(t)
    BY <2>1, <2>3, <2>6, ReadLinkRight
  <2>7. CASE ParseOverflow(t) \/ ParseContinue(t) \/ ParseEnd(t) \/ ParseNew(t)
    BY <2>1, <2>3, <2>7, ParseRight
  <2> QED BY <2>2, <2>4, <2>5, <2>6, <2>7
<1>2. CASE ~ InBlock(t)
  <2>1. \/ PreCode(t) \/ StartNext(t) \/ StartNone(t)
        \/ CodeFails(t) \/ CodeLink(t) \/ CodeUnprepared(t)
    BY <1>2 DEF Thread, InBlock, ReadNoLink, ReadCross, ReadLink, ParseOverflow, ParseContinue,
                ParseEnd, ParseNew
  <2>2. Working(t)
    BY <2>1 DEF Working, Reading, PreCode, StartNext, StartNone, CodeFails, CodeLink,
                CodeUnprepared
  <2>3. HasPlace(t, B) /\ bi(t) \in Nat /\ B \in [Nat -> Nat]
    BY <2>2, InRound DEF Placed, Places
  <2>4. PICK a, b : a = B[bi(t)] /\ b = B[bi(t) + 1]
    OBVIOUS
  <2>5. a \in Nat /\ HasBlock(t, a, b) /\ IsSeq(th[t].l.outBuf) /\ th[t].l.res = OK
    BY <1>2, <2>3, <2>4 DEF HasPlace
  <2>6. CASE PreCode(t)
    <3>1. Right(t)'
      BY <2>5, <2>6, PreCodeRight
    <3> QED BY <2>6, <3>1 DEF PreCode
  <2>7. CASE StartNext(t) \/ StartNone(t)
    <3>1. Right(t)'
      BY <2>5, <2>7, StartRight
    <3> QED BY <2>7, <3>1 DEF StartNext, StartNone, Reading
  <2>8. CASE CodeFails(t) \/ CodeLink(t) \/ CodeUnprepared(t)
    <3>1. Right(t)'
      BY <2>5, <2>8, CodeRight
    <3>2. rd' = rd
      BY <2>8 DEF CodeFails, CodeLink, CodeUnprepared
    <3> QED BY <3>1, <3>2
  <2> QED BY <2>1, <2>6, <2>7, <2>8
<1> QED BY <1>1, <1>2

(* What is said of the threads holds after every step but a writer's.      *)
LEMMA ThreadRight ==
  ASSUME Shape, Control, Control', Untouched, NEW t \in Threads, Thread(t), ~ Write(t),
         WaitRead(t) \/ \E w, n \in 0 .. MaxThreads : InPlace(w, n),
         InSize(rd.outParsed), sync.res = OK, sync'.res = OK,
         \A u \in Threads : Working(u) => Worded(u) /\ Right(u)
  PROVE  \A u \in Threads : Working(u)' => Right(u)'
<1>1. Others(t) /\ input' = input /\ RdOK
  BY ThreadOthers DEF Others, Control
<1>2. /\ Working(t)' => Right(t)'
      /\ \/ rd'.pos = rd.pos /\ rd'.cross = rd.cross /\ rd'.finished = rd.finished
         \/ \A u \in Threads : u # t /\ Working(u) => ~ th[u].l.finish
  <2>1. CASE WaitRead(t)
    BY <1>1, <2>1, WaitReadRight
  <2>2. CASE ~ WaitRead(t)
    <3>1. PICK w, n \in 0 .. MaxThreads : InPlace(w, n)
      BY <2>2
    <3>2. PICK B : Round(w, n) /\ Placed(n, B)
      BY <3>1 DEF InPlace
    <3>3. Working(t) /\ Clean(t)
      BY <2>2 DEF Thread, Working, Reading, ReadNoLink, ReadCross, ReadLink, ParseOverflow,
                ParseContinue, ParseEnd, ParseNew, PreCode, StartNext, StartNone, CodeFails,
                CodeLink, CodeUnprepared, Untouched
    <3>4. /\ Right(t)'
          /\ \/ rd'.pos = rd.pos /\ rd'.cross = rd.cross /\ rd'.finished = rd.finished
             \/ Reading(t)
      BY <2>2, <3>2, <3>3, StepRight
    <3>5. Reading(t) => \A u \in Threads : Working(u) /\ u # t => ~ th[u].l.finish
      BY <3>2, ReaderIsLast DEF Passes
    <3> QED BY <3>4, <3>5
  <2> QED BY <2>1, <2>2
<1>3. ASSUME NEW u \in Threads, u # t, Working(u)' PROVE Right(u)'
  <2>1. th'[u] = th[u] /\ pc'[u] = pc[u] /\ Working(u)
    BY <1>1, <1>3 DEF Others, Working, Reading
  <2>2. \/ rd'.pos = rd.pos /\ rd'.cross = rd.cross /\ rd'.finished = rd.finished
        \/ ~ th[u].l.finish
    BY <1>2, <1>3, <2>1
  <2> QED BY <1>1, <2>1, <2>2, RightStays
<1>4. ASSUME NEW u \in Threads, Working(u)' PROVE Right(u)'
  BY <1>2, <1>3, <1>4
<1> QED BY <1>4

-----------------------------------------------------------------------------
(* What thread t does leaves nothing but what the others hold.             *)
LEMMA EmptyBefore ==
  ASSUME NEW t \in Threads, Others(t), wr' = wr,
         Empty' => rd.cross = << >> /\ (Working(t) => th[t].l.size = 0)
  PROVE  Empty' => Empty
<1>1. SUFFICES ASSUME Empty' PROVE Empty
  OBVIOUS
<1>2. ASSUME NEW u \in Threads, Working(u), u # t PROVE th[u].l.size = 0
  <2>1. th'[u] = th[u] /\ Working(u)'
    BY <1>2 DEF Others, Working, Reading
  <2>2. (th[u].l.size = 0)'
    BY <1>1, <2>1 DEF Empty
  <2> QED BY <2>1, <2>2
<1>3. wr.numFilled = 0
  BY <1>1 DEF Empty
<1> QED BY <1>1, <1>2, <1>3 DEF Empty

(* What was decoded is in the stream as long as nothing more is read.      *)
LEMMA BareStays ==
  ASSUME UNCHANGED <<input, out>>, rd'.pos = rd.pos, Bare, Empty' => Empty
  PROVE  Bare'
<1>1. SUFFICES ASSUME Empty' PROVE (TextAt(rd.pos) \/ AtLimit)'
  BY DEF Bare
<1>2. TextAt(rd.pos) \/ AtLimit
  BY <1>1 DEF Bare
<1>3. CASE AtLimit
  BY <1>3 DEF AtLimit
<1>4. CASE TextAt(rd.pos)
  <2>1. TextAt(rd.pos)'
    <3>1. PICK x : x = rd.pos
      OBVIOUS
    <3>2. TextAt(x)'
      BY <1>4, <3>1, TextAtStays
    <3> QED BY <3>1, <3>2
  <2> QED BY <2>1
<1> QED BY <1>2, <1>3, <1>4

(* A block that begins where the output asked for ends, with no other      *)
(* block left, was found after all of that was written.                    *)
LEMMA EmptyAtLimit ==
  ASSUME Shape, Control, NEW w \in 0 .. MaxThreads, NEW n \in 0 .. MaxThreads, Round(w, n),
         NEW B, Placed(n, B), NEW t \in Threads, InBlock(t), NEW a, a = B[bi(t)],
         Others(t), Empty', FullAt(a)
  PROVE  AtLimit \/ Drained(a)
<1>1. Reading(t)
  BY DEF InBlock, Reading
<1>2. Working(t) /\ \A u \in Threads : Working(u) /\ u # t => ~ Reading(u) /\ Passes(u)
  BY <1>1, ReaderIsLast
<1>3. ASSUME NEW u \in Threads, Working(u), u # t PROVE FALSE
  <2>1. th'[u] = th[u] /\ Working(u)'
    BY <1>3 DEF Others, Working, Reading
  <2>2. (th[u].l.size = 0)'
    BY <2>1 DEF Empty
  <2>3. th[u].l.size = 0 /\ ~ th[u].l.finish /\ ~ Reading(u)
    BY <1>2, <1>3, <2>1, <2>2 DEF Passes
  <2>4. HasPlace(u, B) /\ ~ InBlock(u) /\ pc[u] \notin {"parsed", "pass"}
    BY <1>3, <2>3 DEF Placed, InBlock, Reading
  <2> QED BY <2>3, <2>4 DEF HasPlace, HasBlock
<1>4. bi(t) = rd.blockIndex - n
  <2>1. n > 0
    BY <1>1, BlockIsLast
  <2>2. w \in Threads /\ Working(w) /\ bi(w) = rd.blockIndex - n
    BY <2>1, InRound
  <2> QED BY <1>3, <2>2
<1>5. Written(a)
  BY <1>4 DEF Placed
<1> QED BY <1>5 DEF Written, FullAt, AtLimit

(* After the Parse callback there is nothing left only if there was        *)
(* nothing before, or all was written that was asked for.                  *)
LEMMA ParseBare ==
  ASSUME Shape, Control, NEW w \in 0 .. MaxThreads, NEW n \in 0 .. MaxThreads, Round(w, n),
         NEW B, Placed(n, B), NEW t \in Threads, NEW a, a = B[bi(t)], Looking(t, a), Others(t),
         InSize(rd.outParsed), Worded(t), Right(t),
         ParseOverflow(t) \/ ParseContinue(t) \/ ParseEnd(t) \/ ParseNew(t),
         Bare
  PROVE  Bare'
<1>1. PICK l, m, p : l = th[t].l /\ m = th'[t].l /\ p = Parsed(t)
  OBVIOUS
<1>2. /\ Given(t, a) /\ Found(t, a) /\ Reader(t, a) /\ rd'.pos = rd.pos /\ InBlock(t)
      /\ pc[t] = "parse" /\ UNCHANGED <<wr, out, input>>
  BY ParseLooks
<1>3. Stored(t, m, pc'[t], rd'.cross)
  BY <1>1, ParseLeaves
<1>4. Said(t, a)
  BY <1>2, ParseSays
<1>5. SUFFICES ASSUME Empty'
               PROVE  AtLimit \/ (rd.cross = << >> /\ l.size = 0)
  <2>1. CASE AtLimit
    BY <1>2, <2>1 DEF Bare, AtLimit
  <2>2. CASE ~ AtLimit
    <3>1. Empty' => rd.cross = << >> /\ (Working(t) => th[t].l.size = 0)
      BY <1>1, <1>5, <2>2
    <3>2. Empty' => Empty
      BY <1>2, <3>1, EmptyBefore
    <3> QED BY <1>2, <3>2, BareStays
  <2> QED BY <2>1, <2>2
<1>6. Working(t)' /\ m.size = 0 /\ rd'.cross = << >>
  <2>1. Working(t)'
    BY <1>3 DEF Stored, Working, Reading
  <2>2. (th[t].l.size = 0)' /\ (rd.cross = << >>)'
    BY <1>5, <2>1 DEF Empty
  <2> QED BY <1>1, <2>1, <2>2
<1>7. PICK len \in Nat, x \in Nat, u \in Nat :
         /\ len = Len(Src(t)) /\ x = l.inPreSize /\ u = p.used /\ u <= len /\ l.size = x + len
         /\ Src(t) \in Seq(Int) /\ (~ FromCross(t) => rd.cross = << >>)
         /\ (FromCross(t) => len > 0 /\ x = 0)
  <2>1. p.used \in 0 .. Len(Src(t)) /\ Len(Src(t)) \in Nat /\ p.used \in Nat
    BY <1>1, <1>2 DEF Found, Given
  <2> QED BY <1>1, <1>2, <2>1 DEF Given
<1>8. Len(LeftOver(t)) = len - u
  <2>1. PICK s, y : s = Src(t) /\ y = a + l.inPreSize
    OBVIOUS
  <2>2. s \in Seq(Int) /\ u \in 0 .. Len(s) /\ y \in Nat /\ RunFrom(s, y)
    BY <1>1, <1>2, <1>7, <2>1 DEF Given
  <2>3. Len(RestOf(s, u)) = Len(s) - u
    BY <2>2, RestRuns
  <2> QED BY <1>1, <1>7, <2>1, <2>3 DEF LeftOver
<1>9. CASE m.size = l.size
  <2>1. x + len = 0
    BY <1>6, <1>7, <1>9
  <2>2. len = 0
    BY <1>7, <2>1
  <2> QED BY <1>6, <1>7, <1>9, <2>2
<1>10. CASE /\ p.state \in {"MARK", "STOP", "ERROR", "CONTINUE"}
            /\ m.size = l.size - Len(LeftOver(t))
            /\ rd'.cross = (IF FromCross(t) THEN LeftOver(t) ELSE rd.cross)
  <2>1. x = 0 /\ u = 0
    <3>1. l.size - Len(LeftOver(t)) = 0
      BY <1>6, <1>10
    <3>2. (x + len) - (len - u) = 0
      BY <1>7, <1>8, <3>1
    <3> QED BY <3>2
  <2>2. ~ FromCross(t)
    <3>1. CASE FromCross(t)
      <4>1. LeftOver(t) = << >>
        BY <1>6, <1>10, <3>1
      <4>2. len - u = 0
        BY <1>8, <4>1
      <4> QED BY <1>7, <2>1, <3>1, <4>2
    <3> QED BY <3>1
  <2>3. CASE len = 0
    BY <1>7, <2>1, <2>2, <2>3
  <2>4. CASE len # 0
    <3>1. p.state # "CONTINUE"
      BY <1>1, <1>2, <1>7, <2>1, <2>4 DEF Found
    <3>2. th[t].l.inPreSize + Parsed(t).used = 0
      BY <1>1, <1>7, <2>1
    <3>3. p.state = "STOP"
      BY <1>1, <1>4, <3>1, <3>2 DEF Said
    <3>4. a + 0 = a
      BY <1>2 DEF Given, Reader, Looking
    <3>5. FullAt(a) \/ Drained(a)
      BY <1>1, <1>4, <3>2, <3>3, <3>4 DEF Said
    <3>6. ~ Drained(a)
      <4>1. rd.pos = a + x + len
        BY <1>1, <1>2, <1>7 DEF Given
      <4>2. a \in Nat
        BY DEF Looking
      <4> QED BY <1>7, <2>1, <2>4, <4>1, <4>2 DEF Drained
    <3>7. AtLimit \/ Drained(a)
      BY <1>2, <1>5, <3>5, <3>6, EmptyAtLimit
    <3> QED BY <3>6, <3>7
  <2> QED BY <2>3, <2>4
<1>11. CASE p.state = "NEW" /\ rd'.cross = LeftOver(t)
  <2>1. u < len
    BY <1>1, <1>2, <1>7, <1>11 DEF Found
  <2>2. LeftOver(t) = << >>
    BY <1>6, <1>11
  <2>3. len - u = 0
    BY <1>8, <2>2
  <2> QED BY <1>7, <2>1, <2>3
<1> QED BY <1>1, <1>3, <1>9, <1>10, <1>11 DEF Stored

(* Nor do the other steps, but a writer's, leave nothing of something.     *)
LEMMA StepBare ==
  ASSUME Shape, Control, NEW w \in 0 .. MaxThreads, NEW n \in 0 .. MaxThreads, Round(w, n),
         NEW B, Placed(n, B), NEW t \in Threads, Thread(t), ~ WaitRead(t), ~ Write(t),
         InSize(rd.outParsed), Worded(t), Right(t), Bare
  PROVE  Bare'
<1>1. Others(t)
  BY ThreadOthers
<1>2. UNCHANGED <<wr, out, input>>
  <2>1. wr' = wr /\ out' = out
    BY DEF Thread, ReadNoLink, ReadCross, ReadLink, ParseOverflow, ParseContinue,
           ParseEnd, ParseNew, PreCode, StoreParsed, StartNext, StartNone, CodeFails,
           CodeLink, CodeUnprepared
  <2> QED BY <1>1, <2>1 DEF Others
<1>3. /\ ThreadOK(th[t]) /\ LocalOK(th[t].l) /\ t \in DOMAIN th /\ t \in DOMAIN pc /\ RdOK
      /\ IsRd(rd)
  BY DEF Control, Good, ThreadOK, Shape
<1>4. ASSUME rd'.pos = rd.pos, rd'.cross = rd.cross, th'[t].l.size = th[t].l.size, Working(t)'
      PROVE  Bare'
  <2>1. ASSUME Empty' PROVE rd.cross = << >> /\ th[t].l.size = 0
    <3>1. (th[t].l.size = 0)' /\ (rd.cross = << >>)'
      BY <1>4, <2>1 DEF Empty
    <3> QED BY <1>4, <3>1
  <2>2. Empty' => Empty
    BY <1>1, <1>2, <2>1, EmptyBefore
  <2> QED BY <1>2, <1>4, <2>2, BareStays
<1>5. CASE InBlock(t)
  <2>1. PICK a : a = B[bi(t)] /\ Looking(t, a)
    BY <1>5, LookingIs
  <2>2. \/ ReadNoLink(t) \/ ReadCross(t) \/ ReadLink(t) \/ ParseOverflow(t) \/ ParseContinue(t)
        \/ ParseEnd(t) \/ ParseNew(t)
    BY <1>5 DEF Thread, InBlock, PreCode, StartNext, StartNone, CodeFails, CodeLink,
                CodeUnprepared
  <2>3. CASE ReadNoLink(t)
    <3>1. th'[t].l.size = th[t].l.size /\ rd' = rd /\ pc'[t] = "parsed"
      <4>1. th' = [th EXCEPT ![t].l = [th[t].l EXCEPT !.finish = TRUE, !.isAllocError = TRUE]]
            /\ pc' = [pc EXCEPT ![t] = "parsed"] /\ rd' = rd
        BY <2>3 DEF ReadNoLink, SetLocals
      <4> QED BY <1>3, <4>1 DEF ThreadOK, LocalOK
    <3>2. Working(t)'
      BY <3>1 DEF Working, Reading
    <3> QED BY <1>4, <3>1, <3>2
  <2>4. CASE ReadCross(t)
    <3>1. rd'.cross # << >>
      BY <2>4 DEF ReadCross, FromCross
    <3>2. ~ Empty'
      BY <3>1 DEF Empty
    <3> QED BY <3>2 DEF Bare
  <2>5. CASE ReadLink(t)
    <3>1. PICK k \in Nat : th'[t].l.size = th[t].l.size + k /\ rd'.pos = rd.pos + k
      BY <2>5, ReadLinkStores
    <3>2. rd'.cross = rd.cross /\ pc'[t] \in {"parse", "parsed"}
      BY <2>5, ReadLinkStores
    <3>3. Working(t)'
      BY <3>2 DEF Working, Reading
    <3>4. th[t].l.size \in Nat /\ rd.pos \in Nat
      <4>1. AtRead(t, a) /\ pc[t] = "read"
        BY <2>1, <2>5 DEF ReadLink, Looking, Reader
      <4>2. th[t].l.links # 0 => th[t].l.size = th[t].l.inPreSize
        BY <4>1 DEF AtRead
      <4>3. th[t].l.links = 0 => th[t].l.size = 0
        BY <4>1 DEF AtRead
      <4> QED BY <1>3, <4>2, <4>3 DEF LocalOK, RdOK
    <3>5. CASE k = 0
      <4>1. rd'.pos = rd.pos /\ th'[t].l.size = th[t].l.size
        BY <3>1, <3>4, <3>5
      <4> QED BY <1>4, <3>2, <3>3, <4>1
    <3>6. CASE k # 0
      <4>1. th'[t].l.size # 0
        BY <3>1, <3>4, <3>6
      <4>2. ~ Empty'
        BY <3>3, <4>1 DEF Empty
      <4> QED BY <4>2 DEF Bare
    <3> QED BY <3>5, <3>6
  <2>6. CASE ParseOverflow(t) \/ ParseContinue(t) \/ ParseEnd(t) \/ ParseNew(t)
    BY <1>1, <2>1, <2>6, ParseBare
  <2> QED BY <2>2, <2>3, <2>4, <2>5, <2>6
<1>6. CASE ~ InBlock(t)
  <2>1. \/ PreCode(t) \/ StartNext(t) \/ StartNone(t)
        \/ CodeFails(t) \/ CodeLink(t) \/ CodeUnprepared(t)
    BY <1>6 DEF Thread, InBlock, ReadNoLink, ReadCross, ReadLink, ParseOverflow, ParseContinue,
                ParseEnd, ParseNew
  <2>2. CASE PreCode(t)
    <3>1. pc'[t] = "start_next" /\ rd' = rd
      BY <1>3, <2>2 DEF PreCode
    <3> DEFINE l == th[t].l
               looks == pc[t] = "parsed" /\ l.res = OK
               res == IF looks THEN sync.res ELSE l.res
               was == IF looks THEN InterruptedBefore(l.blockIndex) ELSE l.wasInterrupted
               called == res = OK /\ l.needCode /\ ~ was
               mm(code) == [l EXCEPT !.res = res, !.wasInterrupted = was, !.codeRes = code,
                                     !.prepared = called /\ code = OK,
                                     !.coderRes = IF code = "DATA" THEN code ELSE @,
                                     !.needCode = @ /\ code = OK,
                                     !.finish = @ \/ code # OK \/ res # OK \/ was]
    <3>2. PICK code : SetLocals(t, mm(code))
      BY <2>2 DEF PreCode
    <3>3. th'[t].l.size = th[t].l.size
      <4>1. mm(code).size = l.size
        BY <1>3 DEF LocalOK
      <4> HIDE DEF mm
      <4> QED BY <1>3, <3>2, <4>1 DEF SetLocals, ThreadOK
    <3> HIDE DEF mm
    <3>4. Working(t)'
      BY <3>1 DEF Working, Reading
    <3> QED BY <1>4, <3>1, <3>3, <3>4
  <2>3. CASE StartNext(t) \/ StartNone(t)
    <3>1. /\ th'[t].l.size = th[t].l.size
          /\ pc'[t] = AfterStart(th[t].l) \/ pc'[t] = "wait_write"
      BY <2>3, StartStores
    <3>2. rd'.pos = rd.pos /\ rd'.cross = rd.cross
      <4>1. \/ rd' = rd \/ rd' = [rd EXCEPT !.started = @ + 1] \/ rd' = [rd EXCEPT !.limit = rd.started]
        BY <2>3 DEF StartNext, StartNone
      <4> QED BY <1>3, <4>1 DEF RdOK
    <3>3. Working(t)'
      BY <3>1 DEF Working, Reading, AfterStart
    <3> QED BY <1>4, <3>1, <3>2, <3>3
  <2>4. CASE CodeFails(t) \/ CodeLink(t) \/ CodeUnprepared(t)
    <3>1. Block(th'[t].l, th[t].l) /\ pc'[t] \in {"code", "wait_write"} /\ rd' = rd
      BY <2>4, CodeStores
    <3>2. th'[t].l.size = th[t].l.size /\ Working(t)'
      BY <3>1 DEF Block, Working, Reading
    <3> QED BY <1>4, <3>1, <3>2
  <2> QED BY <2>1, <2>2, <2>3, <2>4
<1> QED BY <1>5, <1>6

(* A thread that takes the next block holds nothing.                       *)
LEMMA WaitReadBare ==
  ASSUME Shape, RdOK, NEW t \in Threads, WaitRead(t), Bare
  PROVE  Bare'
<1>1. Others(t) /\ ~ Working(t)
  BY ThreadOthers DEF Thread, WaitRead, Working, Reading
<1>2. UNCHANGED <<wr, out, input>> /\ rd'.pos = rd.pos /\ rd'.cross = rd.cross
  BY WaitReadRight DEF WaitRead, caller
<1>3. Empty' => rd.cross = << >>
  BY <1>2 DEF Empty
<1>4. Empty' => Empty
  BY <1>1, <1>2, <1>3, EmptyBefore
<1> QED BY <1>2, <1>4, BareStays

-----------------------------------------------------------------------------
(* Where the written blocks end and no block holds anything, what was read *)
(* was decoded.                                                            *)
LEMMA BareInPlace ==
  ASSUME Shape, Control, NEW w \in 0 .. MaxThreads, NEW n \in 0 .. MaxThreads, Round(w, n),
         NEW B, Placed(n, B), NEW a, a = B[rd.blockIndex - n], a = wr.inProcessed, TextAt(a)
  PROVE  Bare
<1>1. SUFFICES ASSUME Empty PROVE TextAt(rd.pos) \/ AtLimit
  BY DEF Bare
<1>2. /\ n \in Nat /\ rd.blockIndex \in Nat /\ w \in Threads
      /\ n > 0 => Working(w) /\ bi(w) = rd.blockIndex - n
      /\ \A u \in Threads : Working(u) => n > 0
  BY InRound
<1>3. /\ B \in [Nat -> Nat] /\ a \in Nat /\ rd.cross = << >> /\ RdOK
      /\ \A t \in Threads : Working(t) => th[t].l.size = 0
  BY <1>1 DEF Placed, Places, Empty, TextAt, Control
<1>4. Len(rd.cross) = 0 /\ a + 0 = a
  BY <1>3
<1>5. SUFFICES rd.pos = a \/ AtLimit
  OBVIOUS
<1>6. ASSUME Front(a) PROVE rd.pos = a
  BY <1>4, <1>6 DEF Front
<1>7. CASE n = 0
  <2>1. \A t \in Threads : ~ Working(t) /\ ~ InBlock(t)
    BY <1>2, <1>7 DEF Working, Reading, InBlock
  <2>2. NextPlace(B[rd.blockIndex]) /\ B[rd.blockIndex] = a
    <3>1. rd.blockIndex - n = rd.blockIndex
      BY <1>2, <1>7
    <3>2. NextPlace(B[rd.blockIndex])
      BY <2>1 DEF Placed
    <3> QED BY <3>1, <3>2
  <2>3. Front(a)
    BY <2>1, <2>2 DEF NextPlace, IsLast
  <2> QED BY <1>6, <2>3
<1>8. CASE n > 0
  <2>1. Working(w) /\ B[bi(w)] = a /\ HasPlace(w, B) /\ th[w].l.size = 0
    BY <1>2, <1>3, <1>8 DEF Placed
  <2>2. CASE InBlock(w)
    <3>1. Reader(w, a)
      BY <2>1, <2>2 DEF HasPlace
    <3>2. AtRead(w, a) => Front(a) \/ rd.pos = a
      BY <1>4, <2>1 DEF AtRead
    <3>3. AtCross(w, a) => Front(a)
      BY DEF AtCross
    <3>4. AtLink(w, a) => rd.pos = a
      BY <1>4, <2>1 DEF AtLink
    <3> QED BY <1>6, <2>2, <3>1, <3>2, <3>3, <3>4 DEF Reader, InBlock
  <2>3. CASE ~ InBlock(w)
    <3>1. HasBlock(w, a, B[bi(w) + 1])
      BY <2>1, <2>3 DEF HasPlace
    <3>2. Reading(w) \/ th[w].l.finish
      BY <2>1, <3>1 DEF HasBlock, Reading
    <3>3. n = 1
      <4>1. w \in 0 .. rd.started - 1 /\ From(rd.started, w, w) = 0 /\ rd.started \in 1 .. MaxThreads
        BY DEF Round, From, Shape, IsRd
      <4>2. CASE Reading(w)
        <5>1. From(rd.started, w, w) = n - 1
          BY <1>2, <4>2, ReaderIsLast
        <5> QED BY <1>2, <4>1, <5>1
      <4>3. CASE th[w].l.finish
        <5>1. ~ Passes(w)
          BY <4>3 DEF Passes
        <5>2. ~ Pending(w, n)
          BY <1>2, <2>1, <5>1 DEF Pending
        <5>3. From(rd.started, w, w) = n - 1
          BY <1>2, <2>1, <5>1, <5>2 DEF Round, Current, AtLast
        <5> QED BY <1>2, <4>1, <5>3
      <4> QED BY <3>2, <4>2, <4>3
    <3>4. /\ IsLast(w) /\ rd.blockIndex = bi(w) + 1
          /\ \A u \in Threads : Working(u) => u = w
      BY <1>2, <2>1, <3>3, LastAlone
    <3>5. \A u \in Threads : ~ InBlock(u)
      BY <2>3, <3>4 DEF InBlock, Working, Reading
    <3>6. B[bi(w) + 1] = a
      BY <1>4, <2>1, <3>1 DEF HasBlock, Sized
    <3>7. NextPlace(a)
      BY <3>4, <3>5, <3>6 DEF Placed
    <3>8. CASE Dropped(a)
      <4>1. ~ (a > 0 /\ input.bytes[a] \in {"end", "err"})
        <5>1. ASSUME a > 0 PROVE input.bytes[a] \in {"new", "data"}
          <6>1. Plain(0, a)
            BY DEF TextAt, TextTo
          <6>2. 0 < a /\ a <= a /\ a \in Int
            BY <1>3, <5>1
          <6> QED BY <6>1, <6>2 DEF Plain
        <5> QED BY <5>1
      <4>2. input.outSize # NoSize /\ ~ input.finishMode /\ Outputs(a) = input.outSize
        BY <3>8, <4>1 DEF Dropped, Terminal
      <4>3. Outputs(a) = Len(out.bytes)
        <5>1. Outputs(a) = Outputs(0) + Len(out.bytes) /\ Len(out.bytes) \in Nat /\ Outputs(0) = 0
          BY OutputsNext DEF TextAt, TextTo
        <5> QED BY <5>1
      <4>4. input.outSize <= Len(out.bytes)
        <5>1. Outputs(a) \in Nat
          BY <1>3, OutputsNext
        <5> QED BY <4>2, <4>3, <5>1
      <4> QED BY <4>2, <4>4 DEF AtLimit
    <3> QED BY <1>6, <3>7, <3>8 DEF NextPlace
  <2> QED BY <2>2, <2>3
<1> QED BY <1>2, <1>7, <1>8

(* ... also after a step.                                                  *)
LEMMA BareInPlacePrimed ==
  ASSUME NEW w \in 0 .. MaxThreads, NEW n \in 0 .. MaxThreads, NEW B, NEW a
  PROVE  Shape' /\ Control' /\ Round(w, n)' /\ Placed(n, B)' /\ (a = B[rd.blockIndex - n])'
           /\ (a = wr.inProcessed)' /\ TextAt(a)' => Bare'
<1>1. Shape /\ Control /\ Round(w, n) /\ Placed(n, B) /\ a = B[rd.blockIndex - n]
        /\ a = wr.inProcessed /\ TextAt(a) => Bare
  BY BareInPlace
<1> QED BY <1>1, PTL

(* The text of the stream is the text of its bytes.                        *)
LEMMA TextAtKept ==
  ASSUME input' = input, out'.bytes = out.bytes, NEW x, TextAt(x)
  PROVE  TextAt(x)'
BY TextStays DEF TextAt

(* The same bytes were decoded, whatever comes after them that decodes to  *)
(* nothing.                                                                *)
LEMMA TextExtends ==
  ASSUME InputOK, NEW b, NEW c \in Nat, NEW z \in Nat, TextTo(b, 0, c), c <= z,
         z <= Len(input.bytes), Outputs(c) = Outputs(z),
         \A k \in Nat : c < k /\ k <= z => input.bytes[k] \notin {"err", "end"}
  PROVE  TextTo(b, 0, z)
<1>1. \A k \in Nat : c < k /\ k <= z => input.bytes[k] \in {"new", "data"}
  <2>1. SUFFICES ASSUME NEW k \in Nat, c < k, k <= z PROVE input.bytes[k] \in {"new", "data"}
    OBVIOUS
  <2>2. input.bytes[k] \notin {"data", "bad"}
    BY <2>1, OutputsSame
  <2>3. input.bytes[k] \in Kinds
    <3>1. PICK s : s = input.bytes
      OBVIOUS
    <3>2. s \in Seq(Kinds) /\ k \in 1 .. Len(s)
      BY <2>1, <3>1 DEF InputOK, Streams
    <3> QED BY <3>1, <3>2
  <2> QED BY <2>1, <2>2, <2>3 DEF Kinds
<1>2. Plain(0, z)
  <2>1. SUFFICES ASSUME NEW k \in Int, 0 < k, k <= z PROVE input.bytes[k] \in {"new", "data"}
    BY DEF Plain
  <2>2. CASE k <= c
    BY <2>1, <2>2 DEF TextTo, Plain
  <2>3. CASE c < k
    BY <1>1, <2>1, <2>3
  <2> QED BY <2>2, <2>3
<1> QED BY <1>2 DEF TextTo

(* The last block, which is not complete, was written: all that was read   *)
(* is decoded.                                                             *)
LEMMA WroteDry ==
  ASSUME Shape, Control, Blamed, Told, mainPc = "run",
         NEW w \in 0 .. MaxThreads, NEW n \in 0 .. MaxThreads, Round(w, n),
         NEW B, Placed(n, B), NEW t \in Threads, Write(t), Continues', WroteIt(t), n = 1,
         th[t].l.state = "CONTINUE", Worded(t), Clean(t), Right(t),
         TextAt(wr.inProcessed), Bare
  PROVE  Bare'
<1>1. PICK l, x : l = th[t].l /\ x = wr.inProcessed
  OBVIOUS
<1>2. /\ t = w /\ bi(t) = rd.blockIndex - n /\ Working(t) /\ pc[t] = "wait_write"
      /\ ~ InBlock(t) /\ ~ l.wasInterrupted /\ HasBlock(t, B[bi(t)], B[bi(t) + 1])
      /\ LocalOK(l) /\ rd' = rd /\ RdOK /\ input' = input
  <2>1. rd' = rd /\ input' = input
    BY DEF Write, caller
  <2>2. /\ t = w /\ bi(t) = rd.blockIndex - n /\ Working(t) /\ pc[t] = "wait_write"
        /\ ~ InBlock(t) /\ ~ th[t].l.wasInterrupted /\ HasBlock(t, B[bi(t)], B[bi(t) + 1])
        /\ LocalOK(th[t].l) /\ RdOK
    BY WriterHas
  <2> QED BY <1>1, <2>1, <2>2
<1>3. IsLast(t) /\ rd.blockIndex = bi(t) + 1 /\ \A u \in Threads : Working(u) => u = t
  BY <1>2, LastAlone
<1>4. PICK a, b : a = B[bi(t)] /\ b = B[bi(t) + 1]
  OBVIOUS
<1>5. HasBlock(t, a, b) /\ Written(a) /\ a \in Nat /\ NextPlace(b)
  <2>1. \A u \in Threads : ~ InBlock(u)
    BY <1>2, <1>3 DEF InBlock, Working, Reading
  <2>2. bi(t) \in Nat /\ B \in [Nat -> Nat]
    BY <1>2, InRound DEF Placed, Places
  <2>3. NextPlace(b) /\ Written(a)
    BY <1>2, <1>3, <1>4, <2>1 DEF Placed
  <2> QED BY <1>2, <1>4, <2>2, <2>3
<1>6. /\ ~ LeftToOther(l) /\ l.codeRes = OK /\ l.needCode /\ l.needWrite
      /\ out'.bytes = out.bytes \o l.outBuf /\ ~ Refused(l) /\ l.state = "CONTINUE"
  BY <1>1 DEF WroteIt, Refused, LeftToOther, NoMemory
<1>7. Drained(b)
  BY <1>1, <1>3, <1>5, <1>6 DEF NextPlace, RunsDry
<1>8. \/ l.inPreSize = 0 /\ l.outBuf = << >> /\ l.inCodeSize = 0
      \/ /\ l.size = l.inPreSize /\ l.inPreSize > 0
         /\ \E c \in 0 .. l.inPreSize :
              /\ Coming(t, x, c)
              /\ TextTo(out.bytes \o l.outBuf, 0, x + c)
              /\ InSize(Outputs(x + c))
  <2>1. canWrite[t]
    BY DEF Write
  <2> QED BY <1>1, <1>2, <1>6, <2>1, BlockAdds
<1>9. CASE l.inPreSize = 0
  <2>1. l.size = 0
    BY <1>1, <1>2, <1>6, <1>9 DEF Right, Hollow
  <2>2. Empty
    BY <1>1, <1>3, <1>7, <2>1 DEF Empty, Drained, Placed, Unbroken
  <2>3. TextAt(rd.pos) \/ AtLimit
    BY <2>2 DEF Bare
  <2>4. out'.bytes = out.bytes
    <3>1. PICK e : e = l.outBuf
      OBVIOUS
    <3>2. e = << >>
      BY <1>8, <1>9, <3>1
    <3>3. out.bytes \o e = out.bytes
      BY <3>2, AddsNothing
    <3> QED BY <1>6, <3>1, <3>3
  <2>5. CASE AtLimit
    BY <1>2, <2>4, <2>5 DEF AtLimit, Bare
  <2>6. CASE TextAt(rd.pos)
    <3>1. PICK y : y = rd.pos
      OBVIOUS
    <3>2. TextAt(y)'
      BY <1>2, <2>4, <2>6, <3>1, TextAtKept
    <3> QED BY <1>2, <3>1, <3>2 DEF Bare
  <2> QED BY <2>3, <2>5, <2>6
<1>10. CASE l.inPreSize # 0
  <2>1. PICK m \in Nat : m = l.inPreSize /\ m > 0
    BY <1>2, <1>10 DEF LocalOK
  <2>2. PICK c \in 0 .. m :
              /\ l.size = m /\ Coming(t, x, c)
              /\ TextTo(out.bytes \o l.outBuf, 0, x + c)
              /\ InSize(Outputs(x + c))
    BY <1>8, <1>10, <2>1
  <2>3. rd.pos = a + m
    BY <1>1, <1>5, <1>7, <2>2 DEF HasBlock, Sized, Drained
  <2>4. a = x /\ Len(out.bytes) = Outputs(a)
    BY <1>1, <1>5, <2>1, <2>3 DEF Written, Drained
  <2>5. Start(t) = a
    BY <1>1, <1>2, <1>5, <2>1, StartIs
  <2>6. Shaped(l, a) /\ Judged(l, a, TRUE) /\ Fits(t, a)
    <3>1. FairText(t, a) /\ BlockText(t, a)
      BY <1>1, <2>1, <2>5 DEF Right, Fair, Worded
    <3> QED BY <1>1, <1>2, <1>6, <3>1 DEF FairText, BlockText
  <2>7. Len(l.outBuf) = l.outPreSize /\ l.outPreSize = Outputs(a + m) - Outputs(a)
    BY <1>2, <1>6, <2>1, <2>6 DEF Judged, Shaped
  <2>8. PICK y, z : y = a + c /\ z = a + m
    OBVIOUS
  <2>9. y \in Nat /\ z \in Nat /\ y <= z
    BY <1>5, <2>1, <2>2, <2>8
  <2>10. Outputs(y) = Outputs(z)
    <3>1. IsSeq(out.bytes) /\ IsSeq(l.outBuf)
      BY <1>1, WriterHas DEF Told
    <3>2. /\ Len(out.bytes \o l.outBuf) = Len(out.bytes) + Len(l.outBuf)
          /\ Len(out.bytes) \in Nat /\ Len(l.outBuf) \in Nat
      BY <3>1, SeqItems
    <3>3. Outputs(y) = Outputs(0) + Len(out.bytes \o l.outBuf) /\ Outputs(0) = 0
      BY <2>2, <2>4, <2>8, OutputsNext DEF TextTo
    <3>4. PICK p, q, r : p = Outputs(a) /\ q = Outputs(z) /\ r = Outputs(y)
      OBVIOUS
    <3>5. p \in Nat /\ q \in Nat /\ r \in Nat
      BY <1>5, <2>9, <3>4, OutputsNext
    <3>6. r = p + (q - p)
      BY <2>4, <2>7, <2>8, <3>2, <3>3, <3>4
    <3> QED BY <3>4, <3>5, <3>6
  <2>11. \A k \in Nat : y < k /\ k <= z => input.bytes[k] \notin {"err", "end"}
    <3>1. SUFFICES ASSUME NEW k \in Nat, y < k, k <= z PROVE input.bytes[k] \notin {"err", "end"}
      OBVIOUS
    <3>2. PICK j \in 1 .. m : k = a + j
      <4>1. k - a \in 1 .. m /\ k = a + (k - a)
        BY <1>5, <2>1, <2>2, <2>8, <3>1
      <4> QED BY <4>1
    <3>3. j \in 1 .. l.inPreSize
      BY <2>1
    <3> QED BY <1>1, <1>6, <2>6, <3>2, <3>3 DEF Shaped, Fits
  <2>12. PICK o : o = out.bytes \o l.outBuf
    OBVIOUS
  <2>13. TextTo(o, 0, z)
    <3>1. z <= Len(input.bytes)
      BY <1>2, <2>3, <2>8 DEF RdOK
    <3>2. TextTo(o, 0, y) /\ InputOK
      BY <2>2, <2>4, <2>8, <2>12 DEF Control
    <3> QED BY <2>9, <2>10, <2>11, <3>1, <3>2, TextExtends
  <2>14. InSize(Outputs(z))
    BY <2>2, <2>4, <2>8, <2>10
  <2>15. TextAt(z)'
    <3>1. TextTo(o, 0, z)' /\ InSize(Outputs(z))'
      BY <1>2, <2>13, <2>14, TextStays
    <3> QED BY <1>6, <2>9, <2>12, <3>1 DEF TextAt
  <2> QED BY <1>2, <2>3, <2>8, <2>15 DEF Bare
<1> QED BY <1>9, <1>10

(* A block was left to the other decoder: nothing is left if nothing was.  *)
LEMMA LeftBare ==
  ASSUME Shape, Control, NEW n, NEW B, Placed(n, B), NEW t \in Threads,
         LeftIt(t), \A u \in Threads : Working(u) => u = t,
         rd' = rd, input' = input, Bare
  PROVE  Bare'
<1>1. out' = out /\ wr'.numFilled = (IF th[t].l.size # 0 THEN 1 ELSE 0)
  BY DEF LeftIt
<1>2. ASSUME Empty' PROVE Empty
  <2>1. wr'.numFilled = 0 /\ rd.cross = << >>
    BY <1>2 DEF Empty
  <2>2. th[t].l.size = 0
    BY <1>1, <2>1
  <2>3. wr.numFilled = 0
    BY DEF Placed, Unbroken
  <2> QED BY <2>1, <2>2, <2>3 DEF Empty
<1>3. Empty' => Empty
  BY <1>2
<1> QED BY <1>1, <1>3, BareStays

(* The block is written, and another one is there or will be read.         *)
LEMMA WroteBare ==
  ASSUME Inv, Inv', NEW w \in 0 .. MaxThreads, NEW n \in 0 .. MaxThreads, Round(w, n),
         NEW B, Placed(n, B), NEW t \in Threads, Write(t), Continues', mainPc = "run",
         WroteIt(t), ~ th[t].l.finish, TextAt(wr.inProcessed), TextAt(wr.inProcessed)'
  PROVE  Bare'
<1>1. Shape /\ Control /\ Blamed /\ Shape' /\ Control' /\ rd' = rd
  BY DEF Inv, Write
<1>2. PICK l, x : l = th[t].l /\ x = wr.inProcessed
  OBVIOUS
<1>3. /\ bi(t) = rd.blockIndex - n /\ Working(t) /\ pc[t] = "wait_write" /\ n > 0
      /\ HasBlock(t, B[bi(t)], B[bi(t) + 1]) /\ LocalOK(th[t].l) /\ RdOK /\ Flags(t)
  BY <1>1, WriterHas
<1>4. PICK v \in 0 .. MaxThreads : Round(v, n - 1)'
  <2>1. PICK cont : HandOn(t, cont)
    BY DEF WroteIt
  <2> QED BY <1>1, <2>1, WriteKeeps
<1>5. Placed(n - 1, B)'
  BY <1>1, WritePlaced
<1>6. PICK m, a, b : m = n - 1 /\ a = B[bi(t)] /\ b = B[bi(t) + 1]
  OBVIOUS
<1>7. /\ m \in 0 .. MaxThreads /\ rd.blockIndex - m = bi(t) + 1 /\ n \in Nat
      /\ bi(t) \in Nat /\ B \in [Nat -> Nat] /\ rd.blockIndex \in Nat
  <2>1. bi(t) \in Nat /\ rd.blockIndex \in Nat /\ n \in Nat
    BY <1>1, <1>3, InRound
  <2>2. B \in [Nat -> Nat]
    BY DEF Placed, Places
  <2>3. n - 1 \in 0 .. MaxThreads
    BY <1>3, MtDecAssumption
  <2> QED BY <1>3, <1>6, <2>1, <2>2, <2>3
<1>8. /\ l.state = "NEW" /\ l.codeRes = OK /\ l.size > 0 /\ l.inPreSize = l.size
      /\ b = a + l.size /\ b <= rd.pos /\ a \in Nat /\ l.size \in Int /\ b \in Nat
  <2>1. a \in Nat /\ b \in Nat
    BY <1>6, <1>7
  <2>2. /\ ~ LeftToOther(l) /\ l.codeRes = OK /\ ~ l.finish /\ l.size \in Int
    BY <1>2, <1>3 DEF WroteIt, LocalOK
  <2>3. l.state = "NEW"
    BY <1>2, <1>3, <2>2 DEF Flags
  <2>4. HasBlock(t, a, b)
    BY <1>3, <1>6
  <2>5. l.size > 0 /\ b <= rd.pos
    BY <1>2, <1>3, <2>2, <2>4 DEF HasBlock
  <2>6. b = a + l.size /\ l.inPreSize = l.size
    BY <1>2, <2>2, <2>3, <2>4 DEF HasBlock, Sized
  <2> QED BY <2>1, <2>2, <2>3, <2>5, <2>6
<1>9. wr'.inProcessed = x + l.inCodeSize /\ l.inCodeSize = l.size
  BY <1>2, <1>3, <1>8 DEF WroteIt, HasBlock, Sized, BlockFinished
<1>10. a = x
  <2>1. Written(a)
    BY <1>3, <1>6 DEF Placed
  <2>2. ~ Drained(a)
    BY <1>3, <1>8 DEF Drained, RdOK
  <2> QED BY <1>2, <2>1, <2>2 DEF Written
<1>11. (b = wr.inProcessed)' /\ (b = B[rd.blockIndex - m])'
  BY <1>1, <1>6, <1>7, <1>8, <1>9, <1>10
<1>12. TextAt(b)' /\ Round(v, m)' /\ Placed(m, B)'
  BY <1>4, <1>5, <1>6, <1>11
<1> QED BY <1>1, <1>7, <1>11, <1>12, BareInPlacePrimed

(* After a writer's step, too, nothing is left only if all was decoded, or *)
(* the call is over.                                                       *)
LEMMA WriteBare ==
  ASSUME Inv, Inv', RunKept, RunText, Told, NEW t \in Threads, Write(t), Continues',
         Right(t), Bare
  PROVE  Bare' \/ (Ending /\ ~ NeedContinue)'
<1>1. /\ Shape /\ Tokens /\ Control /\ Blamed /\ pc[t] = "wait_write" /\ Continues
      /\ rd' = rd /\ input' = input
  BY ContinuesBefore DEF Inv, Thread, Write, caller
<1>2. /\ mainPc = "run" /\ TextAt(wr.inProcessed)
      /\ \E w, n \in 0 .. MaxThreads : InPlace(w, n)
  BY <1>1, WriterIn
<1>3. PICK w, n \in 0 .. MaxThreads : InPlace(w, n)
  BY <1>2
<1>4. PICK B : Round(w, n) /\ Placed(n, B)
  BY <1>3 DEF InPlace
<1>5. /\ Working(t) /\ LocalOK(th[t].l) /\ Flags(t) /\ HasBlock(t, B[bi(t)], B[bi(t) + 1])
      /\ ~ th[t].l.wasInterrupted
      /\ WroteIt(t) \/ LeftIt(t)
  BY <1>1, <1>2, <1>4, WriterHas
<1>6. th[t].l.finish => n = 1 /\ \A u \in Threads : Working(u) => u = t
  <2>1. PICK cont : HandOn(t, cont)
    BY <1>5 DEF WroteIt, LeftIt
  <2>2. th[t].l.finish => n = 1
    BY <1>1, <1>2, <1>4, <2>1, WriteKeeps
  <2> QED BY <1>1, <1>4, <1>5, <2>2, LastAlone
<1>7. CASE LeftIt(t)
  <2>1. \A u \in Threads : Working(u) => u = t
    BY <1>6, <1>7 DEF LeftIt
  <2> QED BY <1>1, <1>4, <1>7, <2>1, LeftBare
<1>8. CASE WroteIt(t) /\ ~ th[t].l.finish
  <2>1. (TextAt(wr.inProcessed) \/ (Ending /\ ~ NeedContinue))'
    BY WriteWorded
  <2>2. CASE TextAt(wr.inProcessed)'
    BY <1>2, <1>4, <1>8, <2>2, WroteBare
  <2> QED BY <2>1, <2>2
<1>9. CASE WroteIt(t) /\ th[t].l.finish
  <2>1. PICK cont : HandOn(t, cont) /\ (cont <=> th[t].l.state \in {"CONTINUE", "NEW"})
    BY <1>9 DEF WroteIt
  <2>2. CASE cont
    <3>1. th[t].l.state # "NEW"
      BY <1>5, <1>9 DEF HasBlock, Sized, WroteIt
    <3>2. Worded(t) /\ Clean(t)
      BY <1>1, <1>2, <1>5 DEF RunText, Untouched
    <3>3. th[t].l.state = "CONTINUE"
      BY <2>1, <2>2, <3>1
    <3> QED BY <1>1, <1>2, <1>4, <1>6, <1>9, <3>2, <3>3, WroteDry
  <2>3. CASE ~ cont
    <3>1. Ending'
      BY <1>1, <1>2, <1>4, <1>9, <2>1, <2>3, WriteKeeps
    <3>2. ~ NeedContinue'
      BY <1>9 DEF WroteIt
    <3> QED BY <3>1, <3>2
  <2> QED BY <2>2, <2>3
<1> QED BY <1>5, <1>7, <1>8, <1>9

-----------------------------------------------------------------------------
(* A block that is damaged has no end of the input after its begin.        *)
LEMMA NoEndInDamage ==
  ASSUME NEW l, NEW a \in Nat, NEW m \in Nat, l.inPreSize = m, Shaped(l, a), Damaged(l, a),
         \A k \in 1 .. m : input.bytes[a + k] = "end" => k = m,
         NEW e, EndsAt(e)
  PROVE  e <= a
<1>1. PICK k \in 1 .. m : input.bytes[a + k] \in {"bad", "err"}
  BY DEF Damaged
<1>2. PICK x : x = a + k
  OBVIOUS
<1>3. e \in Nat /\ Plain(0, e) /\ x \in Nat /\ 0 < x /\ a < x
  BY <1>1, <1>2 DEF EndsAt, UpTo
<1>4. e < x
  <2>1. SUFFICES ASSUME x <= e PROVE FALSE
    BY <1>3
  <2>2. input.bytes[x] \in {"new", "data"}
    BY <1>3, <2>1 DEF Plain
  <2> QED BY <1>1, <1>2, <2>2
<1>5. SUFFICES ASSUME a < e PROVE FALSE
  BY <1>3
<1>6. CASE e < Len(input.bytes) /\ input.bytes[e + 1] = "end"
  <2>1. PICK j : j = e + 1 - a
    OBVIOUS
  <2>2. j \in 1 .. m /\ a + j = e + 1 /\ j <= k
    BY <1>1, <1>2, <1>3, <1>4, <1>5, <2>1
  <2>3. j = m
    BY <1>6, <2>2
  <2>4. j = k
    BY <1>1, <2>2, <2>3
  <2> QED BY <1>1, <1>6, <2>2, <2>4
<1>7. CASE FullAt(e)
  <2>1. Before(a + k)
    BY <1>1 DEF Shaped
  <2>2. Outputs(x - 1) < Outputs(e)
    BY <1>2, <1>7, <2>1 DEF Before, FullAt
  <2>3. x - 1 \in Nat /\ e <= x - 1
    BY <1>3, <1>4
  <2>4. Outputs(e) <= Outputs(x - 1) /\ Outputs(e) \in Nat /\ Outputs(x - 1) \in Nat
    BY <1>3, <2>3, OutputsGrow
  <2> QED BY <2>2, <2>4
<1> QED BY <1>6, <1>7 DEF EndsAt

(* Nor has the input one after a block that is the last and was decoded.   *)
LEMMA NoEndAfterLast ==
  ASSUME NEW l, NEW a \in Nat, NEW m \in Nat \ {0}, l.inPreSize = m, Shaped(l, a),
         l.state \in States, l.state \notin {"CONTINUE", "NEW"}, NEW e, EndsAt(e)
  PROVE  Outputs(e) <= Outputs(a + m)
<1>1. PICK x : x = a + m
  OBVIOUS
<1>2. e \in Nat /\ Plain(0, e) /\ x \in Nat /\ 0 < x /\ InSize(Outputs(e))
  BY <1>1 DEF EndsAt, UpTo
<1>3. CASE l.state \in {"MARK", "ERROR"}
  <2>1. input.bytes[x] \in {"end", "err"}
    BY <1>1, <1>3 DEF Shaped
  <2>2. e < x
    <3>1. SUFFICES ASSUME x <= e PROVE FALSE
      BY <1>2
    <3>2. input.bytes[x] \in {"new", "data"}
      BY <1>2, <3>1 DEF Plain
    <3> QED BY <2>1, <3>2
  <2>3. e <= x
    BY <1>2, <2>2
  <2> QED BY <1>1, <1>2, <2>3, OutputsGrow
<1>4. CASE l.state = "STOP"
  <2>1. /\ input.outSize # NoSize /\ Outputs(a) + l.outPreSize = input.outSize
        /\ l.outPreSize = Outputs(x) - Outputs(a)
    BY <1>1, <1>4 DEF Shaped
  <2>2. Outputs(e) <= input.outSize
    BY <1>2, <2>1 DEF InSize
  <2>3. PICK p, q : p = Outputs(a) /\ q = Outputs(x)
    OBVIOUS
  <2>4. p \in Nat /\ q \in Nat
    BY <1>2, <2>3, OutputsNext
  <2>5. p + (q - p) = q
    BY <2>4
  <2>6. input.outSize = q
    BY <2>1, <2>3, <2>5
  <2> QED BY <1>1, <2>2, <2>3, <2>6
<1> QED BY <1>3, <1>4 DEF States, Shaped

(* Where the output asked for was written, the input does not end later.   *)
LEMMA LimitCovers ==
  ASSUME AtLimit, InputOK, IsSeq(out.bytes), NEW e, EndsAt(e)
  PROVE  Outputs(e) <= Len(out.bytes)
<1>1. e \in Nat /\ Outputs(e) <= input.outSize
  BY DEF AtLimit, EndsAt, UpTo, InSize
<1>2. Outputs(e) \in Nat /\ Len(out.bytes) \in Nat
  <2>1. Len(out.bytes) \in Nat
    BY SeqItems
  <2> QED BY <1>1, <2>1, OutputsNext
<1>3. input.outSize \in Nat /\ input.outSize <= Len(out.bytes)
  BY DEF AtLimit, InputOK
<1> QED BY <1>1, <1>2, <1>3

(* A block without a byte, in which the end was found: the input does not  *)
(* end after what was written.                                             *)
LEMMA HollowCovers ==
  ASSUME Shape, Control, Told, FinOK, rd.res = OK,
         NEW w \in 0 .. MaxThreads, NEW n \in 0 .. MaxThreads, Round(w, n),
         NEW B, Placed(n, B), NEW t \in Threads, Working(t), ~ InBlock(t), n = 1,
         NEW a, a = B[bi(t)], HasBlock(t, a, B[bi(t) + 1]), th[t].l.size = 0,
         Beyond, Bare, NEW e, EndsAt(e)
  PROVE  Outputs(e) <= Len(out.bytes)
<1>1. /\ IsLast(t) /\ rd.blockIndex = bi(t) + 1 /\ rd.blockIndex - n = bi(t)
      /\ \A u \in Threads : Working(u) => u = t
  BY LastAlone
<1>2. RdOK /\ InputOK /\ IsSeq(out.bytes) /\ Unbroken /\ a \in Nat
  <2>1. bi(t) \in Nat /\ B \in [Nat -> Nat]
    BY InRound DEF Placed, Places
  <2> QED BY <2>1 DEF Control, Told, Placed
<1>3. SUFFICES ASSUME ~ AtLimit PROVE FALSE
  BY <1>2, LimitCovers
<1>4. Len(out.bytes) \in Nat /\ rd.pos \in Nat /\ Len(rd.cross) \in Nat
  <2>1. Len(out.bytes) \in Nat
    BY <1>2, SeqItems
  <2> QED BY <1>2, <2>1 DEF RdOK
<1>5. ASSUME NEW x \in Nat, Len(out.bytes) = Outputs(x), NEW z \in Nat, z <= x, FullAt(z)
      PROVE FALSE
  <2>1. Outputs(z) <= Outputs(x)
    BY <1>5, OutputsGrow
  <2> QED BY <1>3, <1>5, <2>1 DEF FullAt, AtLimit
<1>6. CASE rd.cross = << >>
  <2>1. wr.numFilled = 0
    BY <1>2 DEF Unbroken
  <2>2. Empty
    BY <1>1, <1>6, <2>1 DEF Empty
  <2>3. TextAt(rd.pos)
    BY <1>3, <2>2 DEF Bare
  <2>4. Len(out.bytes) = Outputs(rd.pos)
    <3>1. Outputs(rd.pos) = Outputs(0) + Len(out.bytes) /\ Outputs(0) = 0
      BY <2>3, OutputsNext DEF TextAt, TextTo
    <3> QED BY <1>4, <3>1
  <2>5. CASE rd.finished
    <3>1. rd.pos = Len(input.bytes)
      BY <2>5 DEF FinOK
    <3> QED BY <1>2, <1>3, <2>3, <3>1, NoEndThere
  <2>6. CASE Past
    <3>1. PICK z \in Nat : z + Len(rd.cross) <= rd.pos /\ FullAt(z)
      BY <2>6 DEF Past
    <3>2. z <= rd.pos
      BY <1>4, <3>1
    <3> QED BY <1>4, <1>5, <2>4, <3>1, <3>2
  <2> QED BY <2>5, <2>6 DEF Beyond
<1>7. CASE rd.cross # << >>
  <2>1. PICK z \in Nat : z + Len(rd.cross) <= rd.pos /\ FullAt(z)
    BY <1>7 DEF Beyond, Past
  <2>2. B[bi(t) + 1] = a
    BY <1>2 DEF HasBlock, Sized
  <2>3. NextPlace(a)
    <3>1. \A u \in Threads : ~ InBlock(u)
      BY <1>1 DEF InBlock, Working, Reading
    <3>2. NextPlace(B[rd.blockIndex])
      BY <3>1 DEF Placed
    <3> QED BY <1>1, <2>2, <3>2
  <2>4. rd.pos = a + Len(rd.cross)
    BY <1>7, <2>3 DEF NextPlace, Dropped, Front
  <2>5. z <= a
    BY <1>2, <1>4, <2>1, <2>4
  <2>6. Len(out.bytes) = Outputs(a)
    <3>1. Written(a)
      BY <1>1 DEF Placed
    <3> QED BY <1>7, <3>1 DEF Written, Drained
  <2> QED BY <1>2, <1>5, <2>1, <2>5, <2>6
<1> QED BY <1>6, <1>7

(* A whole block was not decoded to what the parser said.                  *)
Mismatched(l) ==
  /\ l.coderRes = OK /\ BlockFinished(l)
  /\ l.outPreSize # Len(l.outBuf) \/ l.inPreSize # l.inCodeSize

(* When the Write callback fails.                                          *)
LEMMA WriteFails ==
  ASSUME NEW l, NEW toStream \in BOOLEAN, NEW cb \in WriteResults(l, toStream),
         l.needWrite, toStream
  PROVE  /\ cb.res = "FAIL" => Mismatched(l)
         /\ cb.res = "WRITE" => cb.out.failed
<1> DEFINE bad == /\ l.coderRes = OK /\ BlockFinished(l)
                  /\ l.outPreSize # Len(l.outBuf) \/ l.inPreSize # l.inCodeSize
           wrote(res, bytes, cont) ==
             [res |-> res, cont |-> cont, recode |-> FALSE, used |-> l.inCodeSize,
              out |-> [bytes |-> out.bytes \o bytes, failed |-> out.failed \/ res # OK]]
<1>1. CASE bad
  <2>1. cb = [Kept("FAIL", FALSE) EXCEPT !.used = l.inCodeSize]
    BY <1>1 DEF WriteResults
  <2>2. cb.res = "FAIL"
    BY <2>1 DEF Kept
  <2> QED BY <1>1, <2>2 DEF Mismatched
<1>2. CASE ~ bad
  <2>1. \/ cb = wrote(OK, l.outBuf, l.state \in {"CONTINUE", "NEW"})
        \/ \E k \in 0 .. Len(l.outBuf) - 1 : cb = wrote("WRITE", FirstBytes(l.outBuf, k), FALSE)
    BY <1>2 DEF WriteResults
  <2>2. CASE cb = wrote(OK, l.outBuf, l.state \in {"CONTINUE", "NEW"})
    <3>1. cb.res = OK
      BY <2>2
    <3> QED BY <3>1 DEF OK
  <2>3. CASE \E k \in 0 .. Len(l.outBuf) - 1 : cb = wrote("WRITE", FirstBytes(l.outBuf, k), FALSE)
    <3>1. PICK k \in 0 .. Len(l.outBuf) - 1 : cb = wrote("WRITE", FirstBytes(l.outBuf, k), FALSE)
      BY <2>3
    <3>2. cb.res = "WRITE" /\ cb.out.failed
      BY <3>1 DEF OK
    <3> QED BY <3>2
  <2> QED BY <2>1, <2>2, <2>3
<1> QED BY <1>1, <1>2

-----------------------------------------------------------------------------
(* What a writer did whose block was not left to the other decoder, while  *)
(* nothing had failed.                                                     *)
Gave(t) ==
  LET l == th[t].l
  IN  /\ ~ LeftToOther(l) /\ Len(out.bytes) <= Len(out'.bytes)
      /\ \/ Mismatched(l)
         \/ out'.failed
         \/ /\ out'.bytes = out.bytes \o l.outBuf /\ (wr'.interrupted => l.codeRes # OK)
            /\ \E cont : HandOn(t, cont) /\ (cont <=> l.state \in {"CONTINUE", "NEW"})

(* The writer, when the call is over without a failure.                    *)
LEMMA WriteSays ==
  ASSUME Shape, Control, NEW t \in Threads, Write(t), sync'.res = OK, ~ NeedContinue',
         ~ wr.interrupted, wr.numFilled = 0, th[t].l.res = OK, ~ th[t].l.wasInterrupted,
         ~ LeftToOther(th[t].l) => th[t].l.needWrite, IsSeq(out.bytes), IsSeq(th[t].l.outBuf)
  PROVE  Gave(t)
<1> DEFINE l == th[t].l
           was == l.wasInterrupted \/ wr.interrupted
           w == Recorded(l)
           wants == l.needWrite /\ (wr.interrupted \/ ~ LeftToOther(l))
           res(r) == IF l.needCode THEN r ELSE l.res
           failed(cb) == l.needWrite /\ cb.res # OK
           w1(cb) == [w EXCEPT !.interrupted = @ \/ failed(cb), !.inProcessed = @ + cb.used]
           keep(cb) == /\ cb.recode
                       /\ \/ ~ l.needCode \/ cb.res # OK \/ w1(cb).interrupted
                          \/ l.codeRes # OK \/ was \/ w.numFilled # 0
<1>1. /\ Good(t) /\ ThreadOK(th[t]) /\ t \in DOMAIN th /\ t \in DOMAIN pc /\ pc[t] = "wait_write"
      /\ SyncOK /\ WrOK /\ LocalOK(l) /\ l.blockIndex \in Nat
  BY DEF Control, Good, Write, Shape, ThreadOK, LocalOK
<1>3. PICK r \in IF l.needCode THEN ProgressResults ELSE {sync.res} :
        \E cb \in WriteResults([l EXCEPT !.res = res(r)], res(r) = OK /\ wants /\ ~ was) :
          /\ wr' = Filled(t, w1(cb), keep(cb))
          /\ th' = IF keep(cb) /\ (l.size # 0 \/ ~ l.finish)
                   THEN [th EXCEPT ![t] = [@ EXCEPT !.l = Fresh, !.start = l.start,
                                                    !.size = l.size]]
                   ELSE [th EXCEPT ![t].l = Fresh]
          /\ out' = cb.out
          /\ IF failed(cb) \/ (l.needWrite /\ ~ cb.cont /\ ~ l.finish)
             THEN Interrupts(r, l.blockIndex)
             ELSE sync' = [sync EXCEPT !.res = r]
          /\ HandOn(t, cb.cont)
  BY DEF Write
<1> DEFINE lr == [l EXCEPT !.res = res(r)]
           toStream == res(r) = OK /\ wants /\ ~ was
<1>4. PICK cb \in WriteResults(lr, toStream) :
          /\ wr' = Filled(t, w1(cb), keep(cb))
          /\ th' = IF keep(cb) /\ (l.size # 0 \/ ~ l.finish)
                   THEN [th EXCEPT ![t] = [@ EXCEPT !.l = Fresh, !.start = l.start,
                                                    !.size = l.size]]
                   ELSE [th EXCEPT ![t].l = Fresh]
          /\ out' = cb.out
          /\ IF failed(cb) \/ (l.needWrite /\ ~ cb.cont /\ ~ l.finish)
             THEN Interrupts(r, l.blockIndex)
             ELSE sync' = [sync EXCEPT !.res = r]
          /\ HandOn(t, cb.cont)
  BY <1>3
<1>5. r = OK
  <2>1. Interrupts(r, l.blockIndex) \/ sync' = [sync EXCEPT !.res = r]
    BY <1>4
  <2>2. sync'.res = r
    BY <1>1, <2>1 DEF Interrupts, SyncOK
  <2> QED BY <2>2
<1>6. /\ LocalOK(lr) /\ lr.needWrite = l.needWrite /\ lr.finish = l.finish /\ lr.state = l.state
      /\ lr.res = OK /\ lr.outBuf = l.outBuf /\ lr.inCodeSize = l.inCodeSize
      /\ lr.coderRes = l.coderRes /\ lr.outPreSize = l.outPreSize /\ lr.inPreSize = l.inPreSize
  BY <1>1, <1>5 DEF LocalOK, Errors
<1>7. toStream <=> l.needWrite /\ ~ LeftToOther(l)
  BY <1>5
<1>b. toStream \in BOOLEAN
  OBVIOUS
<1> HIDE DEF lr, toStream
<1>9. /\ DOMAIN w = DOMAIN wr
      /\ w.filledStart = wr.filledStart /\ w.numFilled = wr.numFilled
      /\ w.interrupted <=> l.codeRes # OK \/ LeftToOther(l)
      /\ (w.allocError \/ w.threadingError \/ w.overflow) <=> LeftToOther(l)
      /\ w.inProcessed = wr.inProcessed
  BY <1>1, RecordedIs, RecordedFirst
<1> DEFINE k == w1(cb)
<1>10. /\ DOMAIN k = DOMAIN wr /\ (k.interrupted <=> w.interrupted \/ failed(cb))
       /\ k.allocError = w.allocError /\ k.threadingError = w.threadingError
       /\ k.overflow = w.overflow /\ k.filledStart = wr.filledStart /\ k.numFilled = wr.numFilled
       /\ k.inProcessed = wr.inProcessed + cb.used
  <2> HIDE DEF w
  <2> QED BY <1>9, <1>1 DEF WrOK
<1>11. keep(cb) <=> /\ cb.recode
                    /\ ~ l.needCode \/ cb.res # OK \/ k.interrupted \/ l.codeRes # OK
  BY <1>9
<1>12. wr' = Filled(t, k, keep(cb))
  BY <1>4
<1> HIDE DEF k, w
<1>13. /\ wr'.interrupted <=> k.interrupted
       /\ NeedContinue' <=> LeftToOther(l)
       /\ wr'.inProcessed = wr.inProcessed + cb.used
       /\ keep(cb) => wr'.filledStart = t /\ wr'.numFilled = (IF l.size # 0 \/ ~ l.finish THEN 1 ELSE 0)
       /\ ~ keep(cb) => wr'.numFilled = 0
  <2>1. CASE keep(cb)
    <3>1. wr' = [k EXCEPT !.filledStart = t,
                          !.numFilled = IF l.size # 0 \/ ~ l.finish THEN 1 ELSE 0]
      <4> HIDE DEF keep
      <4> QED BY <1>10, <1>12, <2>1 DEF Filled
    <3> HIDE DEF keep, failed
    <3> QED BY <1>1, <1>9, <1>10, <2>1, <3>1 DEF WrOK, NeedContinue
  <2>2. CASE ~ keep(cb)
    <3>1. wr' = k
      <4> HIDE DEF keep
      <4> QED BY <1>12, <2>2 DEF Filled
    <3> HIDE DEF keep, failed
    <3> QED BY <1>1, <1>9, <1>10, <2>2, <3>1 DEF WrOK, NeedContinue
  <2> QED BY <2>1, <2>2
<1>14. HandOn(t, cb.cont) /\ out' = cb.out
  BY <1>4
<1>15. ~ LeftToOther(l)
  BY <1>13
<1>n. l.needWrite
  BY <1>15
<1>8. \/ ~ toStream /\ cb.res = OK
      \/ toStream /\ cb.res = "FAIL"
      \/ toStream /\ cb.res = OK /\ ~ cb.recode /\ (cb.cont <=> l.state \in {"CONTINUE", "NEW"})
      \/ toStream /\ cb.res = "WRITE"
  <2>1. LocalOK(lr) /\ toStream \in BOOLEAN /\ lr.needWrite
    BY <1>6, <1>b, <1>n
  <2> QED BY <1>6, <2>1, WriteAnswers
<1>g. ~ cb.recode /\ cb.res = OK => cb.out.bytes = out.bytes \o l.outBuf
  <2>1. ~ cb.recode /\ cb.res = OK => cb.out.bytes = out.bytes \o lr.outBuf
    BY <1>6, <1>b, WriteGives
  <2> HIDE DEF l
  <2> QED BY <1>6, <2>1
<1>f. toStream => (cb.res = "FAIL" => Mismatched(l)) /\ (cb.res = "WRITE" => cb.out.failed)
  <2>1. toStream => (cb.res = "FAIL" => Mismatched(lr)) /\ (cb.res = "WRITE" => cb.out.failed)
    BY <1>6, <1>b, <1>n, WriteFails
  <2>2. Mismatched(lr) <=> Mismatched(l)
    <3>1. BlockFinished(lr) <=> BlockFinished(l)
      BY <1>6 DEF BlockFinished
    <3> HIDE DEF l
    <3> QED BY <1>6, <3>1 DEF Mismatched
  <2> HIDE DEF l
  <2> QED BY <2>1, <2>2
<1>h. Len(out.bytes) <= Len(cb.out.bytes)
  <2>1. \/ cb.out.bytes = out.bytes
        \/ cb.out.bytes = out.bytes \o lr.outBuf
        \/ \E q \in 0 .. Len(lr.outBuf) - 1 : cb.out.bytes = out.bytes \o FirstBytes(lr.outBuf, q)
    BY <1>b, WriteGets
  <2>2. PICK o, e : o = out.bytes /\ e = l.outBuf
    OBVIOUS
  <2>3. IsSeq(o) /\ IsSeq(e) /\ Len(o) \in Nat /\ Len(e) \in Nat
    BY <2>2, SeqItems
  <2>4. Len(o \o e) >= Len(o)
    <3>1. Len(o \o e) = Len(o) + Len(e)
      BY <2>3, SeqItems
    <3> QED BY <2>3, <3>1
  <2>5. ASSUME NEW q \in 0 .. Len(e) - 1 PROVE Len(o \o FirstBytes(e, q)) >= Len(o)
    <3>1. q \in 0 .. Len(e)
      BY <2>3
    <3>2. IsSeq(FirstBytes(e, q)) /\ Len(FirstBytes(e, q)) = q
      BY <2>3, <3>1, SeqItems
    <3>3. Len(o \o FirstBytes(e, q)) = Len(o) + Len(FirstBytes(e, q))
      BY <2>3, <3>2, SeqItems
    <3> QED BY <2>3, <3>1, <3>2, <3>3
  <2>6. lr.outBuf = e
    BY <1>6, <2>2
  <2>7. CASE cb.out.bytes = out.bytes
    BY <2>2, <2>3, <2>7
  <2>8. CASE cb.out.bytes = out.bytes \o lr.outBuf
    BY <2>2, <2>4, <2>6, <2>8
  <2>9. CASE \E q \in 0 .. Len(lr.outBuf) - 1 : cb.out.bytes = out.bytes \o FirstBytes(lr.outBuf, q)
    <3>1. PICK q \in 0 .. Len(lr.outBuf) - 1 : cb.out.bytes = out.bytes \o FirstBytes(lr.outBuf, q)
      BY <2>9
    <3>2. Len(o \o FirstBytes(e, q)) >= Len(o)
      BY <2>5, <2>6
    <3> QED BY <2>2, <2>6, <3>1, <3>2
  <2> QED BY <2>1, <2>7, <2>8, <2>9
<1>16. toStream
  BY <1>7, <1>15, <1>n
<1>17. CASE cb.res = "FAIL"
  <2>1. Mismatched(l)
    BY <1>16, <1>17, <1>f
  <2>2. Len(out.bytes) <= Len(out'.bytes)
    BY <1>14, <1>h
  <2> HIDE DEF keep, failed
  <2> QED BY <1>15, <2>1, <2>2 DEF Gave
<1>18. CASE cb.res = "WRITE"
  <2>1. out'.failed
    BY <1>14, <1>16, <1>18, <1>f
  <2>2. Len(out.bytes) <= Len(out'.bytes)
    BY <1>14, <1>h
  <2> HIDE DEF keep, failed
  <2> QED BY <1>15, <2>1, <2>2 DEF Gave
<1>19. CASE cb.res = OK /\ ~ cb.recode /\ (cb.cont <=> l.state \in {"CONTINUE", "NEW"})
  <2>1. out'.bytes = out.bytes \o l.outBuf /\ Len(out.bytes) <= Len(out'.bytes)
    BY <1>14, <1>19, <1>g, <1>h
  <2>2. wr'.interrupted => l.codeRes # OK
    BY <1>9, <1>10, <1>13, <1>15, <1>19
  <2> HIDE DEF keep, failed
  <2>3. \E cont : HandOn(t, cont) /\ (cont <=> l.state \in {"CONTINUE", "NEW"})
    <3>1. HandOn(t, cb.cont)
      BY <1>14
    <3>2. cb.cont <=> l.state \in {"CONTINUE", "NEW"}
      BY <1>19
    <3> HIDE DEF l
    <3> WITNESS cb.cont
    <3> QED BY <3>1, <3>2
  <2> QED BY <1>15, <2>1, <2>2, <2>3 DEF Gave
<1> QED BY <1>8, <1>16, <1>17, <1>18, <1>19

-----------------------------------------------------------------------------
(* The input does not end after what was written, if that can be told: the *)
(* stream took all of it, and reading did not fail.                        *)
Covered == ~ out.failed /\ rd.res = OK => \A e \in Nat : EndsAt(e) => Outputs(e) <= Len(out.bytes)

(* What the writer has, as long as progress does not fail.                 *)
LEMMA WriterStill ==
  ASSUME Shape, Control, Blamed, mainPc = "run",
         NEW w \in 0 .. MaxThreads, NEW n \in 0 .. MaxThreads, Round(w, n),
         NEW B, Placed(n, B), NEW t \in Threads, Write(t), sync'.res = OK
  PROVE  /\ t = w /\ n > 0 /\ bi(t) = rd.blockIndex - n /\ Working(t) /\ pc[t] = "wait_write"
         /\ canWrite[t] /\ sync.res = OK
         /\ ~ InBlock(t) /\ th[t].l.res = OK /\ IsSeq(th[t].l.outBuf) /\ ~ th[t].l.wasInterrupted
         /\ HasBlock(t, B[bi(t)], B[bi(t) + 1]) /\ LocalOK(th[t].l)
         /\ rd' = rd /\ input' = input
         /\ \E cont : HandOn(t, cont)
<1>1. pc[t] = "wait_write" /\ canWrite[t] /\ rd' = rd /\ input' = input /\ Working(t) /\ ~ InBlock(t)
  BY DEF Write, Working, InBlock, caller
<1>2. LocalOK(th[t].l) /\ Flags(t) /\ SyncOK
  BY <1>1 DEF Control, Good, ThreadOK, Shape
<1>3. Unbroken /\ HasPlace(t, B)
  BY <1>1 DEF Placed
<1>4. /\ th[t].l.res = OK /\ IsSeq(th[t].l.outBuf) /\ HasBlock(t, B[bi(t)], B[bi(t) + 1])
  BY <1>1, <1>3 DEF HasPlace
<1>5. t = w
  BY <1>1 DEF Round
<1>6. /\ rd.blockIndex \in Nat /\ n \in Nat /\ n > 0 /\ bi(t) = rd.blockIndex - n
      /\ \A u \in Threads : Working(u) => bi(u) \in Nat /\ (u # w => bi(t) < bi(u))
  BY <1>1, <1>5, InRound
<1>7. PICK cont : Writes(t, cont)
  <2>1. wr.numFilled \in Nat
    BY <1>3 DEF Unbroken
  <2> QED BY <2>1, WriteControl
<1>8. sync.res = OK /\ HandOn(t, cont)
  BY <1>7 DEF Writes
<1>9. ~ th[t].l.wasInterrupted
  <2>1. SUFFICES ASSUME th[t].l.wasInterrupted PROVE FALSE
    OBVIOUS
  <2>2. sync.needInterrupt /\ bi(t) > sync.index /\ sync.index \in Nat
    BY <1>2, <2>1 DEF Flags, InterruptedBefore, SyncOK, bi
  <2>3. ~ wr.interrupted
    BY <1>3 DEF Unbroken
  <2>4. PICK u \in Threads : Failed(u) /\ bi(u) <= sync.index
    BY <1>8, <2>2, <2>3 DEF Blamed
  <2>5. Working(u) /\ bi(u) \in Nat /\ bi(t) \in Nat /\ bi(t) <= bi(u)
    BY <1>1, <1>5, <1>6, <2>4 DEF Failed
  <2> QED BY <2>2, <2>4, <2>5
<1> QED BY <1>1, <1>2, <1>4, <1>5, <1>6, <1>8, <1>9

(* A block with bytes of its own, as the coder left it.                    *)
LEMMA GaveCovers ==
  ASSUME Shape, Control, mainPc = "run", Told, Told',
         NEW w \in 0 .. MaxThreads, NEW n \in 0 .. MaxThreads, Round(w, n),
         NEW t \in Threads, Write(t), Gave(t), ~ out'.failed, wr'.interrupted \/ Ending',
         LocalOK(th[t].l), IsSeq(th[t].l.outBuf), ~ th[t].l.wasInterrupted,
         NEW a \in Nat, NEW m \in Nat \ {0}, m = th[t].l.inPreSize,
         Shaped(th[t].l, a), Judged(th[t].l, a, TRUE),
         \A k \in 1 .. m : input.bytes[a + k] = "end" => k = m,
         Len(out.bytes) = Outputs(a), NEW e, EndsAt(e)
  PROVE  Outputs(e) <= Len(out'.bytes)
<1>1. PICK l : l = th[t].l
  OBVIOUS
<1>2. PICK o, p, b : o = out.bytes /\ p = out'.bytes /\ b = l.outBuf
  OBVIOUS
<1>3. /\ IsSeq(o) /\ IsSeq(p) /\ IsSeq(b) /\ Len(o) \in Nat /\ Len(p) \in Nat /\ Len(b) \in Nat
      /\ Len(o \o b) = Len(o) + Len(b)
  <2>1. IsSeq(o) /\ IsSeq(p) /\ IsSeq(b)
    BY <1>1, <1>2 DEF Told
  <2> QED BY <2>1, SeqItems
<1>4. e \in Nat /\ Outputs(e) \in Nat /\ Len(o) <= Len(p) /\ Len(o) = Outputs(a)
  <2>1. e \in Nat
    BY DEF EndsAt, UpTo
  <2>2. Len(out.bytes) <= Len(out'.bytes)
    BY DEF Gave
  <2> QED BY <1>2, <2>1, <2>2, OutputsNext
<1>5. CASE l.codeRes = "DATA"
  <2>1. Damaged(l, a)
    BY <1>1, <1>5 DEF Judged
  <2>2. e <= a
    BY <1>1, <2>1, NoEndInDamage
  <2>3. Outputs(e) <= Outputs(a)
    BY <1>4, <2>2, OutputsGrow
  <2> QED BY <1>2, <1>3, <1>4, <2>3
<1>6. CASE l.codeRes = OK
  <2>1. Len(b) = l.outPreSize /\ (BlockFinished(l) => l.inCodeSize = l.inPreSize)
    BY <1>1, <1>2, <1>6 DEF Judged
  <2>2. PICK cont : /\ p = o \o b /\ (wr'.interrupted => l.codeRes # OK) /\ HandOn(t, cont)
                    /\ cont <=> l.state \in {"CONTINUE", "NEW"}
    <3>1. ~ Mismatched(l)
      BY <1>2, <2>1 DEF Mismatched
    <3>2. ~ Mismatched(th[t].l)
      BY <1>1, <3>1
    <3>3. /\ out'.bytes = out.bytes \o th[t].l.outBuf /\ (wr'.interrupted => th[t].l.codeRes # OK)
          /\ \E cont : HandOn(t, cont) /\ (cont <=> th[t].l.state \in {"CONTINUE", "NEW"})
      BY <3>2 DEF Gave
    <3>4. PICK cont : HandOn(t, cont) /\ (cont <=> th[t].l.state \in {"CONTINUE", "NEW"})
      BY <3>3
    <3>5. /\ p = o \o b /\ (wr'.interrupted => l.codeRes # OK)
          /\ HandOn(t, cont) /\ (cont <=> l.state \in {"CONTINUE", "NEW"})
      BY <1>1, <1>2, <3>3, <3>4
    <3> QED BY <3>5
  <2>3. Ending'
    BY <1>6, <2>2
  <2>4. \A v, k \in 0 .. MaxThreads : ~ Round(v, k)'
    <3>1. SUFFICES ASSUME NEW v \in 0 .. MaxThreads, NEW k \in 0 .. MaxThreads, Round(v, k)'
                   PROVE FALSE
      OBVIOUS
    <3>2. Shape'
      BY <2>2, WriteKeeps
    <3>3. v \in Threads
      <4>1. rd'.started \in 1 .. MaxThreads
        BY <3>2 DEF Shape, IsRd
      <4>2. v \in 0 .. rd'.started - 1
        BY <3>1 DEF Round
      <4> QED BY <4>1, <4>2, MtDecAssumption DEF Threads
    <3>4. canWrite'[v] /\ ~ canWrite'[v]
      BY <2>3, <3>1, <3>3 DEF Round, Ending
    <3> QED BY <3>4
  <2>5. ~ cont
    <3>1. CASE ~ th[t].l.finish
      <4>1. \E v \in 0 .. MaxThreads : Round(v, n - 1)'
        BY <2>2, <3>1, WriteKeeps
      <4>2. n - 1 \in 0 .. MaxThreads
        <5>1. n \in 1 .. rd.started
          BY <2>2, WriteKeeps
        <5> QED BY <5>1, MtDecAssumption DEF Shape, IsRd
      <4> QED BY <2>4, <4>1, <4>2
    <3>2. CASE th[t].l.finish
      <4>1. cont => Round(0, 0)'
        <5>1. SUFFICES ASSUME cont PROVE Round(0, 0)'
          OBVIOUS
        <5>2. HandOn(t, TRUE)
          BY <2>2, <5>1 DEF HandOn
        <5> QED BY <3>2, <5>2, WriteKeeps
      <4>2. 0 \in 0 .. MaxThreads
        BY MtDecAssumption
      <4> QED BY <2>4, <4>1, <4>2
    <3>3. th[t].l.finish \in BOOLEAN
      BY DEF LocalOK
    <3> QED BY <3>1, <3>2
  <2>6. l.state \in States /\ l.state \notin {"CONTINUE", "NEW"}
    BY <1>1, <2>2, <2>5 DEF LocalOK
  <2>7. Outputs(e) <= Outputs(a + m)
    BY <1>1, <2>6, NoEndAfterLast
  <2>8. Len(p) = Outputs(a + m)
    <3>1. l.outPreSize = Outputs(a + m) - Outputs(a)
      BY <1>1 DEF Shaped
    <3>2. PICK x, y : x = Outputs(a) /\ y = Outputs(a + m)
      OBVIOUS
    <3>3. x \in Nat /\ y \in Nat
      <4>1. a + m \in Nat
        OBVIOUS
      <4> QED BY <3>2, <4>1, OutputsNext
    <3>4. Len(b) = y - x /\ Len(o) = x
      BY <1>4, <2>1, <3>1, <3>2
    <3>5. Len(p) = x + (y - x)
      BY <1>3, <2>2, <3>4
    <3> QED BY <3>2, <3>3, <3>5
  <2> QED BY <1>2, <2>7, <2>8
<1> QED BY <1>1, <1>5, <1>6 DEF Judged

(* When the call is over, without a failure but that of a block, and no    *)
(* block was left to the other decoder, the input does not go on.          *)
LEMMA WriteCovers ==
  ASSUME Inv, RunKept, RunText, Told, FinOK, NEW t \in Threads, Write(t), Continues,
         Right(t), Bare, sync'.res = OK, ~ NeedContinue', wr'.interrupted \/ Ending'
  PROVE  Covered'
<1>1. Shape /\ Control /\ Blamed /\ InputOK
  BY DEF Inv, Control
<1>2. mainPc = "run" /\ TextAt(wr.inProcessed) /\ \E w, n \in 0 .. MaxThreads : InPlace(w, n)
  BY WriterIn
<1>3. PICK w, n \in 0 .. MaxThreads : InPlace(w, n)
  BY <1>2
<1>4. PICK B : Round(w, n) /\ Placed(n, B)
  BY <1>3 DEF InPlace
<1>5. PICK a, x : a = B[bi(t)] /\ x = wr.inProcessed
  OBVIOUS
<1>6. /\ bi(t) = rd.blockIndex - n /\ Working(t) /\ pc[t] = "wait_write" /\ canWrite[t]
      /\ ~ InBlock(t) /\ IsSeq(th[t].l.outBuf) /\ th[t].l.res = OK /\ ~ th[t].l.wasInterrupted
      /\ HasBlock(t, a, B[bi(t) + 1]) /\ LocalOK(th[t].l)
      /\ rd' = rd /\ input' = input
      /\ \E cont : HandOn(t, cont)
  BY <1>1, <1>2, <1>4, <1>5, WriterStill
<1>7. Worded(t) /\ Clean(t)
  BY <1>2, <1>6 DEF RunText, Untouched
<1>8. a \in Nat /\ Written(a) /\ Unbroken
  <2>1. bi(t) \in Nat /\ B \in [Nat -> Nat]
    BY <1>1, <1>4, <1>6, InRound DEF Placed, Places
  <2> QED BY <1>4, <1>5, <1>6, <2>1 DEF Placed
<1>9. Told'
  BY WriteTold
<1>10. ~ LeftToOther(th[t].l) => th[t].l.needWrite
  BY <1>6 DEF HasBlock, Sized, Right, Ready
<1>11. Gave(t)
  <2>1. ~ wr.interrupted /\ wr.numFilled = 0 /\ IsSeq(out.bytes)
    BY <1>8 DEF Unbroken
  <2> QED BY <1>1, <1>6, <1>10, <2>1, WriteSays
<1>12. ~ LeftToOther(th[t].l) /\ Len(out.bytes) <= Len(out'.bytes) /\ ~ Refused(th[t].l)
  BY <1>11 DEF Gave, LeftToOther, Refused, NoMemory
<1>13. SUFFICES ASSUME ~ out'.failed, rd.res = OK, NEW e \in Nat, EndsAt(e)
                PROVE  Outputs(e) <= Len(out'.bytes)
  <2>1. ASSUME NEW e \in Nat PROVE (EndsAt(e)' <=> EndsAt(e)) /\ Outputs(e)' = Outputs(e)
    <3>1. FullAt(e)' <=> FullAt(e)
      BY <1>6, FullStays
    <3>2. Plain(0, e)' <=> Plain(0, e)
      BY <1>6 DEF Plain
    <3>3. (InSize(Outputs(e))' <=> InSize(Outputs(e))) /\ Outputs(e)' = Outputs(e)
      BY <1>6, TextStays DEF InSize
    <3> QED BY <1>6, <3>1, <3>2, <3>3 DEF EndsAt, UpTo
  <2> QED BY <1>6, <2>1 DEF Covered
<1>14. CASE th[t].l.inPreSize = 0
  <2>1. th[t].l.size = 0 /\ th[t].l.finish /\ Beyond
    BY <1>6, <1>10, <1>12, <1>14 DEF Right, Hollow
  <2>2. n = 1
    BY <1>1, <1>2, <1>4, <1>6, <2>1, WriteKeeps
  <2>3. Outputs(e) <= Len(out.bytes)
    BY <1>1, <1>4, <1>5, <1>6, <1>13, <2>1, <2>2, HollowCovers
  <2>4. Outputs(e) \in Nat /\ Len(out.bytes) \in Nat /\ Len(out'.bytes) \in Nat
    <3>1. PICK o, p : o = out.bytes /\ p = out'.bytes
      OBVIOUS
    <3>2. IsSeq(o) /\ IsSeq(p)
      BY <1>9, <3>1 DEF Told
    <3>3. Len(o) \in Nat /\ Len(p) \in Nat
      BY <3>2, SeqItems
    <3> QED BY <1>13, <3>1, <3>3, OutputsNext
  <2> QED BY <1>12, <2>3, <2>4
<1>15. CASE th[t].l.inPreSize # 0
  <2>1. PICK m \in Nat \ {0} : m = th[t].l.inPreSize
    BY <1>6, <1>15 DEF LocalOK
  <2>2. th[t].l.needCode
    BY <1>6, <1>12, <2>1 DEF HasBlock, Sized, Right, Ready, LeftToOther, NoMemory, LocalOK
  <2>3. Start(t) = a
    BY <1>6, <1>8, <2>1, StartIs
  <2>4. Shaped(th[t].l, a) /\ Judged(th[t].l, a, TRUE) /\ Fits(t, a)
    <3>1. FairText(t, a) /\ BlockText(t, a)
      BY <1>7, <2>1, <2>3 DEF Right, Fair, Worded
    <3> QED BY <1>6, <1>12, <2>2, <3>1 DEF FairText, BlockText
  <2>5. Len(out.bytes) = Outputs(a)
    <3>1. th[t].l.size \in Int /\ m <= th[t].l.size /\ a + th[t].l.size <= rd.pos
      BY <1>6, <2>1 DEF HasBlock, Sized, LocalOK
    <3>2. a # rd.pos
      BY <1>8, <3>1
    <3> QED BY <1>8, <3>2 DEF Written, Drained
  <2>6. \A k \in 1 .. m : input.bytes[a + k] = "end" => k = m
    BY <2>1, <2>4 DEF Fits
  <2> QED BY <1>1, <1>2, <1>4, <1>6, <1>8, <1>9, <1>11, <1>13, <2>1, <2>4, <2>5, <2>6, GaveCovers
<1> QED BY <1>14, <1>15

-----------------------------------------------------------------------------
(* The call is over, without a failure but that of a block, and no block   *)
(* is left to the other decoder.                                           *)
Over == sync.res = OK /\ ~ NeedContinue /\ (wr.interrupted \/ Ending)
Shown == mainPc = "run" /\ Over => Covered
(* While it goes on, the blocks are right, and nothing is left undecoded.  *)
RunRight ==
  mainPc = "run" /\ Continues =>
    /\ \A t \in Threads : Working(t) => Right(t)
    /\ Bare \/ (Ending /\ ~ NeedContinue)

(* A thread works while the call is not over.                              *)
LEMMA ThreadGoesOn ==
  ASSUME Shape, Tokens, NEW t \in Threads, Thread(t), ~ (WaitRead(t) /\ exitThread)
  PROVE  ~ Ending /\ ~ exitThread /\ mainPc = "run"
<1>1. mainPc = "run" /\ \E w, n \in 0 .. MaxThreads : Round(w, n)
  BY ThreadRuns
<1>2. PICK w, n \in 0 .. MaxThreads : Round(w, n)
  BY <1>1
<1>3. rd.started \in 1 .. MaxThreads /\ MaxThreads \in Nat
  BY ThreadZero DEF Shape, IsRd
<1>4. w \in Threads /\ canWrite[w]
  BY <1>2, <1>3 DEF Round, Threads
<1> QED BY <1>1, <1>2, <1>4 DEF Ending, Round

(* ... and goes on working until it wrote its block.                       *)
LEMMA ThreadEndsNothing ==
  ASSUME Shape, Tokens, NEW t \in Threads, Thread(t), ~ Write(t), ~ (WaitRead(t) /\ exitThread)
  PROVE  ~ Ending'
<1>1. t \in DOMAIN pc
  BY DEF Shape
<1>2. Working(t)'
  <2>1. CASE WaitRead(t)
    BY <1>1, <2>1 DEF WaitRead, Working, Reading
  <2>2. CASE ReadNoLink(t) \/ ReadCross(t) \/ ReadLink(t)
    BY <1>1, <2>2 DEF ReadNoLink, ReadCross, ReadLink, Working, Reading
  <2>3. CASE ParseOverflow(t) \/ ParseContinue(t) \/ ParseEnd(t) \/ ParseNew(t)
    BY <1>1, <2>3 DEF ParseOverflow, ParseContinue, ParseEnd, ParseNew, StoreParsed, Working, Reading
  <2>4. CASE PreCode(t)
    BY <1>1, <2>4 DEF PreCode, Working, Reading
  <2>5. CASE StartNone(t)
    BY <1>1, <2>5 DEF StartNone, AfterStart, Working, Reading
  <2>6. CASE StartNext(t)
    <3>1. t # rd.started
      <4>1. ~ (WaitRead(t) /\ exitThread) /\ Thread(t)
        OBVIOUS
      <4>2. \E w, n \in 0 .. MaxThreads : Round(w, n)
        BY ThreadRuns
      <4>3. Working(t)
        BY <2>6 DEF StartNext, Working, Reading
      <4> QED BY <4>2, <4>3 DEF Round, Shape, IsRd, Threads
    <3> QED BY <1>1, <2>6, <3>1 DEF StartNext, AfterStart, Working, Reading
  <2>7. CASE CodeFails(t) \/ CodeLink(t) \/ CodeUnprepared(t)
    BY <1>1, <2>7 DEF CodeFails, CodeLink, CodeUnprepared, Working, Reading
  <2> QED BY <2>1, <2>2, <2>3, <2>4, <2>5, <2>6, <2>7 DEF Thread
<1> QED BY <1>2 DEF Ending

(* A writer after an interruption gives the stream nothing.                *)
LEMMA InterruptedGivesNothing ==
  ASSUME NEW t \in Threads, Write(t), wr.interrupted
  PROVE  out' = out
<1> DEFINE l == th[t].l
           res(r) == IF l.needCode THEN r ELSE l.res
           was == l.wasInterrupted \/ wr.interrupted
           wants == l.needWrite /\ (wr.interrupted \/ ~ LeftToOther(l))
<1>1. PICK r \in IF l.needCode THEN ProgressResults ELSE {sync.res} :
        \E cb \in WriteResults([l EXCEPT !.res = res(r)], res(r) = OK /\ wants /\ ~ was) : out' = cb.out
  BY DEF Write
<1>2. PICK m, toStream : m = [l EXCEPT !.res = res(r)] /\ toStream = (res(r) = OK /\ wants /\ ~ was)
  OBVIOUS
<1>3. PICK cb \in WriteResults(m, toStream) : out' = cb.out /\ ~ toStream
  BY <1>1, <1>2
<1>4. cb = Kept(m.res, ~ m.finish) \/ cb = Kept(OK, FALSE)
  BY <1>3 DEF WriteResults
<1> QED BY <1>3, <1>4 DEF Kept

(* What was covered is, while nothing is written and no failure forgotten. *)
LEMMA CoveredStays ==
  ASSUME input' = input, out' = out, rd'.res = OK => rd.res = OK, Covered
  PROVE  Covered'
<1>1. ASSUME NEW e \in Nat PROVE (EndsAt(e)' <=> EndsAt(e)) /\ Outputs(e)' = Outputs(e)
  <2>1. FullAt(e)' <=> FullAt(e)
    BY FullStays
  <2>2. Plain(0, e)' <=> Plain(0, e)
    BY DEF Plain
  <2>3. (InSize(Outputs(e))' <=> InSize(Outputs(e))) /\ Outputs(e)' = Outputs(e)
    BY TextStays DEF InSize
  <2> QED BY <2>1, <2>2, <2>3 DEF EndsAt, UpTo
<1> QED BY <1>1 DEF Covered

(* A step of a thread after which the call is over.                        *)
LEMMA ThreadShown ==
  ASSUME Inv, RunKept, RunText, Told, FinOK, RunRight, Shown, NEW t \in Threads, Thread(t)
  PROVE  Shown'
<1>1. /\ Shape /\ Tokens /\ Control
  BY DEF Inv
<1>2. UNCHANGED <<input, mainPc>>
  BY DEF Thread, WaitRead, ReadNoLink, ReadCross, ReadLink, ParseOverflow, ParseContinue,
         ParseEnd, ParseNew, StoreParsed, PreCode, StartNext, StartNone, CodeFails, CodeLink,
         CodeUnprepared, Write, caller
<1>3. SUFFICES ASSUME mainPc = "run", Over' PROVE Covered'
  BY <1>2 DEF Shown
<1>4. sync'.res = OK /\ sync.res = OK /\ ~ NeedContinue' /\ (wr'.interrupted \/ Ending')
  BY <1>3, FailureStays DEF Over
<1>5. rd'.res = OK => rd.res = OK
  <2>1. CASE ReadLink(t)
    BY <1>1, <2>1 DEF ReadLink, Control, RdOK
  <2>2. CASE WaitRead(t)
    BY <1>1, <2>2 DEF WaitRead, Control, RdOK
  <2>3. CASE StartNext(t)
    BY <1>1, <2>3 DEF StartNext, Control, RdOK
  <2>4. CASE ParseOverflow(t) \/ ParseContinue(t) \/ ParseEnd(t) \/ ParseNew(t)
    BY <1>1, <2>4 DEF ParseOverflow, ParseContinue, ParseEnd, ParseNew, Control, RdOK
  <2>5. CASE \/ ReadNoLink(t) \/ ReadCross(t) \/ PreCode(t) \/ StartNone(t) \/ CodeFails(t)
             \/ CodeLink(t) \/ CodeUnprepared(t) \/ Write(t)
    BY <2>5 DEF ReadNoLink, ReadCross, PreCode, StartNone, CodeFails, CodeLink, CodeUnprepared, Write
  <2> QED BY <2>1, <2>2, <2>3, <2>4, <2>5 DEF Thread
<1>6. ASSUME out' = out, ~ NeedContinue, wr.interrupted \/ Ending PROVE Covered'
  <2>1. Covered
    BY <1>3, <1>4, <1>6 DEF Shown, Over
  <2> QED BY <1>2, <1>5, <1>6, <2>1, CoveredStays
<1>7. CASE Write(t) /\ wr.interrupted
  <2>1. out' = out
    BY <1>7, InterruptedGivesNothing
  <2>2. ~ NeedContinue
    BY <1>1, <1>4, <1>7, WriteKeepsSwitch DEF Control
  <2> QED BY <1>6, <1>7, <2>1, <2>2
<1>8. CASE Write(t) /\ ~ wr.interrupted
  <2>1. Continues
    BY <1>4, <1>8 DEF Continues
  <2>2. Working(t) /\ ~ Ending
    <3>1. ~ (WaitRead(t) /\ exitThread)
      BY <1>8 DEF Write, WaitRead
    <3> QED BY <1>1, <1>8, <3>1, ThreadGoesOn DEF Write, Working
  <2>3. Right(t) /\ Bare
    BY <1>3, <2>1, <2>2 DEF RunRight
  <2> QED BY <1>4, <1>8, <2>1, <2>3, WriteCovers
<1>9. CASE ~ Write(t)
  <2>1. wr' = wr /\ out' = out
    BY <1>9, FailureStays
  <2>2. ~ NeedContinue
    BY <1>4, <2>1 DEF NeedContinue
  <2>3. CASE WaitRead(t) /\ exitThread
    <3>1. Ending
      BY <1>1, <1>3, <2>3 DEF Tokens, Round
    <3> QED BY <1>6, <2>1, <2>2, <3>1
  <2>4. CASE ~ (WaitRead(t) /\ exitThread)
    <3>1. ~ Ending'
      BY <1>1, <1>9, <2>4, ThreadEndsNothing
    <3>2. wr.interrupted
      BY <1>4, <2>1, <3>1
    <3> QED BY <1>6, <2>1, <2>2, <3>2
  <2> QED BY <2>3, <2>4
<1> QED BY <1>7, <1>8, <1>9

(* ... after which it goes on.                                             *)
LEMMA ThreadKeepsRight ==
  ASSUME Inv, Inv', RunKept, RunText, Told, RunRight, NEW t \in Threads, Thread(t)
  PROVE  RunRight'
<1>1. /\ Shape /\ Tokens /\ Control /\ Control' /\ Tokens' /\ RdOK
  BY DEF Inv, Control
<1>2. UNCHANGED <<input, mainPc>>
  BY DEF Thread, WaitRead, ReadNoLink, ReadCross, ReadLink, ParseOverflow, ParseContinue,
         ParseEnd, ParseNew, StoreParsed, PreCode, StartNext, StartNone, CodeFails, CodeLink,
         CodeUnprepared, Write, caller
<1>3. SUFFICES ASSUME mainPc = "run", Continues'
               PROVE  /\ \A u \in Threads : Working(u)' => Right(u)'
                      /\ Bare' \/ (Ending /\ ~ NeedContinue)'
  BY <1>2 DEF RunRight
<1>4. /\ Continues /\ sync'.res = OK /\ sync.res = OK
      /\ \A u \in Threads : Working(u) => Right(u)
      /\ Bare \/ (Ending /\ ~ NeedContinue)
  BY <1>3, ContinuesBefore, FailureStays DEF RunRight
<1>5. /\ Untouched /\ InSize(rd.outParsed) /\ \A u \in Threads : Working(u) => Worded(u)
  BY <1>3, <1>4 DEF RunText
<1>6. CASE Write(t)
  <2>1. Working(t) /\ rd' = rd /\ ~ Ending
    <3>1. ~ (WaitRead(t) /\ exitThread)
      BY <1>6 DEF Write, WaitRead
    <3> QED BY <1>1, <1>6, <3>1, ThreadGoesOn DEF Write, Working
  <2>2. Bare' \/ (Ending /\ ~ NeedContinue)'
    BY <1>3, <1>4, <1>6, <2>1, WriteBare
  <2>3. Others(t) /\ ~ Working(t)'
    <3>1. \E w, n \in 0 .. MaxThreads : InPlace(w, n)
      BY <1>4, <1>6, WriterIn
    <3>2. PICK w, n \in 0 .. MaxThreads : InPlace(w, n)
      BY <3>1
    <3>3. PICK B : Round(w, n) /\ Placed(n, B)
      BY <3>2 DEF InPlace
    <3> QED BY <1>3, <1>6, <3>3, WriterHas DEF Inv
  <2>4. ASSUME NEW u \in Threads, Working(u)' PROVE Right(u)'
    <3>1. th'[u] = th[u] /\ pc'[u] = pc[u] /\ Working(u)
      BY <2>3, <2>4 DEF Others, Working, Reading
    <3> QED BY <1>2, <1>4, <2>1, <3>1, RightStays
  <2> QED BY <2>2, <2>4
<1>7. CASE WaitRead(t) /\ exitThread
  <2>1. Ending
    BY <1>1, <1>3, <1>7 DEF Tokens, Round
  <2>2. Ending' /\ wr' = wr
    BY <1>1, <1>2, <1>3, <1>7 DEF WaitRead, Round, Tokens
  <2>3. \A u \in Threads : ~ Working(u)'
    BY <2>2 DEF Ending
  <2>4. Bare => Bare'
    BY <1>1, <1>7, WaitReadBare
  <2>5. NeedContinue' <=> NeedContinue
    BY <2>2 DEF NeedContinue
  <2> QED BY <1>4, <2>2, <2>3, <2>4, <2>5
<1>8. CASE ~ Write(t) /\ ~ (WaitRead(t) /\ exitThread)
  <2>1. ~ Ending
    BY <1>1, <1>8, ThreadGoesOn
  <2>2. \E w, n \in 0 .. MaxThreads : InPlace(w, n)
    BY <1>3, <1>4, <2>1 DEF RunKept, AtEnd
  <2>3. \A u \in Threads : Working(u)' => Right(u)'
    BY <1>1, <1>4, <1>5, <1>8, <2>2, ThreadRight
  <2>4. CASE WaitRead(t)
    BY <1>1, <1>4, <2>1, <2>3, <2>4, WaitReadBare
  <2>5. CASE ~ WaitRead(t)
    <3>1. Working(t)
      BY <1>8, <2>5 DEF Thread, ReadNoLink, ReadCross, ReadLink, ParseOverflow, ParseContinue,
         ParseEnd, ParseNew, PreCode, StartNext, StartNone, CodeFails, CodeLink,
         CodeUnprepared, Working, Reading
    <3>2. PICK w, n \in 0 .. MaxThreads : InPlace(w, n)
      BY <2>2
    <3>3. PICK B : Round(w, n) /\ Placed(n, B)
      BY <3>2 DEF InPlace
    <3>4. Worded(t) /\ Right(t) /\ Bare
      BY <1>4, <1>5, <2>1, <3>1
    <3>5. Bare'
      BY <1>1, <1>5, <1>8, <2>5, <3>3, <3>4, StepBare
    <3> QED BY <2>3, <3>5
  <2> QED BY <2>4, <2>5
<1> QED BY <1>6, <1>7, <1>8

-----------------------------------------------------------------------------
(* What is known of the call's answer, from its beginning to its end.      *)
AnswerKnown == FinOK /\ RunRight /\ Shown /\ Left /\ AnswerRight

(* The handle as MtDec_Construct leaves it.                                *)
LEMMA InitAnswers == Init => AnswerKnown
BY DEF Init, AnswerKnown, FinOK, RunRight, Shown, Left, AnswerRight, Rd0

(* A new call: nothing was read, and nobody works.                         *)
LEMMA CallAnswers ==
  ASSUME Inv, Inv', Handed, Words, Words', AnswerKnown, Call
  PROVE  AnswerKnown'
<1>1. /\ Shape /\ Shape' /\ Tokens /\ mainPc = "idle" /\ mainPc' \in {"run", "prepare"}
      /\ rd'.pos = 0 /\ ~ wr'.interrupted /\ FinOK' /\ InputOK' /\ RdOK'
      /\ mainPc' = "run" => /\ pc' = [pc EXCEPT ![0] = "wait_read"]
                            /\ canWrite' = [canWrite EXCEPT ![0] = TRUE]
      /\ wr'.inProcessed = 0
  <2>1. FinOK'
    BY FinKept DEF AnswerKnown, Next, Main
  <2> QED BY <2>1 DEF Call, Rd0, Wr0, Inv, Control
<1>2. ASSUME mainPc' = "run"
      PROVE  ~ Ending' /\ \A t \in Threads : ~ Working(t)'
  <2>1. 0 \in Threads
    BY ThreadZero
  <2>2. canWrite'[0]
    BY <1>1, <1>2, <2>1 DEF Shape
  <2>3. \A t \in Threads : ~ Working(t)'
    BY <1>1, <1>2, <2>1 DEF Tokens, Shape, Working, Reading
  <2> QED BY <2>1, <2>2, <2>3 DEF Ending
<1>3. ASSUME mainPc' = "run", Continues' PROVE Bare'
  <2>1. TextAt(wr.inProcessed)'
    BY <1>2, <1>3 DEF Words, RunText
  <2>2. TextAt(rd.pos)'
    BY <1>1, <2>1
  <2> QED BY <2>2 DEF Bare
<1>4. RunRight'
  BY <1>2, <1>3 DEF RunRight
<1>5. Shown'
  BY <1>1, <1>2 DEF Shown, Over
<1>6. Left' /\ AnswerRight'
  BY <1>1, CallLeft DEF AnswerRight
<1> QED BY <1>1, <1>4, <1>5, <1>6 DEF AnswerKnown

(* MtDec_Code answers, or leaves to the other decoder what is left.        *)
LEMMA CodeReturnsLeft ==
  ASSUME Inv, Handed, Words, AnswerKnown, CodeReturns
  PROVE  Left' /\ AnswerRight'
<1>1. /\ mainPc = "run" /\ pc[0] = "none" /\ UNCHANGED <<input, rd, wr, sync, out>>
      /\ Tokens /\ InputOK /\ Told /\ rd.res \in {OK, "READ"} /\ sync.res \in {OK, "PROGRESS"}
      /\ mainPc' \in {"idle", "prepare"} /\ input.threads # 1
  BY DEF CodeReturns, Return, Inv, Control, RdOK, SyncOK, Words, Handed
<1>2. Ending /\ \A t \in Threads : ~ Working(t)
  BY <1>1 DEF Tokens, Round, Ending
<1>3. CASE sync.res = OK /\ NeedContinue /\ mainPc' = "prepare"
  <2>1. Bare
    BY <1>1, <1>3 DEF AnswerKnown, RunRight, Continues
  <2>2. ASSUME wr.numFilled = 0, rd.cross = << >> PROVE Dried
    <3>1. TextAt(rd.pos) \/ AtLimit
      BY <1>2, <2>1, <2>2 DEF Bare, Empty
    <3>2. rd.finished => rd.res # OK \/ rd.pos = Len(input.bytes)
      BY DEF AnswerKnown, FinOK
    <3> QED BY <3>1, <3>2 DEF Dried, AllThere
  <2>3. Dried => Dried'
    BY <1>1, DriedStays
  <2> QED BY <1>1, <1>3, <2>2, <2>3 DEF Left, AnswerRight
<1>4. CASE sync.res # OK /\ Return(sync.res)
  BY <1>1, <1>4 DEF Return, Left, AnswerRight, OK
<1>5. CASE sync.res = OK /\ ~ NeedContinue /\ Return(rd.res)
  <2>1. /\ mainPc' = "idle" /\ result' = rd.res /\ ~ NeedContinue' /\ input'.threads # 1
        /\ (SoundInput' <=> SoundInput) /\ Full' = Full
    BY <1>1, <1>5 DEF Return, NeedContinue, SoundInput, Full
  <2>2. ASSUME rd.res = OK, ~ out.failed, SoundInput PROVE out.bytes = Full
    <3>1. Covered
      BY <1>1, <1>2, <1>5 DEF AnswerKnown, Shown, Over
    <3>2. PICK e \in Nat : EndsAt(e)
      BY <1>1, <2>2, SoundEnds
    <3>3. Len(Full) = Outputs(e)
      BY <1>1, <3>2, EndIsSound
    <3>4. Outputs(e) <= Len(out.bytes)
      BY <2>2, <3>1, <3>2 DEF Covered
    <3>5. WritesInOrder
      BY <1>1, ToldInOrder
    <3>6. IsSeq(Full) /\ Len(Full) \in Nat /\ Len(out.bytes) \in Nat
      <4>1. IsSeq(out.bytes)
        BY <1>1 DEF Told
      <4> QED BY <1>1, <4>1, FullIs, SeqItems
    <3>7. Len(out.bytes) = Len(Full)
      BY <3>3, <3>4, <3>5, <3>6 DEF WritesInOrder
    <3>8. FirstBytes(Full, Len(Full)) = Full
      BY <3>6, FirstIsAll
    <3> QED BY <3>5, <3>7, <3>8 DEF WritesInOrder
  <2>3. AnswerRight'
    BY <1>1, <2>1, <2>2 DEF AnswerRight
  <2> QED BY <2>1, <2>3 DEF Left
<1> QED BY <1>3, <1>4, <1>5 DEF CodeReturns

(* Every step keeps what is known of the answer.                           *)
LEMMA NextAnswers == Inv /\ Handed /\ Words /\ AnswerKnown /\ [Next]_vars => AnswerKnown'
<1> SUFFICES ASSUME Inv, Handed, Words, AnswerKnown, [Next]_vars PROVE AnswerKnown'
  OBVIOUS
<1>1. Inv' /\ Handed' /\ Words' /\ FinOK'
  BY NextInv, NextHanded, NextWords, FinKept DEF AnswerKnown
<1>2. /\ Shape /\ Tokens /\ InputOK /\ RunKept /\ RunText /\ Told /\ StText /\ Told'
      /\ FinOK /\ RunRight /\ Shown /\ Left /\ AnswerRight
  BY <1>1 DEF Inv, Control, Words, Handed, AnswerKnown
<1>3. ASSUME mainPc' # "run", Left', AnswerRight' PROVE AnswerKnown'
  BY <1>1, <1>3 DEF AnswerKnown, RunRight, Shown
<1>4. CASE Call
  BY <1>1, <1>4, CallAnswers
<1>5. CASE CodeReturns
  <2>1. mainPc' # "run"
    BY <1>5 DEF CodeReturns, Return
  <2> QED BY <1>3, <1>5, <2>1, CodeReturnsLeft
<1>6. CASE Prepare
  <2>1. mainPc' = "read" \/ (mainPc' = "idle" /\ result' = "MEM")
    BY <1>6 DEF Prepare, Return
  <2>2. AnswerRight'
    BY <2>1 DEF AnswerRight, OK
  <2> QED BY <1>2, <1>3, <1>6, <2>1, <2>2, PrepareLeft
<1>7. CASE MtDec_Read
  <2>1. mainPc' \in {"read", "decode"}
    BY <1>7 DEF MtDec_Read, Served
  <2> QED BY <1>2, <1>3, <1>7, <2>1, MtDec_ReadLeft DEF AnswerRight
<1>8. CASE StRead
  <2>1. mainPc' = "decode"
    BY <1>8 DEF StRead
  <2> QED BY <1>2, <1>3, <1>8, <2>1, StReadLeft DEF AnswerRight
<1>9. CASE StDecode
  <2>1. mainPc' # "run"
    BY <1>9 DEF StDecode, Return
  <2> QED BY <1>2, <1>3, <1>9, <2>1, StDecodeLeft
<1>10. CASE Destroy
  <2>1. mainPc' \in {"destroy", "end"}
    BY <1>10 DEF Destroy
  <2> QED BY <1>3, <2>1 DEF Left, AnswerRight
<1>11. CASE \E t \in Threads : Thread(t)
  <2>1. PICK t \in Threads : Thread(t)
    BY <1>11
  <2>2. mainPc' = mainPc
    BY <2>1 DEF Thread, WaitRead, ReadNoLink, ReadCross, ReadLink, ParseOverflow, ParseContinue,
         ParseEnd, ParseNew, StoreParsed, PreCode, StartNext, StartNone, CodeFails, CodeLink,
         CodeUnprepared, Write, caller
  <2>3. mainPc' \notin {"idle", "prepare", "read", "decode"}
    <3>1. CASE WaitRead(t) /\ exitThread
      BY <1>2, <2>2, <3>1 DEF WaitRead, Tokens
    <3>2. CASE ~ (WaitRead(t) /\ exitThread)
      BY <1>2, <2>1, <2>2, <3>2, ThreadRuns
    <3> QED BY <3>1, <3>2
  <2>4. RunRight' /\ Shown'
    BY <1>1, <1>2, <2>1, ThreadKeepsRight, ThreadShown
  <2> QED BY <1>1, <2>3, <2>4 DEF AnswerKnown, Left, AnswerRight
<1>12. CASE UNCHANGED vars
  <2>1. UNCHANGED <<input, rd, wr, sync, exitThread, pc, th, st, out, mainPc, canRead, canWrite,
                    result, calls>>
    BY <1>12 DEF vars
  <2>2. Left'
    <3>1. (Dried => Dried') /\ (AllThere => AllThere')
      BY <2>1, DriedStays, AllStays
    <3> QED BY <1>2, <2>1, <3>1 DEF Left
  <2>3. AnswerRight'
    BY <1>2, <2>1 DEF AnswerRight, SoundInput, Full, NeedContinue
  <2>4. /\ (Continues' <=> Continues) /\ (Ending' <=> Ending)
        /\ (NeedContinue' <=> NeedContinue) /\ \A t \in Threads : (Working(t)' <=> Working(t))
    <3>1. \A t \in Threads : (Working(t)' <=> Working(t))
      BY <2>1 DEF Working, Reading
    <3>2. (Continues' <=> Continues) /\ (NeedContinue' <=> NeedContinue)
      BY <2>1 DEF Continues, NeedContinue
    <3>3. Ending <=> Ending'
      BY <2>1, <3>1 DEF Ending
    <3> QED BY <3>1, <3>2, <3>3
  <2>5. Shown'
    BY <1>2, <2>1, <2>4, CoveredStays DEF Shown, Over
  <2>6. RunRight'
    <3>1. \A t \in Threads : Right(t) => Right(t)'
      BY <2>1, RightStays
    <3>2. Bare => Bare'
      <4>1. Empty' <=> Empty
        BY <2>1, <2>4 DEF Empty
      <4> QED BY <2>1, <4>1, BareStays
    <3> QED BY <1>2, <2>1, <2>4, <3>1, <3>2 DEF RunRight
  <2> QED BY <1>1, <2>2, <2>3, <2>5, <2>6 DEF AnswerKnown
<1> QED BY <1>4, <1>5, <1>6, <1>7, <1>8, <1>9, <1>10, <1>11, <1>12 DEF Next, Main, Done

(* Whatever the input, the number of threads and the sizes of blocks and   *)
(* buffers, whichever callback, allocation or thread start fails, and      *)
(* however the threads interleave: Lzma2DecMt_Decode answers a sound input *)
(* with SZ_OK, and then its whole output was written unless a write failed *)
(* (MtDec_Code forgets that), or with a failure of the surroundings; and   *)
(* where one thread decoded to the end, SZ_OK means that the input is      *)
(* sound.                                                                  *)
THEOREM AnswersAreRight == Spec => []AnswerRight
<1>1. Init => Inv /\ Handed /\ Words /\ AnswerKnown
  BY InitInv, InitHanded, InitWords, InitAnswers
<1>2. (Inv /\ Handed /\ Words /\ AnswerKnown) /\ [Next]_vars => (Inv /\ Handed /\ Words /\ AnswerKnown)'
  BY NextInv, NextHanded, NextWords, NextAnswers
<1>3. Inv /\ Handed /\ Words /\ AnswerKnown => AnswerRight
  BY DEF AnswerKnown
<1> QED BY <1>1, <1>2, <1>3, PTL DEF Spec
=============================================================================
