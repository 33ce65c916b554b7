----------------------------- MODULE MCXzDecMt ------------------------------
(* Files for XzDecMt: made by the encoder, then cut, changed or followed by   *)
(* something else.                                                            *)
EXTENDS XzDecMt, XzEnc

Lzma == [dictSize |-> 16, lc |-> 1, lp |-> 0, pb |-> 1, fb |-> 7]
Props(blockSize, mt, checkId, filters) ==
  [lzma |-> Lzma, checkId |-> checkId, blockSize |-> blockSize, mt |-> mt, sizes |-> FALSE, filters |-> filters]
Delta == <<[id |-> XZ_ID_Delta, props |-> <<1>>]>>
Arm   == <<[id |-> XZ_ID_ARM, props |-> <<>>]>>
Text(n) == [i \in 1 .. n |-> (((i * i) \div 7) % 3) + 60]
Uneven   == [i \in 1 .. 60 |-> IF i \in 23 .. 42 THEN (i * i * 37 + i * 11) % 251 ELSE i % 2]
Code32  == [i \in 1 .. 18 |-> IF i % 4 = 0 THEN 235 ELSE i % 8]

(* Streams: the bytes the encoder makes, and the data they hold.              *)
Recipes ==
  [three |-> [props |-> Props(8, TRUE, 1, <<>>), data |-> Text(20)],       \* three blocks with their sizes
   sizes |-> [props |-> Props(16, TRUE, 4, Arm), data |-> Code32],         \* two blocks, a filter
   mixed |-> [props |-> Props(0, FALSE, 1, <<>>), data |-> Uneven],         \* packed, stored and packed chunks
   solid |-> [props |-> Props(0, FALSE, 10, Delta), data |-> Text(15)],    \* one block without sizes
   bare  |-> [props |-> Props(8, TRUE, 0, <<>>), data |-> Text(9)],        \* no check
   empty |-> [props |-> Props(0, FALSE, 0, <<>>), data |-> <<>>],
   gap   |-> [props |-> Props(0, FALSE, 0, <<>>), data |-> <<>>]]          \* stream padding
Streams ==
  [n \in DOMAIN Recipes |->
     [data |-> Recipes[n].data,
      bytes |-> CASE n = "gap" -> <<0, 0, 0, 0>>
                  [] n = "empty" -> Xz_EncodeEmpty
                  [] OTHER -> Xz_Encode(Recipes[n].props, Recipes[n].data)]]

Job(streams, file) ==
  [file |-> file, data |-> [i \in DOMAIN streams |-> streams[i].data], whole |-> Len(streams), damaged |-> FALSE,
   want |-> <<>>, numThreads |-> 1, inBufSize_ST |-> 64, outStep_ST |-> 64, inBufSize_MT |-> 64, readMax |-> 64,
   memUseMax |-> 1000, ignoreErrors |-> FALSE, outSize |-> NoSize, finishMode |-> FALSE, readLimit |-> 1000,
   writeLimit |-> 1000, allocFails |-> {}]
File(streams) == Seqs!FlattenSeq([i \in DOMAIN streams |-> streams[i].bytes])
Whole(streams) == Job(streams, File(streams))

(* By how many threads, and with the input in how large pieces; each with the *)
(* answer of one call.                                                        *)
Pieces(j, n) == [j EXCEPT !.inBufSize_ST = n, !.outStep_ST = n, !.inBufSize_MT = n, !.readMax = n]
Answered(j) == [j EXCEPT !.want = OneCall(Taken(j.file, Smaller(j.readLimit, Len(j.file))))]
Group(jobs, sizes, threads) ==
  {[Pieces(j, n) EXCEPT !.numThreads = t] : j \in {Answered(k) : k \in jobs}, n \in sizes, t \in threads}

Good(s) == {Whole(f) : f \in {<<s.three>>, <<s.solid>>, <<s.mixed>>, <<s.empty>>, <<s.three, s.gap, s.sizes>>, <<s.three, s.solid>>,
                               <<s.sizes, s.empty, s.bare>>}}
Tight(s) == {[j EXCEPT !.memUseMax = m] : j \in Good(s), m \in {30, 70}}
Failing(s) ==
  UNION {{[j EXCEPT !.allocFails = {1}], [j EXCEPT !.allocFails = {2}], [j EXCEPT !.writeLimit = 11],
          [j EXCEPT !.readLimit = 50], [j EXCEPT !.readLimit = Len(j.file)]} : j \in {Whole(<<s.three>>), Whole(<<s.three, s.solid>>)}}
Partial(s) == {[Whole(f) EXCEPT !.outSize = n, !.finishMode = b] :
                 f \in {<<s.three>>, <<s.solid>>, <<s.three, s.sizes>>}, n \in {0, 7, 8, 15, 20}, b \in BOOLEAN}

(* Anything may follow a good stream; a file may be cut anywhere; and any     *)
(* byte of it may have changed.                                               *)
Garbage == {<<1, 2>>, <<0, 0, 0>>, <<0, 0, 0, 0, 7>>, <<253>>, <<253, 55, 9>>, <<0, 0, 0, 0, 253, 7>>, <<0, 0, 0, 9>>}
Followed(s) == {Job(<<s>>, s.bytes \o g) : g \in Garbage}
Cut(s) == {[Job(<<s>>, Taken(s.bytes, n)) EXCEPT !.whole = 0] : n \in 1 .. Len(s.bytes) - 1}
Padded(s) == {Job(<<s>>, s.bytes \o [i \in 1 .. n |-> 0]) : n \in {1, 2, 3, 4, 8, 12, 16}}
Changed(s, k) == {[Job(<<s>>, [s.bytes EXCEPT ![i] = (@ + k) % 256]) EXCEPT !.damaged = TRUE] : i \in DOMAIN s.bytes}
Ignoring(s) == {[j EXCEPT !.ignoreErrors = TRUE] : j \in Changed(s, 64)}

Groups(s) ==
  {Group(Good(s), {1, 5, 64}, 1 .. 3), Group(Tight(s), {5, 64}, 2 .. 3), Group(Failing(s), {5, 64}, 1 .. 2),
   Group(Partial(s), {5, 64}, 1 .. 2), Group(Followed(s.three), {5, 64}, 1 .. 2), Group(Padded(s.three), {64}, 1 .. 2),
   Group(Cut(s.three), {64}, 1 .. 2), Group(Cut(s.three), {7}, {3}),
   Group(Changed(s.sizes, 1), {64}, 1 .. 2), Group(Cut(s.solid), {64}, {2}), Group(Changed(s.three, 1), {64}, 1 .. 2),
   Group(Changed(s.solid, 128), {64}, {2}), Group(Ignoring(s.bare), {64}, {2})}

MCJobs == UNION Groups(Streams)

BadHeaders(s) == Group(Changed(s.three, 1), {64}, {2})
MCBadHeader == BadHeaders(Streams)
=============================================================================
