----------------------------- MODULE GzipProofs ------------------------------
(***************************************************************************)
(* Proofs about GzipWriter.tla for any threshold, any slices and any       *)
(* number of bytes.  The invariant numbers the bytes through all three     *)
(* places they can be in: what the handler wrote is what is on the wire    *)
(* followed by what is in the buffer.                                      *)
(***************************************************************************)
EXTENDS GzipWriter, SequenceTheorems, TLAPS

Encodings == {"identity", "gzip"}
WireByte == Nat \X Encodings

GzipTypeOK ==
    /\ pc \in {"handler", "finish", "close", "done"}
    /\ panicked \in BOOLEAN
    /\ asked \in Nat
    /\ declared \in Nat \cup {NoLength}
    /\ produced \in Seq(Nat)
    /\ buf \in Seq(Nat)
    /\ started \in BOOLEAN
    /\ gw \in {"nil", "open", "closed"}
    /\ status \in Nat
    /\ headers \in Seq(Nat)
    /\ encoding \in Encodings
    /\ length \in Nat \cup {NoLength}
    /\ wire \in Seq(WireByte)

(* Bytes p were written, w are on the wire and b in the buffer: they are   *)
(* numbered in order, across wire and buffer, and all there if none was    *)
(* lost (which takes a panic).                                             *)
NumberedIn(p, w, b, lost) ==
    /\ p \in Seq(Nat) /\ b \in Seq(Nat) /\ w \in Seq(WireByte)
    /\ \A i \in 1..Len(p) : p[i] = i
    /\ \A i \in 1..Len(w) : w[i] = <<i, "identity">> \/ w[i] = <<i, "gzip">>
    /\ \A i \in 1..Len(b) : b[i] = Len(w) + i
    /\ Len(w) + Len(b) <= Len(p)
    /\ ~lost => Len(w) + Len(b) = Len(p)

Numbered == NumberedIn(produced, wire, buf, panicked)

(* Nothing goes out before the decision; a small response goes out whole   *)
(* when the handler has returned.                                          *)
Decision ==
    /\ gw = "open" => started /\ pc # "done"
    /\ gw # "nil" => LevelValid
    /\ pc \in {"handler", "finish"} => ~panicked
    /\ ~started => encoding = "identity" /\ gw = "nil"
    /\ ~started /\ pc \in {"handler", "finish"} => wire = <<>> /\ headers = <<>>
    /\ ~started /\ pc = "close" /\ panicked => headers = <<>>
    /\ ~started /\ pc \in {"close", "done"} /\ ~panicked
          => buf = <<>> /\ headers # <<>> /\ length = Len(wire)

(* After startGzip, when the level is one that compress/gzip accepts.      *)
Compressing ==
    started => /\ gw # "nil" /\ buf = <<>> /\ headers # <<>>
               /\ encoding = "gzip" /\ length = NoLength

(* The header is sent once; until then the first code asked for is kept.   *)
FirstCodeKept ==
    /\ headers # <<>> => headers = <<IF asked = 0 THEN 200 ELSE asked>> /\ status # 0
    /\ headers = <<>> => status = asked

OneEncoding == ~panicked => \A i \in 1..Len(wire) : wire[i] = <<i, encoding>>

GzipInv ==
    /\ GzipTypeOK
    /\ Numbered
    /\ Decision
    /\ LevelValid => Compressing /\ FirstCodeKept /\ OneEncoding

-----------------------------------------------------------------------------
(* The sequence c continues the numbering of p.                            *)
Follows(c, p) == c \in Seq(Nat) /\ \A i \in 1..Len(c) : c[i] = Len(p) + i

(* Slices of the handler do.                                               *)
LEMMA ChunkFollows ==
  ASSUME NEW n \in Nat, produced \in Seq(Nat)
  PROVE  Follows(Chunk(n), produced) /\ Len(Chunk(n)) = n
<1>1. Len(produced) \in Nat
  BY LenProperties
<1>2. \A i \in 1..n : Len(produced) + i \in Nat
  BY <1>1
<1> QED
  BY <1>2 DEF Chunk, Follows

(* Numbered sequences that follow each other make one.                     *)
LEMMA Continued ==
  ASSUME NEW s \in Seq(Nat), NEW t \in Seq(Nat), NEW k \in Nat,
         \A i \in 1..Len(s) : s[i] = k + i,
         \A i \in 1..Len(t) : t[i] = k + Len(s) + i
  PROVE  /\ s \o t \in Seq(Nat)
         /\ Len(s \o t) = Len(s) + Len(t)
         /\ \A i \in 1..Len(s \o t) : (s \o t)[i] = k + i
  OBVIOUS

(* What is appended to the wire stands behind what was there.              *)
LEMMA ContinuedWire ==
  ASSUME NEW s \in Seq(WireByte), NEW t \in Seq(WireByte)
  PROVE  /\ s \o t \in Seq(WireByte)
         /\ Len(s \o t) = Len(s) + Len(t)
         /\ \A i \in 1..Len(s) : (s \o t)[i] = s[i]
         /\ \A i \in 1..Len(s) + Len(t) : i > Len(s) => (s \o t)[i] = t[i - Len(s)]
  OBVIOUS

(* What the handler has written stays numbered.                            *)
LEMMA Grown ==
  ASSUME NEW p \in Seq(Nat), NEW c, \A i \in 1..Len(p) : p[i] = i, Follows(c, p)
  PROVE  /\ p \o c \in Seq(Nat)
         /\ Len(p \o c) = Len(p) + Len(c)
         /\ \A i \in 1..Len(p \o c) : (p \o c)[i] = i
<1>1. /\ c \in Seq(Nat) /\ 0 \in Nat
      /\ \A i \in 1..Len(p) : p[i] = 0 + i
      /\ \A i \in 1..Len(c) : c[i] = 0 + Len(p) + i
  BY LenProperties DEF Follows
<1> DEFINE q == p \o c
<1>2. /\ q \in Seq(Nat)
      /\ Len(q) = Len(p) + Len(c)
      /\ \A i \in 1..Len(q) : q[i] = 0 + i
  BY <1>1, Continued, Zenon
<1> HIDE DEF q
<1>3. Len(q) \in Nat
  BY <1>2, LenProperties
<1>4. \A i \in 1..Len(q) : q[i] = i
  BY <1>2, <1>3
<1> QED
  BY <1>2, <1>4, Zenon DEF q

(* A slice that is held back.                                              *)
LEMMA Held ==
  ASSUME NEW p, NEW w, NEW b, NEW c, NumberedIn(p, w, b, FALSE), Follows(c, p)
  PROVE  NumberedIn(p \o c, w, b \o c, FALSE)
<1>1. /\ p \in Seq(Nat) /\ b \in Seq(Nat) /\ w \in Seq(WireByte) /\ c \in Seq(Nat)
      /\ Len(p) \in Nat /\ Len(b) \in Nat /\ Len(w) \in Nat /\ Len(c) \in Nat
      /\ Len(w) + Len(b) = Len(p)
  BY LenProperties DEF NumberedIn, Follows
<1> DEFINE q == p \o c
           d == b \o c
<1>2. /\ q \in Seq(Nat) /\ Len(q) = Len(p) + Len(c)
      /\ \A i \in 1..Len(q) : q[i] = i
  BY <1>1, Grown DEF NumberedIn
<1>3. \A i \in 1..Len(c) : c[i] = Len(w) + Len(b) + i
  BY <1>1 DEF Follows
<1>4. \A i \in 1..Len(b) : b[i] = Len(w) + i
  BY DEF NumberedIn
<1>5. /\ d \in Seq(Nat) /\ Len(d) = Len(b) + Len(c)
      /\ \A i \in 1..Len(d) : d[i] = Len(w) + i
  BY <1>1, <1>3, <1>4, Continued, Zenon
<1> HIDE DEF q, d
<1>6. NumberedIn(q, w, d, FALSE)
  <2>1. Len(w) + Len(d) = Len(q) /\ Len(w) + Len(d) <= Len(q)
    <3>1. /\ Len(w) + (Len(b) + Len(c)) = Len(p) + Len(c)
          /\ Len(w) + (Len(b) + Len(c)) <= Len(p) + Len(c)
      <4>1. Len(p) \in Nat /\ Len(b) \in Nat /\ Len(w) \in Nat /\ Len(c) \in Nat
        BY <1>1
      <4>2. Len(w) + Len(b) = Len(p)
        BY <1>1
      <4> QED
        BY <4>1, <4>2
    <3>2. Len(d) = Len(b) + Len(c) /\ Len(q) = Len(p) + Len(c)
      BY <1>2, <1>5
    <3> QED
      BY <3>1, <3>2, Zenon
  <2>2. \A i \in 1..Len(w) : w[i] = <<i, "identity">> \/ w[i] = <<i, "gzip">>
    BY DEF NumberedIn
  <2> QED
    BY <1>1, <1>2, <1>5, <2>1, <2>2, Zenon DEF NumberedIn
<1> QED
  BY <1>6 DEF q, d

(* A slice that is lost.                                                   *)
LEMMA Lost ==
  ASSUME NEW p, NEW w, NEW b, NEW c, NumberedIn(p, w, b, FALSE), Follows(c, p)
  PROVE  NumberedIn(p \o c, w, b, TRUE)
<1>1. /\ p \in Seq(Nat) /\ c \in Seq(Nat)
      /\ Len(p) \in Nat /\ Len(b) \in Nat /\ Len(w) \in Nat /\ Len(c) \in Nat
  BY LenProperties DEF NumberedIn, Follows
<1> DEFINE q == p \o c
<1>2. /\ q \in Seq(Nat) /\ Len(q) = Len(p) + Len(c)
      /\ \A i \in 1..Len(q) : q[i] = i
  BY <1>1, Grown DEF NumberedIn
<1> HIDE DEF q
<1>3. NumberedIn(q, w, b, TRUE)
  <2>1. Len(w) + Len(b) <= Len(q)
    BY <1>1, <1>2 DEF NumberedIn
  <2> QED
    BY <1>2, <2>1, Zenon DEF NumberedIn
<1> QED
  BY <1>3 DEF q

(* The bytes u are the bytes w followed by those of b, numbered on and in the *)
(* encoding e.                                                             *)
Extends(u, w, b, e) ==
  /\ Len(u) = Len(w) + Len(b)
  /\ \A i \in 1..Len(w) : u[i] = w[i]
  /\ \A i \in 1..Len(w) + Len(b) : i > Len(w) => u[i] = <<i, e>>

(* Sending the held bytes keeps the numbering, and extends the wire by them. *)
LEMMA Sent ==
  ASSUME NEW p, NEW w, NEW b, NEW lost \in BOOLEAN, NEW e \in Encodings,
         NumberedIn(p, w, b, lost)
  PROVE  /\ NumberedIn(p, w \o Coded(b, e), <<>>, lost)
         /\ Extends(w \o Coded(b, e), w, b, e)
<1> DEFINE c == Coded(b, e)
           u == w \o c
<1>1. /\ b \in Seq(Nat) /\ w \in Seq(WireByte)
      /\ Len(b) \in Nat /\ Len(w) \in Nat /\ \A i \in 1..Len(b) : b[i] \in Nat
  BY LenProperties, ElementOfSeq DEF NumberedIn
<1>2. /\ c \in Seq(WireByte) /\ Len(c) = Len(b)
      /\ \A i \in 1..Len(b) : c[i] = <<b[i], e>>
  <2>1. \A i \in 1..Len(b) : <<b[i], e>> \in WireByte
    BY <1>1 DEF WireByte
  <2> QED
    BY <1>1, <2>1 DEF Coded
<1> HIDE DEF c
<1>3. /\ u \in Seq(WireByte) /\ Len(u) = Len(w) + Len(b)
      /\ \A i \in 1..Len(w) : u[i] = w[i]
      /\ \A i \in 1..Len(w) + Len(b) : i > Len(w) => u[i] = c[i - Len(w)]
  <2>1. /\ u \in Seq(WireByte) /\ Len(u) = Len(w) + Len(c)
        /\ \A i \in 1..Len(w) : u[i] = w[i]
        /\ \A i \in 1..Len(w) + Len(c) : i > Len(w) => u[i] = c[i - Len(w)]
    BY <1>1, <1>2, ContinuedWire, Zenon
  <2> QED
    BY <1>2, <2>1, Zenon
<1> HIDE DEF u
<1>4. ASSUME NEW i \in 1..Len(w) + Len(b), i > Len(w)
      PROVE  u[i] = <<i, e>>
  <2>1. i - Len(w) \in 1..Len(b) /\ Len(w) + (i - Len(w)) = i
    BY <1>1, <1>4
  <2>2. c[i - Len(w)] = <<i, e>>
    BY <1>2, <2>1 DEF NumberedIn
  <2> QED
    BY <1>1, <1>3, <1>4, <2>2
<1>5. NumberedIn(p, u, <<>>, lost)
  <2>1. \A i \in 1..Len(u) : u[i] = <<i, "identity">> \/ u[i] = <<i, "gzip">>
    <3>1. \A i \in 1..Len(w) : u[i] = <<i, "identity">> \/ u[i] = <<i, "gzip">>
      BY <1>3 DEF NumberedIn
    <3>2. \A i \in 1..Len(u) : i > Len(w) => u[i] = <<i, e>>
      BY <1>3, <1>4
    <3>3. \A i \in 1..Len(u) : i \in 1..Len(w) \/ i > Len(w)
      BY <1>1, <1>3
    <3> QED
      BY <3>1, <3>2, <3>3 DEF Encodings
  <2>2. p \in Seq(Nat) /\ Len(p) \in Nat
    BY LenProperties DEF NumberedIn
  <2> QED
    BY <1>1, <1>3, <2>1, <2>2 DEF NumberedIn
<1>6. Extends(u, w, b, e)
  BY <1>3, <1>4, Zenon DEF Extends
<1> QED
  BY <1>5, <1>6, Zenon DEF u, c

-----------------------------------------------------------------------------
(* The middleware starts in the invariant.                                 *)
LEMMA GzipInit == Init => GzipInv
<1> SUFFICES ASSUME Init PROVE GzipInv
  OBVIOUS
<1>1. \A d \in {NoLength} \cup 0..MaxBytes : d \in Nat \cup {NoLength}
  BY ChunkAssumption
<1>2. declared \in Nat \cup {NoLength} /\ length \in Nat \cup {NoLength}
  BY <1>1 DEF Init
<1>3. GzipTypeOK
  <2>1. produced \in Seq(Nat) /\ buf \in Seq(Nat) /\ headers \in Seq(Nat) /\ wire \in Seq(WireByte)
    BY EmptySeq DEF Init
  <2> QED
    BY <1>2, <2>1 DEF Init, GzipTypeOK, Encodings
<1>4. Numbered
  BY DEF Init, Numbered, NumberedIn
<1> QED
  BY <1>3, <1>4 DEF Init, GzipInv, Decision, Compressing, FirstCodeKept, OneEncoding

(* The handler sets a code, returns or panics.                             *)
LEMMA HandlerInv ==
  ASSUME GzipInv,
         (\E code \in Codes : WriteHeader(code)) \/ HandlerReturn \/ HandlerPanic
  PROVE  GzipInv'
<1>1. ASSUME NEW code \in Codes, WriteHeader(code)
      PROVE  GzipInv'
  <2>1. GzipTypeOK'
    BY <1>1, CodesAssumption DEF GzipInv, GzipTypeOK, WriteHeader, FirstCode, wireVars
  <2>2. Numbered' /\ Decision'
    BY <1>1 DEF GzipInv, Numbered, Decision, WriteHeader, wireVars
  <2>3. LevelValid => Compressing' /\ FirstCodeKept' /\ OneEncoding'
    BY <1>1, CodesAssumption
    DEF GzipInv, GzipTypeOK, Compressing, FirstCodeKept, OneEncoding, WriteHeader, FirstCode,
        wireVars
  <2> QED
    BY <2>1, <2>2, <2>3 DEF GzipInv
<1>2. CASE HandlerReturn \/ HandlerPanic
  <2>1. UNCHANGED <<asked, declared, produced, buf, started, gw, status, headers, encoding,
                    length, wire>>
    BY <1>2 DEF HandlerReturn, HandlerPanic, handlerVars, writerVars, wireVars
  <2>2. /\ pc = "handler" /\ ~panicked
        /\ (pc' = "finish" /\ panicked' = panicked) \/ (pc' = "close" /\ panicked' = TRUE)
    BY <1>2 DEF HandlerReturn, HandlerPanic, handlerVars, GzipInv, Decision
  <2>3. GzipTypeOK'
    BY <2>1, <2>2 DEF GzipInv, GzipTypeOK
  <2>4. Numbered'
    BY <2>1, <2>2 DEF GzipInv, Numbered, NumberedIn
  <2>5. Decision' /\ (LevelValid => Compressing' /\ FirstCodeKept' /\ OneEncoding')
    BY <2>1, <2>2 DEF GzipInv, GzipTypeOK, Decision, Compressing, FirstCodeKept, OneEncoding
  <2> QED
    BY <2>3, <2>4, <2>5 DEF GzipInv
<1> QED
  BY <1>1, <1>2

(* A slice of the handler, whatever becomes of it.                         *)
LEMMA Slice ==
  ASSUME GzipInv, NEW n \in ChunkSizes, Produce(n)
  PROVE  /\ n \in Nat /\ ~panicked /\ pc = "handler"
         /\ produced' = produced \o Chunk(n)
         /\ NumberedIn(produced, wire, buf, FALSE)
         /\ Follows(Chunk(n), produced) /\ Len(Chunk(n)) = n
<1>1. n \in Nat
  BY ChunkAssumption
<1>2. ~panicked /\ pc = "handler" /\ produced' = produced \o Chunk(n)
  BY DEF GzipInv, Decision, Produce
<1>3. produced \in Seq(Nat)
  BY DEF GzipInv, GzipTypeOK
<1>4. NumberedIn(produced, wire, buf, FALSE)
  BY <1>2 DEF GzipInv, Numbered, NumberedIn
<1>5. Follows(Chunk(n), produced) /\ Len(Chunk(n)) = n
  BY <1>1, <1>3, ChunkFollows
<1> QED
  BY <1>1, <1>2, <1>4, <1>5

(* Write, below the threshold.                                             *)
LEMMA HeldInv ==
  ASSUME GzipInv, NEW n \in ChunkSizes, WriteHeld(n)
  PROVE  GzipInv'
<1>1. /\ ~panicked /\ pc = "handler" /\ ~started
      /\ produced' = produced \o Chunk(n) /\ buf' = buf \o Chunk(n)
      /\ UNCHANGED <<pc, panicked, asked, declared, started, gw, status, headers,
                     encoding, length, wire>>
  BY Slice DEF WriteHeld, wireVars
<1>2. NumberedIn(produced', wire', buf', FALSE)
  <2>1. NumberedIn(produced \o Chunk(n), wire, buf \o Chunk(n), FALSE)
    BY Slice, Held DEF WriteHeld
  <2> QED
    BY <1>1, <2>1
<1>3. Numbered'
  BY <1>1, <1>2 DEF Numbered, NumberedIn
<1>4. GzipTypeOK'
  BY <1>1, <1>2 DEF GzipInv, GzipTypeOK, NumberedIn
<1>5. Decision' /\ (LevelValid => Compressing' /\ FirstCodeKept' /\ OneEncoding')
  BY <1>1 DEF GzipInv, Decision, Compressing, FirstCodeKept, OneEncoding
<1> QED
  BY <1>3, <1>4, <1>5 DEF GzipInv

(* The code that is sent is the first that was asked for, or 200.          *)
LEMMA CodeSent ==
  ASSUME status \in Nat
  PROVE  /\ Code \in Nat /\ Code # 0
         /\ status = asked => Code = IF asked = 0 THEN 200 ELSE asked
<1>1. CASE status = 0
  BY <1>1 DEF Code
<1>2. CASE status # 0
  BY <1>2 DEF Code
<1> QED
  BY <1>1, <1>2

(* Write at the threshold: header, stream and buffer in one.               *)
LEMMA StartInv ==
  ASSUME GzipInv, NEW n \in ChunkSizes, WriteStart(n)
  PROVE  GzipInv'
<1>1. /\ ~panicked /\ pc = "handler" /\ ~started /\ wire = <<>> /\ headers = <<>>
      /\ produced' = produced \o Chunk(n)
      /\ UNCHANGED <<pc, panicked, asked, declared>>
      /\ started' = TRUE /\ encoding' = "gzip" /\ length' = NoLength
      /\ status' = Code /\ headers' = Append(headers, Code)
  BY Slice DEF WriteStart, LengthRemoved, GzipInv, Decision
<1>2. headers' = <<Code>> /\ headers' # <<>>
  BY <1>1
<1>3. /\ Code \in Nat /\ Code # 0
      /\ status = asked => Code = IF asked = 0 THEN 200 ELSE asked
  BY CodeSent DEF GzipInv, GzipTypeOK
<1>4. LevelValid => FirstCodeKept'
  BY <1>1, <1>2, <1>3 DEF GzipInv, FirstCodeKept
<1>5. NumberedIn(produced \o Chunk(n), wire, buf \o Chunk(n), FALSE)
  BY Slice, Held DEF WriteStart
<1>6. CASE LevelValid
  <2> DEFINE b == buf \o Chunk(n)
             w == wire \o Coded(b, "gzip")
  <2>1. gw' = "open" /\ buf' = <<>> /\ wire' = w
    BY <1>6 DEF WriteStart, Flushed, BufferDrained
  <2>2. /\ NumberedIn(produced', w, <<>>, panicked)
        /\ Len(w) = Len(wire) + Len(b)
        /\ \A i \in 1..Len(wire) : w[i] = wire[i]
        /\ \A i \in 1..Len(wire) + Len(b) : i > Len(wire) => w[i] = <<i, "gzip">>
    <3>1. "gzip" \in Encodings /\ panicked \in BOOLEAN
      BY DEF Encodings, GzipInv, GzipTypeOK
    <3>2. NumberedIn(produced', wire, b, panicked)
      BY <1>1, <1>5 DEF NumberedIn
    <3> QED
      <4>1. NumberedIn(produced', w, <<>>, panicked) /\ Extends(w, wire, b, "gzip")
        BY <3>1, <3>2, Sent, Zenon
      <4> QED
        BY <4>1, Zenon DEF Extends
  <2> HIDE DEF b, w
  <2>3. \A i \in 1..Len(wire') : wire'[i] = <<i, "gzip">>
    <3>1. Len(wire) = 0
      BY <1>1
    <3>2. \A i \in 1..Len(w) : i > Len(wire)
      BY <3>1
    <3> QED
      BY <2>1, <2>2, <3>2, Zenon
  <2>4. NumberedIn(produced', wire', buf', panicked')
    BY <1>1, <2>1, <2>2, Zenon
  <2>5. Numbered'
    BY <2>4 DEF Numbered
  <2>6. GzipTypeOK'
    BY <1>1, <1>2, <1>3, <2>1, <2>4 DEF GzipInv, GzipTypeOK, NumberedIn, Encodings
  <2>7. Decision' /\ Compressing' /\ OneEncoding'
    BY <1>1, <1>2, <1>6, <2>1, <2>3 DEF Decision, Compressing, OneEncoding
  <2> QED
    BY <1>4, <1>6, <2>5, <2>6, <2>7 DEF GzipInv
<1>7. CASE ~LevelValid
  <2>1. buf' = buf \o Chunk(n) /\ UNCHANGED <<gw, wire>>
    BY <1>7 DEF WriteStart
  <2>2. NumberedIn(produced', wire', buf', FALSE)
    BY <1>1, <1>5, <2>1
  <2>3. Numbered'
    BY <1>1, <2>2 DEF Numbered, NumberedIn
  <2>4. GzipTypeOK'
    BY <1>1, <1>2, <1>3, <2>1, <2>2 DEF GzipInv, GzipTypeOK, NumberedIn, Encodings
  <2>5. Decision'
    BY <1>1, <1>7, <2>1 DEF GzipInv, Decision
  <2> QED
    BY <1>7, <2>3, <2>4, <2>5 DEF GzipInv
<1> QED
  BY <1>6, <1>7

(* Write after that, to the gzip writer or to none.                        *)
LEMMA ThroughInv ==
  ASSUME GzipInv, NEW n \in ChunkSizes, WriteThrough(n)
  PROVE  GzipInv'
<1>1. /\ ~panicked /\ pc = "handler" /\ started
      /\ produced' = produced \o Chunk(n)
      /\ UNCHANGED <<asked, declared, buf, started, gw, status, headers, encoding, length>>
  BY Slice DEF WriteThrough, writerVars
<1>2. CASE gw = "open"
  <2> DEFINE c == Chunk(n)
             w == wire \o Coded(c, "gzip")
  <2>1. wire' = w /\ UNCHANGED <<pc, panicked>>
    BY <1>2 DEF WriteThrough
  <2>2. LevelValid /\ buf = <<>> /\ encoding = "gzip"
    BY <1>1, <1>2 DEF GzipInv, Compressing, Decision
  <2>3. NumberedIn(produced', wire, c, FALSE)
    <3>1. NumberedIn(produced \o c, wire, buf \o c, FALSE)
      BY Slice, Held DEF WriteThrough
    <3>2. buf \o c = c
      BY <2>2, Slice, ConcatEmptySeq DEF WriteThrough, Follows
    <3> QED
      BY <1>1, <3>1, <3>2
  <2>4. /\ NumberedIn(produced', w, <<>>, panicked)
        /\ Len(w) = Len(wire) + Len(c)
        /\ \A i \in 1..Len(wire) : w[i] = wire[i]
        /\ \A i \in 1..Len(wire) + Len(c) : i > Len(wire) => w[i] = <<i, "gzip">>
    <3>1. "gzip" \in Encodings /\ panicked \in BOOLEAN
      BY DEF Encodings, GzipInv, GzipTypeOK
    <3>2. NumberedIn(produced', wire, c, panicked)
      BY <1>1, <2>3 DEF NumberedIn
    <3> QED
      <4>1. NumberedIn(produced', w, <<>>, panicked) /\ Extends(w, wire, c, "gzip")
        BY <3>1, <3>2, Sent, Zenon
      <4> QED
        BY <4>1, Zenon DEF Extends
  <2> HIDE DEF c, w
  <2>5. NumberedIn(produced', wire', buf', panicked')
    BY <1>1, <2>1, <2>2, <2>4, Zenon
  <2>6. Numbered'
    BY <2>5 DEF Numbered
  <2>7. GzipTypeOK'
    BY <1>1, <2>1, <2>5 DEF GzipInv, GzipTypeOK, NumberedIn
  <2>8. OneEncoding'
    <3>1. \A i \in 1..Len(wire) : w[i] = <<i, "gzip">>
      BY <1>1, <2>2, <2>4 DEF GzipInv, OneEncoding
    <3>2. \A i \in 1..Len(w) : i \in 1..Len(wire) \/ i > Len(wire)
      <4>1. Len(wire) \in Nat /\ Len(w) \in Nat
        BY <2>3, <2>4, LenProperties DEF NumberedIn
      <4> QED
        BY <4>1
    <3>3. \A i \in 1..Len(w) : w[i] = <<i, "gzip">>
      BY <2>4, <3>1, <3>2, Zenon
    <3> QED
      BY <1>1, <2>1, <2>2, <3>3 DEF OneEncoding
  <2>9. Decision' /\ Compressing' /\ FirstCodeKept'
    BY <1>1, <2>1, <2>2 DEF GzipInv, Decision, Compressing, FirstCodeKept
  <2> QED
    BY <2>6, <2>7, <2>8, <2>9 DEF GzipInv
<1>3. CASE gw # "open"
  <2>1. pc' = "close" /\ panicked' = TRUE /\ UNCHANGED wire
    BY <1>3 DEF WriteThrough
  <2>2. NumberedIn(produced \o Chunk(n), wire, buf, TRUE)
    BY Slice, Lost DEF WriteThrough
  <2>3. Numbered'
    BY <1>1, <2>1, <2>2 DEF Numbered, NumberedIn
  <2>4. GzipTypeOK'
    BY <1>1, <2>1, <2>3 DEF GzipInv, GzipTypeOK, Numbered, NumberedIn
  <2>5. Decision' /\ (LevelValid => Compressing' /\ FirstCodeKept' /\ OneEncoding')
    BY <1>1, <2>1 DEF GzipInv, Decision, Compressing, FirstCodeKept, OneEncoding
  <2> QED
    BY <2>3, <2>4, <2>5 DEF GzipInv
<1> QED
  BY <1>2, <1>3

(* The middleware after the handler: a small response in one piece.        *)
LEMMA FinishInv ==
  ASSUME GzipInv, Finish
  PROVE  GzipInv'
<1>1. /\ pc = "finish" /\ pc' = "close" /\ ~panicked
      /\ UNCHANGED <<panicked, asked, declared, produced, started, gw>>
  BY DEF Finish, handlerVars, GzipInv, Decision
<1>2. CASE started
  <2>1. UNCHANGED <<buf, status, headers, encoding, length, wire>>
    BY <1>2 DEF Finish, wireVars
  <2> QED
    BY <1>1, <1>2, <2>1 DEF GzipInv, GzipTypeOK, Numbered, Decision, Compressing,
                            FirstCodeKept, OneEncoding
<1>3. CASE ~started
  <2> DEFINE w == wire \o Coded(buf, "identity")
  <2>1. /\ status' = Code /\ length' = Len(buf) /\ headers' = Append(headers, Code)
        /\ wire' = w /\ buf' = <<>> /\ encoding' = encoding
    BY <1>3 DEF Finish, BufferDrained
  <2>2. wire = <<>> /\ headers = <<>> /\ encoding = "identity"
    BY <1>1, <1>3 DEF GzipInv, Decision
  <2>3. headers' = <<Code>> /\ headers' # <<>>
    BY <2>1, <2>2
  <2>4. /\ Code \in Nat /\ Code # 0
        /\ status = asked => Code = IF asked = 0 THEN 200 ELSE asked
    BY CodeSent DEF GzipInv, GzipTypeOK
  <2>5. /\ NumberedIn(produced, w, <<>>, panicked)
        /\ Len(w) = Len(wire) + Len(buf)
        /\ \A i \in 1..Len(wire) : w[i] = wire[i]
        /\ \A i \in 1..Len(wire) + Len(buf) : i > Len(wire) => w[i] = <<i, "identity">>
    <3>1. "identity" \in Encodings /\ panicked \in BOOLEAN
      BY DEF Encodings, GzipInv, GzipTypeOK
    <3>2. NumberedIn(produced, wire, buf, panicked)
      BY DEF GzipInv, Numbered
    <3> QED
      <4>1. NumberedIn(produced, w, <<>>, panicked) /\ Extends(w, wire, buf, "identity")
        BY <3>1, <3>2, Sent, Zenon
      <4> QED
        BY <4>1, Zenon DEF Extends
  <2>6. Len(wire) = 0 /\ Len(buf) \in Nat
    BY <2>2, LenProperties DEF GzipInv, GzipTypeOK
  <2> HIDE DEF w
  <2>7. Len(w) = Len(buf) /\ \A i \in 1..Len(w) : w[i] = <<i, "identity">>
    <3>1. Len(w) = Len(buf)
      BY <2>5, <2>6
    <3>2. \A i \in 1..Len(w) : i > Len(wire)
      BY <2>6
    <3> QED
      BY <2>5, <3>1, <3>2, Zenon
  <2>8. Numbered'
    BY <1>1, <2>1, <2>5 DEF Numbered
  <2>9. GzipTypeOK'
    BY <1>1, <2>1, <2>3, <2>4, <2>6, <2>8 DEF GzipInv, GzipTypeOK, Numbered, NumberedIn
  <2>10. Decision'
    BY <1>1, <1>3, <2>1, <2>2, <2>3, <2>7 DEF GzipInv, Decision
  <2>11. LevelValid => Compressing' /\ FirstCodeKept' /\ OneEncoding'
    BY <1>1, <1>3, <2>1, <2>2, <2>3, <2>4, <2>7
    DEF GzipInv, Compressing, FirstCodeKept, OneEncoding
  <2> QED
    BY <2>8, <2>9, <2>10, <2>11 DEF GzipInv
<1> QED
  BY <1>2, <1>3

(* Close: the end of the stream, or what a panic has left in the buffer.   *)
LEMMA CloseInv ==
  ASSUME GzipInv, Close
  PROVE  GzipInv'
<1>1. /\ pc = "close" /\ pc' = "done"
      /\ UNCHANGED <<panicked, asked, declared, produced, started>>
  BY DEF Close, handlerVars
<1>2. CASE started /\ gw # "nil"
  <2>1. gw' = "closed" /\ UNCHANGED <<buf, status, headers, encoding, length, wire>>
    BY <1>2 DEF Close, wireVars
  <2> QED
    BY <1>1, <1>2, <2>1 DEF GzipInv, GzipTypeOK, Numbered, Decision, Compressing,
                            FirstCodeKept, OneEncoding
<1>3. CASE ~(started /\ gw # "nil") /\ buf = <<>>
  <2>1. UNCHANGED <<buf, gw, status, headers, encoding, length, wire>>
    BY <1>3 DEF Close, writerVars, wireVars
  <2> QED
    BY <1>1, <1>3, <2>1 DEF GzipInv, GzipTypeOK, Numbered, Decision, Compressing,
                            FirstCodeKept, OneEncoding
<1>4. CASE ~(started /\ gw # "nil") /\ buf # <<>>
  <2> DEFINE w == wire \o Coded(buf, "identity")
  <2>1. /\ status' = Code /\ headers' = Append(headers, Code)
        /\ wire' = w /\ buf' = <<>> /\ UNCHANGED <<gw, encoding, length>>
    BY <1>4 DEF Close, BufferDrained
  <2>2. /\ ~started => panicked /\ headers = <<>>
        /\ LevelValid => ~started
        /\ gw # "open"
    BY <1>1, <1>4 DEF GzipInv, GzipTypeOK, Decision, Compressing
  <2>3. /\ Code \in Nat /\ Code # 0
        /\ status = asked => Code = IF asked = 0 THEN 200 ELSE asked
    BY CodeSent DEF GzipInv, GzipTypeOK
  <2>4. headers' \in Seq(Nat) /\ headers' # <<>> /\ (headers = <<>> => headers' = <<Code>>)
    <3>1. headers \in Seq(Nat)
      BY DEF GzipInv, GzipTypeOK
    <3>2. headers = <<>> => Append(headers, Code) = <<Code>>
      OBVIOUS
    <3>3. Append(headers, Code) \in Seq(Nat) /\ Append(headers, Code) # <<>>
      BY <2>3, <3>1, AppendProperties, Zenon
    <3> QED
      BY <2>1, <3>2, <3>3
  <2>5. NumberedIn(produced, w, <<>>, panicked)
    <3>1. "identity" \in Encodings /\ panicked \in BOOLEAN
      BY DEF Encodings, GzipInv, GzipTypeOK
    <3>2. NumberedIn(produced, wire, buf, panicked)
      BY DEF GzipInv, Numbered
    <3> QED
      BY <3>1, <3>2, Sent, Zenon
  <2> HIDE DEF w
  <2>6. Numbered'
    BY <1>1, <2>1, <2>5 DEF Numbered
  <2>7. GzipTypeOK'
    BY <1>1, <2>1, <2>3, <2>4, <2>6 DEF GzipInv, GzipTypeOK, Numbered, NumberedIn
  <2>8. Decision'
    BY <1>1, <2>1, <2>2 DEF GzipInv, Decision
  <2>9. LevelValid => Compressing' /\ FirstCodeKept' /\ OneEncoding'
    BY <1>1, <2>1, <2>2, <2>3, <2>4 DEF GzipInv, Compressing, FirstCodeKept, OneEncoding
  <2> QED
    BY <2>6, <2>7, <2>8, <2>9 DEF GzipInv
<1> QED
  BY <1>2, <1>3, <1>4

(* The invariant is inductive.                                             *)
LEMMA GzipStep == GzipInv /\ [Next]_vars => GzipInv'
<1> SUFFICES ASSUME GzipInv, [Next]_vars
             PROVE  GzipInv'
  OBVIOUS
<1>1. CASE UNCHANGED vars
  BY <1>1 DEF vars, handlerVars, writerVars, wireVars, GzipInv, GzipTypeOK, Numbered,
              Decision, Compressing, FirstCodeKept, OneEncoding
<1> QED
  BY <1>1, HandlerInv, HeldInv, StartInv, ThroughInv, FinishInv, CloseInv DEF Next, Done

(* The invariant of the adaptive writer.                                   *)
THEOREM GzipInvariant == Spec => []GzipInv
  BY GzipInit, GzipStep, PTL DEF Spec

-----------------------------------------------------------------------------
(* However the handler ends, and even with a level that compress/gzip      *)
(* refuses, what the client has got is a prefix of what was written.       *)
THEOREM PrefixOnWire == Spec => []WireIsPrefix
<1>1. GzipInv => WireIsPrefix
  <2> SUFFICES ASSUME GzipInv PROVE WireIsPrefix
    OBVIOUS
  <2>1. Len(wire) \in Nat /\ Len(buf) \in Nat /\ Len(produced) \in Nat
    BY LenProperties DEF GzipInv, GzipTypeOK
  <2>2. Len(wire) + Len(buf) <= Len(produced)
    BY DEF GzipInv, Numbered, NumberedIn
  <2>3. Len(wire) <= Len(produced)
    BY <2>1, <2>2
  <2>4. \A i \in 1..Len(wire) : wire[i] = <<i, "identity">> \/ wire[i] = <<i, "gzip">>
    BY DEF GzipInv, Numbered, NumberedIn
  <2>5. \A i \in 1..Len(wire) : wire[i][1] = i
    BY <2>4
  <2>6. pc = "done" => gw # "open"
    BY DEF GzipInv, Decision
  <2> QED
    BY <2>3, <2>5, <2>6 DEF WireIsPrefix
<1> QED
  BY <1>1, GzipInvariant, PTL

(* With a level that compress/gzip accepts the client gets the whole body, *)
(* in the encoding the header names and with no wrong length.              *)
THEOREM BodyArrives == ASSUME LevelValid PROVE Spec => []BodyPreserved
<1>1. GzipInv => BodyPreserved
  <2> SUFFICES ASSUME GzipInv, Complete
               PROVE  /\ wire = Coded(produced, encoding)
                      /\ gw # "open"
                      /\ length # NoLength => encoding = "identity" /\ length = Len(wire)
    BY DEF BodyPreserved
  <2>1. buf = <<>> /\ ~panicked /\ pc = "done"
    BY DEF Complete, GzipInv, Decision, Compressing
  <2>2. /\ wire \in Seq(WireByte) /\ produced \in Seq(Nat) /\ encoding \in Encodings
        /\ Len(wire) \in Nat /\ Len(produced) \in Nat
    BY LenProperties DEF GzipInv, GzipTypeOK
  <2>3. Len(wire) + Len(buf) = Len(produced) /\ Len(buf) = 0
    BY <2>1 DEF GzipInv, Numbered, NumberedIn
  <2>4. Len(wire) = Len(produced)
    BY <2>2, <2>3
  <2>5. \A i \in 1..Len(wire) : wire[i] = <<produced[i], encoding>>
    BY <2>1, <2>4 DEF GzipInv, Numbered, NumberedIn, OneEncoding
  <2>6. wire = Coded(produced, encoding)
    <3>1. wire = [i \in 1..Len(wire) |-> wire[i]]
      BY <2>2
    <3>2. [i \in 1..Len(wire) |-> wire[i]] = [i \in 1..Len(wire) |-> <<produced[i], encoding>>]
      BY <2>5
    <3> QED
      BY <2>4, <3>1, <3>2 DEF Coded
  <2>7. length # NoLength => encoding = "identity" /\ length = Len(wire)
    BY <2>1 DEF GzipInv, Compressing, Decision
  <2> QED
    BY <2>1, <2>6, <2>7 DEF GzipInv, Decision
<1> QED
  BY <1>1, GzipInvariant, PTL

(* ... under one header, with the first code the handler asked for.        *)
THEOREM OneHeader == ASSUME LevelValid PROVE Spec => []HeaderOnceWithFirstCode
<1>1. GzipInv => HeaderOnceWithFirstCode
  BY DEF GzipInv, Complete, Decision, Compressing, FirstCodeKept, HeaderOnceWithFirstCode
<1> QED
  BY <1>1, GzipInvariant, PTL
=============================================================================
