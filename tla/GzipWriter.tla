----------------------------- MODULE GzipWriter ------------------------------
(***************************************************************************)
(* gzip_middleware.go, the response side: adaptiveGzipWriter holds the     *)
(* body back until Threshold bytes are there, then decides between a plain *)
(* and a compressed response.  A handler is any sequence of WriteHeader    *)
(* and Write calls that ends by returning or by a panic.  Bytes are        *)
(* numbered in the order the handler writes them; on the wire each byte is *)
(* tagged with the way it was sent.                                        *)
(***************************************************************************)
EXTENDS Naturals, Sequences

CONSTANTS
    Threshold,      \* gzip.threshold
    LevelValid,     \* gzip.level is one gzip.NewWriterLevel accepts
    Codes,          \* status codes the handler may set
    ChunkSizes,     \* sizes of the slices it writes
    MaxBytes,       \* bound on the bytes it writes
    NoLength        \* no Content-Length header

ASSUME ThresholdAssumption == Threshold \in Nat
ASSUME LevelAssumption == LevelValid \in BOOLEAN
ASSUME LengthAssumption == NoLength \notin Nat
ASSUME ChunkAssumption == ChunkSizes \subseteq Nat /\ MaxBytes \in Nat
ASSUME CodesAssumption == Codes \subseteq Nat \ {0} /\ 200 \in Codes

VARIABLES
    pc,         \* "handler", "finish" (after next.ServeHTTP), "close", "done"
    panicked,   \* the handler, or Write on its behalf, panicked
    asked,      \* history: the first code the handler set before the header
                \* went out, or 0
    declared,   \* the Content-Length the handler declared, or NoLength
    produced,   \* history: the bytes the handler wrote
    buf,        \* adaptiveGzipWriter.buf
    started,    \* .started
    gw,         \* .gw: "nil", "open", "closed"
    status,     \* .status
    headers,    \* codes passed to the underlying WriteHeader
    encoding,   \* Content-Encoding: "identity" or "gzip"
    length,     \* Content-Length, or NoLength
    wire        \* bytes passed to the underlying Write, with their encoding

handlerVars == <<panicked, asked, declared, produced>>
writerVars == <<buf, started, gw, status>>
wireVars == <<headers, encoding, length, wire>>
vars == <<pc, handlerVars, writerVars, wireVars>>

(* Middleware, for a request that accepts gzip and is not HEAD.            *)
Init ==
    /\ pc = "handler"
    /\ panicked = FALSE
    /\ asked = 0
    /\ declared \in {NoLength} \cup 0..MaxBytes
    /\ produced = <<>>
    /\ buf = <<>>
    /\ started = FALSE
    /\ gw = "nil"
    /\ status = 0
    /\ headers = <<>>
    /\ encoding = "identity"
    /\ length = declared
    /\ wire = <<>>

Coded(bytes, enc) == [i \in 1..Len(bytes) |-> <<bytes[i], enc>>]

Code == IF status = 0 THEN 200 ELSE status

(* Mutation: the buffer is read but not drained.                           *)
BufferKept == buf

(* io.Copy, Write and Reset leave the buffer empty.                        *)
BufferDrained == <<>>

-----------------------------------------------------------------------------
(* Mutation: the last code counts.                                         *)
LastCode(code) == code

FirstCode(code) == IF status = 0 THEN code ELSE status

(* adaptiveGzipWriter.WriteHeader: the first code counts, nothing is sent. *)
WriteHeader(code) ==
    /\ pc = "handler"
    /\ asked' = IF asked = 0 /\ headers = <<>> THEN code ELSE asked
    /\ status' = FirstCode(code)
    /\ UNCHANGED <<pc, panicked, declared, produced, buf, started, gw, wireVars>>

(* The next n bytes of the handler.                                        *)
Chunk(n) == [i \in 1..n |-> Len(produced) + i]

Produce(n) ==
    /\ pc = "handler"
    /\ Len(produced) + n <= MaxBytes
    /\ produced' = produced \o Chunk(n)

(* Write below the threshold: held back.                                   *)
WriteHeld(n) ==
    /\ Produce(n)
    /\ ~started
    /\ Len(buf) + n < Threshold
    /\ buf' = buf \o Chunk(n)
    /\ UNCHANGED <<pc, panicked, asked, declared, started, gw, status, wireVars>>

(* What startGzip and the Write that called it put into the gzip stream.   *)
Flushed(n) == buf \o Chunk(n)

(* Mutation: the handler's Content-Length is not removed.                  *)
LengthKept == length

(* Header().Del("Content-Length").                                         *)
LengthRemoved == NoLength

(* Write at the threshold: startGzip sends the header, creates the gzip    *)
(* writer and flushes the buffer.  An invalid level fails after the header *)
(* has gone out and leaves gw nil and the buffer full.                     *)
WriteStart(n) ==
    /\ Produce(n)
    /\ ~started
    /\ Len(buf) + n >= Threshold
    /\ started' = TRUE
    /\ encoding' = "gzip"
    /\ length' = LengthRemoved
    /\ status' = Code
    /\ headers' = Append(headers, Code)
    /\ IF LevelValid
       THEN /\ gw' = "open"
            /\ wire' = wire \o Coded(Flushed(n), "gzip")
            /\ buf' = BufferDrained
       ELSE /\ buf' = buf \o Chunk(n)
            /\ UNCHANGED <<gw, wire>>
    /\ UNCHANGED <<pc, panicked, asked, declared>>

(* Write after that goes to the gzip writer; a nil one panics.             *)
WriteThrough(n) ==
    /\ Produce(n)
    /\ started
    /\ IF gw = "open"
       THEN /\ wire' = wire \o Coded(Chunk(n), "gzip")
            /\ UNCHANGED <<pc, panicked>>
       ELSE /\ pc' = "close"
            /\ panicked' = TRUE
            /\ UNCHANGED wire
    /\ UNCHANGED <<asked, declared, writerVars, headers, encoding, length>>

(* The handler ends; the deferred Close runs in either case.               *)
HandlerReturn ==
    /\ pc = "handler"
    /\ pc' = "finish"
    /\ UNCHANGED <<handlerVars, writerVars, wireVars>>

HandlerPanic ==
    /\ pc = "handler"
    /\ pc' = "close"
    /\ panicked' = TRUE
    /\ UNCHANGED <<asked, declared, produced, writerVars, wireVars>>

-----------------------------------------------------------------------------
(* Middleware, after the handler: a small response is sent plain, with its *)
(* length; io.Copy drains the buffer.                                      *)
Finish ==
    /\ pc = "finish"
    /\ pc' = "close"
    /\ IF started
       THEN UNCHANGED <<status, buf, wireVars>>
       ELSE /\ status' = Code
            /\ length' = Len(buf)
            /\ headers' = Append(headers, Code)
            /\ wire' = wire \o Coded(buf, "identity")
            /\ buf' = BufferDrained
            /\ UNCHANGED encoding
    /\ UNCHANGED <<handlerVars, started, gw>>

(* adaptiveGzipWriter.Close: ends the gzip stream, or sends what is still  *)
(* in the buffer (the handler panicked, or gzip could not be started).     *)
Close ==
    /\ pc = "close"
    /\ pc' = "done"
    /\ IF started /\ gw # "nil"
       THEN /\ gw' = "closed"
            /\ UNCHANGED <<buf, status, wireVars>>
       ELSE IF buf # <<>>
       THEN /\ status' = Code
            /\ headers' = Append(headers, Code)
            /\ wire' = wire \o Coded(buf, "identity")
            /\ buf' = BufferDrained
            /\ UNCHANGED <<gw, encoding, length>>
       ELSE UNCHANGED <<writerVars, wireVars>>
    /\ UNCHANGED <<handlerVars, started>>

-----------------------------------------------------------------------------
Done == pc = "done" /\ UNCHANGED vars

Next ==
    \/ \E code \in Codes : WriteHeader(code)
    \/ \E n \in ChunkSizes : WriteHeld(n) \/ WriteStart(n) \/ WriteThrough(n)
    \/ HandlerReturn \/ HandlerPanic
    \/ Finish \/ Close
    \/ Done

Spec == Init /\ [][Next]_vars

-----------------------------------------------------------------------------
Complete == pc = "done" /\ ~panicked

(* The client gets the bytes the handler wrote, each once and in order,    *)
(* all of them in the encoding the header names, the gzip stream ended and *)
(* a Content-Length that of the body sent (one the handler declared for    *)
(* its plain body does not survive compression), wherever the slices the   *)
(* handler writes fall relative to the threshold.                          *)
BodyPreserved ==
    Complete => /\ wire = Coded(produced, encoding)
                /\ gw # "open"
                /\ length # NoLength => encoding = "identity" /\ length = Len(wire)

(* The header goes out exactly once, with the first code the handler asked *)
(* for before that (200 when it asked for none), although it is sent late. *)
HeaderOnceWithFirstCode ==
    Complete => headers = <<IF asked = 0 THEN 200 ELSE asked>>

(* However the handler ends, what the client has got so far is a prefix of *)
(* what the handler wrote: bytes are never dropped, repeated or reordered, *)
(* and a gzip stream that was opened is closed before the response writer  *)
(* is given back to net/http.                                              *)
WireIsPrefix ==
    /\ Len(wire) <= Len(produced)
    /\ \A i \in 1..Len(wire) : wire[i][1] = i
    /\ pc = "done" => gw # "open"

=============================================================================
