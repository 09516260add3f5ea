------------------------------ MODULE StreamProxy ------------------------------
(****************************************************************************)
(* One proxied connection: two io.Copy goroutines between a TCP connection  *)
(* and a yamux stream, and the function that waits for them.  "plain" is    *)
(* proxyBidirectional (server control.go and client tcp.go), "capture" is   *)
(* proxyBidirectionalWithCapture (client http_capture.go), which also       *)
(* counts both directions and keeps a preview of each; "rewrite" is         *)
(* proxyBidirectionalWithHostRewrite (client http_hostheader.go), which     *)
(* waits like it and rewrites the head of the request on its way.           *)
(****************************************************************************)
EXTENDS Naturals, FiniteSets, HostRewrite

CONSTANTS
    MaxBytes,       \* bound: bytes each side sends
    MaxChunk,       \* bound: bytes one read returns
    PreviewLimit,   \* newPreviewCapture(limit)
    MaxHeaderBytes, \* maxHeaderBytes of copyRequestWithHostRewrite
    Streams         \* what a visitor sends through a rewriting tunnel

ASSUME ProxyAssumption ==
    /\ MaxBytes \in Nat /\ MaxChunk \in Nat \ {0}
    /\ PreviewLimit \in Nat /\ MaxHeaderBytes \in Nat
    /\ Streams \subseteq Seq(Tokens \ {"new"})

Dirs == {"request", "response"}

VARIABLES
    kind,       \* "plain", "capture" or "rewrite"
    stream,     \* the bytes of the request direction
    head,       \* "read" while the head is buffered, then "raw" or "rewritten"
    out,        \* what has been written to the upstream
    inflight,   \* direction -> bytes its source has sent and nobody has read
    sent,       \* direction -> bytes its source has sent
    eof,        \* directions whose source has finished sending
    copied,     \* direction -> the count the copy will report
    preview,    \* direction -> bytes kept by previewCapture
    copier,     \* direction -> "run", "ended" (result not sent), "sent"
    results,    \* directions whose result is in the channel
    received,   \* directions whose result was received
    deadline,   \* both connections have an expired deadline
    returned,   \* the function returned; its caller closes both connections
    reported,   \* capture: the counts bytesIn and bytesOut
    ctxDone,
    broken      \* history: a copy failed although there was no deadline

requestVars == <<head, out>>
vars == <<kind, stream, requestVars, inflight, sent, eof, copied, preview, copier, results,
          received, deadline, returned, reported, ctxDone, broken>>

Init ==
    /\ \/ /\ kind \in {"plain", "capture"} /\ head = "raw"
          /\ stream = [i \in 1..MaxBytes |-> "text"]
       \/ kind = "rewrite" /\ head = "read" /\ stream \in Streams
    /\ out = <<>>
    /\ sent = [d \in Dirs |-> IF kind = "rewrite" /\ d = "request" THEN Len(stream) ELSE 0]
    /\ inflight = sent
    /\ eof = {}
    /\ copied = [d \in Dirs |-> 0] /\ preview = [d \in Dirs |-> 0]
    /\ copier = [d \in Dirs |-> "run"]
    /\ results = {} /\ received = {}
    /\ deadline = FALSE /\ returned = FALSE
    /\ reported = [d \in Dirs |-> 0]
    /\ ctxDone = FALSE /\ broken = FALSE

mainVars == <<results, received, deadline, returned, reported>>
sourceVars == <<inflight, sent, eof>>

----------------------------------------------------------------------------
(* The two ends of the connection and the context.                          *)

(* The visitor of a rewriting tunnel has sent its bytes at once: when they  *)
(* arrive is told by the reads.                                             *)
SendLimit(d) == IF d = "request" THEN Len(stream)
                ELSE IF kind = "rewrite" THEN 1 ELSE MaxBytes

SourceSends(d, n) ==
    /\ d \notin eof /\ sent[d] + n <= SendLimit(d)
    /\ inflight' = [inflight EXCEPT ![d] = @ + n]
    /\ sent' = [sent EXCEPT ![d] = @ + n]
    /\ UNCHANGED <<kind, stream, requestVars, eof, copied, preview, copier, mainVars, ctxDone,
                   broken>>

SourceEnds(d) ==
    /\ d \notin eof /\ eof' = eof \cup {d}
    /\ UNCHANGED <<kind, stream, requestVars, inflight, sent, copied, preview, copier, mainVars,
                   ctxDone, broken>>

CtxCancel ==
    /\ ~ctxDone /\ ctxDone' = TRUE
    /\ UNCHANGED <<kind, stream, requestVars, sourceVars, copied, preview, copier, mainVars,
                   broken>>

----------------------------------------------------------------------------
(* The copying goroutines.                                                  *)

MinOf(a, b) == IF a < b THEN a ELSE b

(* Mutant: a chunk is kept whole while there is room.                       *)
KeepWhole(d, n) == IF preview[d] < PreviewLimit THEN preview[d] + n ELSE preview[d]

(* previewCapture.Write keeps what still fits of a chunk of n bytes.        *)
Keep(d, n) ==
    IF preview[d] < PreviewLimit THEN preview[d] + MinOf(n, PreviewLimit - preview[d])
    ELSE preview[d]

Arrived(d) == sent[d] - inflight[d]
NextBytes(n) == SubSeq(stream, Arrived("request") + 1, Arrived("request") + n)

(* The request of a rewriting tunnel is read into a buffer first; after     *)
(* that, and in the other kinds, io.Copy moves the bytes.  previewCapture   *)
(* sees what passes a TeeReader or is read into the buffer.                 *)
Buffering(d) == d = "request" /\ head = "read"
Seen(d, n) ==
    IF kind = "plain" \/ (kind = "rewrite" /\ d = "request" /\ head # "read")
    THEN preview ELSE [preview EXCEPT ![d] = Keep(d, n)]

Copy(d, n) ==
    /\ copier[d] = "run" /\ ~deadline /\ ~Buffering(d)
    /\ n <= inflight[d]
    /\ inflight' = [inflight EXCEPT ![d] = @ - n]
    /\ copied' = [copied EXCEPT ![d] = @ + n]
    /\ preview' = Seen(d, n)
    /\ out' = IF d = "request" THEN out \o NextBytes(n) ELSE out
    /\ UNCHANGED <<kind, stream, head, sent, eof, copier, mainVars, ctxDone, broken>>

CopyEnd(d) == copier' = [copier EXCEPT ![d] = "ended"]

(* A chunk was read, and kept in the preview, but only m bytes of it could  *)
(* be written.                                                              *)
CopyWriteFails(d, n, m) ==
    /\ copier[d] = "run" /\ ~Buffering(d) /\ m < n /\ n <= inflight[d]
    /\ inflight' = [inflight EXCEPT ![d] = @ - n]
    /\ copied' = [copied EXCEPT ![d] = @ + m]
    /\ preview' = Seen(d, n)
    /\ out' = IF d = "request" THEN out \o NextBytes(m) ELSE out
    /\ CopyEnd(d) /\ broken' = (broken \/ ~deadline)
    /\ UNCHANGED <<kind, stream, head, sent, eof, mainVars, ctxDone>>

(* Mutant: the end of the head is looked for in the last chunk only.        *)
HeadOutcomeOfChunk(buf) ==
    IF Len(buf) > MaxHeaderBytes THEN "raw"
    ELSE IF HeadLen(NextBytes(Len(buf) - Arrived("request"))) > 0 THEN "rewritten" ELSE "read"

(* copyRequestWithHostRewrite, given all it has read: a buffer that is too  *)
(* long goes on as it is, a complete head is rewritten, whatever follows it *)
(* in the buffer behind it; else it reads on.                               *)
HeadOutcome(buf) ==
    IF Len(buf) > MaxHeaderBytes THEN "raw"
    ELSE IF HeadLen(buf) > 0 THEN "rewritten" ELSE "read"

(* The heads of all streams, rewritten: a constant, so that TLC works each  *)
(* out once.                                                                *)
RewrittenHead ==
    [s \in {x \in Streams : HeadLen(x) > 0} |-> rewriteHostHeader(HeadOf(s))]

(* Mutant: what the buffer holds behind the head is forgotten.              *)
HeadOutputHeadOnly(buf) ==
    CASE HeadOutcome(buf) = "raw" -> buf
      [] HeadOutcome(buf) = "rewritten" -> RewrittenHead[stream]
      [] OTHER -> <<>>

HeadOutput(buf) ==
    CASE HeadOutcome(buf) = "raw" -> buf
      [] HeadOutcome(buf) = "rewritten" ->
            RewrittenHead[stream] \o SubSeq(buf, HeadLen(buf) + 1, Len(buf))
      [] OTHER -> <<>>

(* One round of its loop; what it writes may fail half way.                 *)
ReadHead(n) ==
    LET buf  == SubSeq(stream, 1, Arrived("request") + n)
        text == HeadOutput(buf)
    IN  /\ copier["request"] = "run" /\ head = "read"
        /\ n <= inflight["request"]
        /\ inflight' = [inflight EXCEPT !["request"] = @ - n]
        /\ copied' = [copied EXCEPT !["request"] = @ + n]
        /\ preview' = Seen("request", n)
        /\ head' = HeadOutcome(buf)
        /\ \/ ~deadline /\ out' = text /\ UNCHANGED <<copier, broken>>
           \/ /\ \E m \in 0..(Len(text) - 1) : out' = SubSeq(text, 1, m)
              /\ CopyEnd("request") /\ broken' = (broken \/ ~deadline)
        /\ UNCHANGED <<kind, stream, sent, eof, mainVars, ctxDone>>

(* What the buffer holds when reading ends goes out as it is.               *)
Flushed(d) == IF Buffering(d) THEN SubSeq(stream, 1, Arrived(d)) ELSE out

CopyReachesEOF(d) ==
    /\ copier[d] = "run" /\ d \in eof /\ inflight[d] = 0
    /\ CopyEnd(d)
    /\ out' = IF deadline THEN out ELSE Flushed(d)
    /\ UNCHANGED <<kind, stream, head, sourceVars, copied, preview, mainVars, ctxDone, broken>>

CopyTimesOut(d) ==
    /\ copier[d] = "run" /\ deadline
    /\ CopyEnd(d)
    /\ UNCHANGED <<kind, stream, requestVars, sourceVars, copied, preview, mainVars, ctxDone,
                   broken>>

CopyBreaks(d) ==
    /\ copier[d] = "run" /\ ~deadline
    /\ CopyEnd(d) /\ broken' = TRUE
    /\ out' \in IF Buffering(d) THEN {SubSeq(stream, 1, m) : m \in 0..Arrived(d)} ELSE {out}
    /\ UNCHANGED <<kind, stream, head, sourceVars, copied, preview, mainVars, ctxDone>>

(* Mutant: room for one result.                                             *)
ChannelCapacityOne == 1

(* The channel has room for both results, so this never blocks.             *)
ChannelCapacity == 2
SendResult(d) ==
    /\ copier[d] = "ended" /\ Cardinality(results) < ChannelCapacity
    /\ copier' = [copier EXCEPT ![d] = "sent"]
    /\ results' = results \cup {d}
    /\ UNCHANGED <<kind, stream, requestVars, sourceVars, copied, preview, received, deadline,
                   returned, reported, ctxDone, broken>>

----------------------------------------------------------------------------
(* The waiting function.                                                    *)

(* The first of the context and the results sets the deadlines that stop    *)
(* the other copy; plain returns at once.                                   *)
OnContext ==
    /\ ~returned /\ ctxDone /\ ~(kind # "plain" /\ deadline)
    /\ deadline' = TRUE
    /\ returned' = (kind = "plain")
    /\ UNCHANGED <<kind, stream, requestVars, sourceVars, copied, preview, copier, results,
                   received, reported, ctxDone, broken>>

(* Mutants: capture returns with the first result; the other copy is not    *)
(* stopped.                                                                 *)
OnResultReturns(d) ==
    /\ ~returned /\ d \in results
    /\ results' = results \ {d} /\ received' = received \cup {d}
    /\ deadline' = TRUE
    /\ reported' = IF kind # "plain" THEN [reported EXCEPT ![d] = copied[d]] ELSE reported
    /\ returned' = TRUE
    /\ UNCHANGED <<kind, stream, requestVars, sourceVars, copied, preview, copier, ctxDone, broken>>
OnResultNoDeadline(d) ==
    /\ ~returned /\ d \in results
    /\ results' = results \ {d} /\ received' = received \cup {d}
    /\ reported' = IF kind # "plain" THEN [reported EXCEPT ![d] = copied[d]] ELSE reported
    /\ returned' = (kind = "plain" \/ received' = Dirs)
    /\ UNCHANGED <<kind, stream, requestVars, sourceVars, copied, preview, copier, deadline,
                   ctxDone, broken>>

(* capture goes on until it has both results.                               *)
OnResult(d) ==
    /\ ~returned /\ d \in results
    /\ results' = results \ {d} /\ received' = received \cup {d}
    /\ deadline' = TRUE
    /\ reported' = IF kind # "plain" THEN [reported EXCEPT ![d] = copied[d]] ELSE reported
    /\ returned' = (kind = "plain" \/ received' = Dirs)
    /\ UNCHANGED <<kind, stream, requestVars, sourceVars, copied, preview, copier, ctxDone, broken>>

Copiers ==
    \/ \E d \in Dirs :
        \/ \E n \in 1..MaxChunk : Copy(d, n)
        \/ CopyReachesEOF(d) \/ CopyTimesOut(d) \/ SendResult(d)
    \/ \E n \in 1..MaxChunk : ReadHead(n)
Main == OnContext \/ \E d \in Dirs : OnResult(d)
Environment ==
    \/ CtxCancel
    \/ \E d \in Dirs : \/ \E n \in 1..MaxChunk : SourceSends(d, n)
                       \/ \E n \in 1..MaxChunk, m \in 0..MaxChunk : CopyWriteFails(d, n, m)
                       \/ SourceEnds(d) \/ CopyBreaks(d)

Next == Copiers \/ Main \/ Environment
Spec == Init /\ [][Next]_vars

(* The goroutines run on; nothing is assumed of the two ends.               *)
Fairness ==
    /\ WF_vars(Main)
    /\ \A d \in Dirs : /\ WF_vars(CopyReachesEOF(d)) /\ WF_vars(CopyTimesOut(d))
                       /\ WF_vars(SendResult(d))
                       /\ WF_vars(\E n \in 1..MaxChunk : Copy(d, n))
    /\ WF_vars(\E n \in 1..MaxChunk : ReadHead(n))
FairSpec == Spec /\ Fairness

----------------------------------------------------------------------------
TypeOK ==
    /\ kind \in {"plain", "capture", "rewrite"}
    /\ stream \in Seq(Tokens) /\ out \in Seq(Tokens) /\ head \in {"read", "raw", "rewritten"}
    /\ inflight \in [Dirs -> Nat] /\ sent \in [Dirs -> Nat]
    /\ copied \in [Dirs -> Nat] /\ preview \in [Dirs -> 0..PreviewLimit] /\ reported \in [Dirs -> Nat]
    /\ eof \subseteq Dirs /\ results \subseteq Dirs /\ received \subseteq Dirs
    /\ copier \in [Dirs -> {"run", "ended", "sent"}]
    /\ deadline \in BOOLEAN /\ returned \in BOOLEAN /\ ctxDone \in BOOLEAN /\ broken \in BOOLEAN

(* The counts and previews the inspector records are final: when            *)
(* proxyBidirectionalWithCapture or ...WithHostRewrite returns neither copy *)
(* can still deliver or count.  A preview is the first PreviewLimit bytes   *)
(* that were read, however the reads were cut into chunks and whatever      *)
(* could not be written; a rewriting tunnel, which captures only while it   *)
(* buffers, still captures the whole head, or of one that is too long the   *)
(* part that was buffered.                                                  *)
CaptureIsFinal ==
    kind # "plain" =>
        /\ \A d \in Dirs : kind = "capture" \/ d = "response" =>
              preview[d] = MinOf(PreviewLimit, Arrived(d))
        /\ kind = "rewrite" =>
              preview["request"] >= MinOf(PreviewLimit,
                  CASE head = "read" -> Arrived("request")
                    [] head = "rewritten" -> HeadLen(stream)
                    [] head = "raw" -> MaxHeaderBytes + 1)
        /\ returned => \A d \in Dirs : copier[d] = "sent" /\ reported[d] = copied[d]

(* The upstream gets what the visitor sent, complete and in order, with     *)
(* only its head rewritten, wherever the reads cut it: at any time a prefix *)
(* of that, and all of it when the visitor ends first and nothing breaks    *)
(* (the buffer of an unfinished head is flushed).                           *)
RequestArrivesWhole ==
    LET whole    == SubSeq(stream, 1, sent["request"])
        expected == IF head = "rewritten"
                    THEN RewrittenHead[stream] \o SubSeq(whole, HeadLen(whole) + 1, Len(whole))
                    ELSE whole
    IN  /\ IsPrefix(out, expected)
        /\ copier["request"] # "run" /\ ~deadline /\ ~broken => out = expected

(* No head reaches the upstream with a Host field of the visitor's, and     *)
(* each has exactly the fields it had besides, if it leaves room for one    *)
(* read in the buffer: a head that fits only without the bytes read behind  *)
(* it is passed on as it is or rewritten, as the reads happen to be cut.    *)
OtherLines(lines) ==
    FlattenSeq([k \in 1..Len(lines) |-> IF IsHost(lines[k]) THEN <<>> ELSE <<lines[k]>>])
HostIsRewritten ==
    kind = "rewrite" /\ HeadLen(out) > 0 /\ HeadLen(stream) + MaxChunk - 1 <= MaxHeaderBytes =>
        LET lines == HeadLines(HeadOf(out))
        IN  /\ \E k \in 2..Len(lines) : lines[k] = NewHost
            /\ \A k \in 2..Len(lines) : IsHost(lines[k]) => lines[k] = NewHost
            /\ OtherLines(lines) = OtherLines(HeadLines(HeadOf(stream)))

(* A connection of which one end has finished, failed, or whose context is  *)
(* cancelled is closed, also when the other end never sends or closes: no   *)
(* proxied connection is held open by a silent peer.                        *)
OneEndClosesBoth ==
    (ctxDone \/ \E d \in Dirs : copier[d] # "run") ~> returned

(* Neither copying goroutine outlives the connection: after the function    *)
(* has returned, both end and neither is left blocked on the result channel.*)
NoCopierLeaks == returned ~> (\A d \in Dirs : copier[d] = "sent")
================================================================================
