----------------------------- MODULE HostRewrite -------------------------------
(****************************************************************************)
(* What a client with a --host-header does to the head of a request         *)
(* (internal/client/http_hostheader.go).  Bytes are tokens: the two bytes   *)
(* of a line end, "host" for the text of a Host field, "new" for the text   *)
(* of the field that replaces it, and "text" for any other.                 *)
(****************************************************************************)
EXTENDS Naturals, Sequences, FiniteSets, SequencesExt

CRLF == <<"cr", "lf">>
Tokens == {"cr", "lf", "host", "new", "text"}

(* bytes.Index: the places of a pattern, and the first, 0 if there is none. *)
Places(pat, s) ==
    {i \in 1..(Len(s) - Len(pat) + 1) : SubSeq(s, i, i + Len(pat) - 1) = pat}
FirstPlace(pat, s) ==
    IF Places(pat, s) = {} THEN 0
    ELSE CHOOSE i \in Places(pat, s) : \A j \in Places(pat, s) : i <= j

(* The length of the head of a request, 0 while its end is not there.       *)
HeadLen(s) == LET i == FirstPlace(CRLF \o CRLF, s) IN IF i = 0 THEN 0 ELSE i + 3
HeadOf(s) == SubSeq(s, 1, HeadLen(s))

(* bytes.Split at the line ends: line k runs up to the end that has k - 1   *)
(* before it.                                                               *)
EndsOf(s) == Places(CRLF, s) \cup {Len(s) + 1}
EndOf(s, k) == CHOOSE i \in EndsOf(s) : Cardinality({j \in EndsOf(s) : j < i}) = k - 1
LinesOf(s) ==
    [k \in 1..Cardinality(EndsOf(s)) |->
        SubSeq(s, IF k = 1 THEN 1 ELSE EndOf(s, k - 1) + 2, EndOf(s, k) - 1)]

(* A line is a Host field if it begins like one.                            *)
IsHost(line) == line # <<>> /\ Head(line) \in {"host", "new"}

NewHost == <<"new">>

(* Every Host field is replaced, and one is added when there is none; the   *)
(* first line is the request's.                                             *)
PutHost(lines) ==
    [k \in 1..Len(lines) |-> IF k > 1 /\ IsHost(lines[k]) THEN NewHost ELSE lines[k]]
        \o IF \E k \in 2..Len(lines) : IsHost(lines[k]) THEN <<>> ELSE <<NewHost>>

(* Empty lines between the fields are dropped.                              *)
WriteLines(lines) ==
    FlattenSeq([k \in 1..Len(lines) |->
                   IF k > 1 /\ lines[k] = <<>> THEN <<>> ELSE lines[k] \o CRLF]) \o CRLF

HeadLines(header) == LinesOf(SubSeq(header, 1, Len(header) - 4))
rewriteHostHeader(header) == WriteLines(PutHost(HeadLines(header)))
================================================================================
