------------------------------- MODULE Clamp -------------------------------
(***************************************************************************)
(* Cutting an oversized tool result to max_response_bytes:                 *)
(* internal/proxy/response.go, its loop one content block at a time.       *)
(*                                                                         *)
(* A text is its UTF-8 bytes, and of a byte only what UTF-8 says with it:  *)
(* w for the first byte of a rune w bytes long, 0 for a continuation byte. *)
(* Left out: a nil result; the metadata of blocks, which is copied along.  *)
(***************************************************************************)
EXTENDS Integers, Sequences, SequencesExt

CONSTANTS
  Texts,        \* the texts blocks may have: valid UTF-8, as JSON's are
  Limits,       \* the values of max_response_bytes
  MaxBlocks     \* bound on the blocks of a result

(* utf8.ValidString: every rune is whole, every byte belongs to one. *)
ValidString(s) ==
  \A i \in DOMAIN s :
    IF s[i] > 0
    THEN /\ i + s[i] - 1 <= Len(s)
         /\ \A j \in i + 1 .. i + s[i] - 1 : s[j] = 0
    ELSE \E j \in 1 .. i - 1 : s[j] > 0 /\ j + s[j] - 1 >= i

ASSUME TextsAssumption ==
  /\ Texts \subseteq Seq(0..4) /\ \A s \in Texts : ValidString(s)
  /\ Limits \subseteq Int /\ MaxBlocks \in Nat

NoText == <<>>
Image  == [kind |-> "other", text |-> NoText]
Notice == [kind |-> "notice", text |-> NoText]
Text(s) == [kind |-> "text", text |-> s]

Blocks == {Image} \cup {Text(s) : s \in Texts}

VARIABLES
  content,    \* the backend's content blocks
  isError,    \* its IsError
  maxBytes,   \* the limit
  pc,         \* "start", "loop" or "done"
  i,          \* blocks handled so far
  remaining,  \* what is left of the budget
  clamped,    \* the blocks kept so far; at the end, those of the answer
  outIsError  \* the answer's IsError

input == <<content, isError, maxBytes>>
vars  == <<input, pc, i, remaining, clamped, outIsError>>

Init ==
  /\ \E n \in 0..MaxBlocks : content \in [1..n -> Blocks]
  /\ isError \in BOOLEAN
  /\ maxBytes \in Limits
  /\ pc = "start" /\ i = 0 /\ remaining = maxBytes
  /\ clamped = <<>> /\ outIsError = isError

-----------------------------------------------------------------------------
AllText(blocks) == FlattenSeq([k \in DOMAIN blocks |-> blocks[k].text])

Fits == maxBytes <= 0 \/ Len(AllText(content)) <= maxBytes

(* No limit, or nothing over it: the result itself. *)
PassThrough ==
  /\ pc = "start" /\ Fits
  /\ pc' = "done" /\ clamped' = content
  /\ UNCHANGED <<input, i, remaining, outIsError>>

Begin ==
  /\ pc = "start" /\ ~Fits
  /\ pc' = "loop"
  /\ UNCHANGED <<input, i, remaining, clamped, outIsError>>

(* The first n bytes, less trailing bytes until what is left is valid. *)
TruncateUTF8(s, n) ==
  LET k == CHOOSE k \in 0..n :
             /\ ValidString(SubSeq(s, 1, k))
             /\ \A l \in k + 1 .. n : ~ValidString(SubSeq(s, 1, l))
  IN  SubSeq(s, 1, k)

KeepOther_InBudget(b) ==
  /\ b.kind /= "text"
  /\ clamped' = (IF remaining > 0 THEN Append(clamped, b) ELSE clamped)
  /\ UNCHANGED remaining

(* The loop's body for block b: what it appends, and the budget it leaves. *)
KeepOther(b) ==
  /\ b.kind /= "text"
  /\ clamped' = Append(clamped, b) /\ UNCHANGED remaining

DropText(b) ==
  /\ b.kind = "text" /\ remaining <= 0
  /\ UNCHANGED <<clamped, remaining>>

KeepText(b) ==
  /\ b.kind = "text" /\ remaining > 0 /\ Len(b.text) <= remaining
  /\ clamped' = Append(clamped, b)
  /\ remaining' = remaining - Len(b.text)

CutText_Rest(b) ==
  /\ b.kind = "text" /\ remaining > 0 /\ Len(b.text) > remaining
  /\ clamped' = Append(clamped, Text(TruncateUTF8(b.text, remaining)))
  /\ remaining' = remaining - Len(TruncateUTF8(b.text, remaining))

CutText(b) ==
  /\ b.kind = "text" /\ remaining > 0 /\ Len(b.text) > remaining
  /\ clamped' = Append(clamped, Text(TruncateUTF8(b.text, remaining)))
  /\ remaining' = 0

Block ==
  /\ pc = "loop" /\ i < Len(content)
  /\ i' = i + 1
  /\ LET b == content[i']
     IN  KeepOther(b) \/ DropText(b) \/ KeepText(b) \/ CutText(b)
  /\ UNCHANGED <<input, pc, outIsError>>

(* The notice, and IsError cleared. *)
Finish ==
  /\ pc = "loop" /\ i = Len(content)
  /\ pc' = "done"
  /\ clamped' = Append(clamped, Notice)
  /\ outIsError' = FALSE
  /\ UNCHANGED <<input, i, remaining>>

Next == PassThrough \/ Begin \/ Block \/ Finish

Spec == Init /\ [][Next]_vars

-----------------------------------------------------------------------------
(* What is asked of it. *)

Clamped == pc = "done" /\ ~Fits

(* The answer's text, but for the notice, is a prefix of the result's text *)
(* that stays within the budget, is valid UTF-8, and stops only where the  *)
(* next rune would not have fitted any more - whichever blocks it spans.   *)
(* (clampResponse, truncateUTF8)                                           *)
LongestTextInBudget ==
  Clamped =>
    LET all  == AllText(content)
        kept == AllText(clamped)
    IN  /\ Len(kept) <= maxBytes
        /\ IsStrictPrefix(kept, all) /\ ValidString(kept)
        /\ Len(kept) + all[Len(kept) + 1] > maxBytes

(* A result's blocks that are not text, in order. *)
Others(blocks) ==
  LET upTo[k \in 0..Len(blocks)] ==
        IF k = 0 THEN <<>>
        ELSE IF blocks[k].kind = "text" THEN upTo[k - 1]
        ELSE Append(upTo[k - 1], blocks[k])
  IN  upTo[Len(blocks)]

(* Whatever is not text comes through whole and in its place: with the     *)
(* text blocks taken out, the answer is the result plus the notice at the  *)
(* very end.  ("Left exactly as the backend returned them")                *)
OthersUntouched ==
  pc = "done" =>
    Others(clamped) = Others(content) \o (IF Fits THEN <<>> ELSE <<Notice>>)

(* What response.go:17 says: isError is never set by clamping.             *)
IsErrorUntouched == pc = "done" => outIsError = isError
=============================================================================
