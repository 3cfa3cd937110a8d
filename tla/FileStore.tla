----------------------------- MODULE FileStore ------------------------------
(***************************************************************************)
(* What the files of a file system promise: each is a sequence of bytes    *)
(* that only the calls on this file change.                                *)
(***************************************************************************)
EXTENDS Integers, Sequences

CONSTANT File

VARIABLE content

(* s, made n bytes long by zeros at the end where it is shorter.           *)
Padded(s, n) == [i \in 1..n |-> IF i <= Len(s) THEN s[i] ELSE 0]

Larger(a, b) == IF a > b THEN a ELSE b

(* s with the bytes from offset on replaced by data.                       *)
Overwritten(s, offset, data) ==
  [i \in 1..Larger(Len(s), offset + Len(data)) |->
     IF i \in offset + 1..offset + Len(data)
       THEN data[i - offset] ELSE Padded(s, Larger(Len(s), i))[i]]

Init == content = [f \in File |-> <<>>]

(* Some of the bytes, from the first one on, are written.                  *)
Write(f, offset, data) ==
  \E n \in 1..Len(data) :
    content' = [content EXCEPT ![f] = Overwritten(@, offset, SubSeq(data, 1, n))]

Grow(f, n) == n > Len(content[f]) /\ content' = [content EXCEPT ![f] = Padded(@, n)]

Clear(f) == content' = [content EXCEPT ![f] = <<>>]
=============================================================================
