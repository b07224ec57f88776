----------------------------- MODULE ByteQueue -----------------------------
(***************************************************************************)
(* What a Buffer promises whoever fills and empties it: a queue of bytes.  *)
(* The k-th byte ever put in is the number k, so that every byte can be    *)
(* told from every other.                                                  *)
(***************************************************************************)
EXTENDS Naturals, Sequences

VARIABLES
    content,   \* the bytes in the queue, oldest first
    given,     \* how many bytes have been put in
    handed     \* the bytes the last operation handed to its caller

bqVars == <<content, given, handed>>

BQInit == content = <<>> /\ given = 0 /\ handed = <<>>

\* Some bytes, or none, are added at the end.
Put ==
    /\ given' \in Nat
    /\ given' >= given
    /\ content' = [i \in 1..(Len(content) + given' - given) |->
                      IF i <= Len(content) THEN content[i]
                      ELSE given + i - Len(content)]
    /\ handed' = <<>>

\* The oldest n bytes leave; they are handed over, or dropped.
Take(n) ==
    /\ content' = [i \in 1..(Len(content) - n) |-> content[n + i]]
    /\ handed' \in {<<>>, [i \in 1..n |-> content[i]]}
    /\ UNCHANGED given

BQNext == Put \/ \E n \in 0..Len(content) : Take(n)

BQSpec == BQInit /\ [][BQNext]_bqVars

=============================================================================
