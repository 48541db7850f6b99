------------------------------ MODULE MCNaming ------------------------------
(* Alphabets and lengths for Naming: the characters the functions that read *)
(* a kind of text tell apart.                                               *)
EXTENDS Naming

MCChars ==
    [target |-> {"a", "A", "0", "-", ".", "*", ":", "_", " "},
     name |-> {"a", "-", ".", "*"},
     serial |-> {"a", "A", "0", "1", ":", "-", "+", " "},
     address |-> {"h", "1", ":", "[", "]"}]

MCMaxLength == [target |-> 4, name |-> 7, serial |-> 5, address |-> 6]

\* The addresses x::y with up to three digits.
MCIPs ==
    LET D == {"a", "A", "0"}
        C == {":"}
    IN  (C \X C) \cup (C \X C \X D) \cup (C \X C \X D \X D) \cup (C \X C \X D \X D \X D)
            \cup (D \X C \X C) \cup (D \X C \X C \X D) \cup (D \X C \X C \X D \X D)
            \cup (D \X D \X C \X C) \cup (D \X D \X C \X C \X D) \cup (D \X D \X D \X C \X C)

\* Zeros that lead a group, and groups of zeros beside the ::, are not written.
MCIPString ==
    [t \in MCIPs |->
        LET i == CHOOSE i \in 1 .. Len(t) : t[i] = ":" /\ t[i + 1] = ":"
        IN  ToLower(StripZeros(SubSeq(t, 1, i - 1)) \o <<":", ":">>
                        \o StripZeros(SubSeq(t, i + 2, Len(t))))]

=============================================================================
