------------------------------- MODULE BaseURL -------------------------------
(***************************************************************************)
(* pkg/baseurl, and the octets that text is made of.  Of a base URL the       *)
(* module has what follows "://".                                            *)
(***************************************************************************)
EXTENDS Integers, Sequences, SequencesExt

CONSTANT maxKeyID       \* 32

ASSUME BaseURLAssumption == maxKeyID \in Nat

Octets == 0..255

Percent == 37
Slash == 47
Space == 32

\* unicode.IsSpace, in UTF-8.
Spaces ==
    {<<c>> : c \in 9..13 \cup {Space}} \cup {<<194, c>> : c \in {133, 160}}
    \cup {<<226, 128, c>> : c \in 128..138 \cup {168, 169, 175}}
    \cup {<<225, 154, 128>>, <<226, 129, 159>>, <<227, 128, 128>>}

isHex(c) == c \in 48..57 \cup 65..70 \cup 97..102

\* strings.TrimRight.
TrimRight(text, c) ==
    LET kept == {i \in DOMAIN text : text[i] # c} IN
    IF kept = {} THEN <<>> ELSE SubSeq(text, 1, Max(kept))

\* Place i is part of a space: in UTF-8 one character never begins in another.
IsBlank(text, i) ==
    \E j \in 1..i : \E k \in i..Len(text) : k <= j + 2 /\ SubSeq(text, j, k) \in Spaces

Visible(text) == {i \in DOMAIN text : ~IsBlank(text, i)}

\* strings.TrimSpace, and what it does to text that does not begin with a space.
TrimSpace(text) ==
    IF Visible(text) = {} THEN <<>> ELSE SubSeq(text, Min(Visible(text)), Max(Visible(text)))

TrimEnd(text) ==
    IF Visible(text) = {} THEN <<>> ELSE SubSeq(text, 1, Max(Visible(text)))

(* url.Parse, in what trimming could change: there is a host, and escapes are  *)
(* whole.  What else it refuses, and Normalize with it, is not looked into.    *)
IsURL(rest) ==
    /\ rest # <<>> /\ Head(rest) # Slash
    /\ \A i \in DOMAIN rest : rest[i] = Percent =>
          i + 2 <= Len(rest) /\ isHex(rest[i + 1]) /\ isHex(rest[i + 2])

\* baseurl.Normalize: spaces go first, and slashes from the end afterwards.
Normalize(rest) == TrimRight(TrimEnd(rest), Slash)

Normalizes(rest) == IsURL(TrimEnd(rest))

\* keyIDPattern, of the form and of the link alike.
IsKeyID(id) ==
    /\ Len(id) \in 1..maxKeyID
    /\ \A i \in DOMAIN id : id[i] \in 48..57 \cup 65..90 \cup 97..122 \cup {46, 95, 45}
=============================================================================
