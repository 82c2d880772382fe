----------------------------- MODULE LinksProofs -----------------------------
(***************************************************************************)
(* Proofs about Links and Forms, for texts of any length: a link that is read *)
(* and written again is the same link, Redact leaves nothing of its secret,   *)
(* and a form that FromForm accepts is one that verify accepts.  What is said *)
(* of every text is shown by induction: a set of texts that has the empty one *)
(* and, with each, all that are longer by an octet, has them all.             *)
(***************************************************************************)
EXTENDS Links, Forms, SequenceTheorems, WellFoundedInduction, TLAPS

-----------------------------------------------------------------------------
(* Induction, with a set for the property. *)

LEMMA Counting ==
    ASSUME NEW n \in Nat, NEW P, 0 \in P, \A k \in 0..(n - 1) : k \in P => k + 1 \in P
    PROVE  0..n \subseteq P
<1> DEFINE bad == {k \in 0..n : k \notin P}
           less == OpToRel(<, Nat)
<1> SUFFICES ASSUME bad # {} PROVE FALSE
  BY DEF bad
<1>1. bad \subseteq Nat
  OBVIOUS
<1>2. IsWellFoundedOn(less, Nat)
  BY NatLessThanWellFounded
<1>3. \A p, q \in Nat : q < p => <<q, p>> \in less
  BY DEF OpToRel
<1> HIDE DEF less
<1>4. PICK p \in bad : \A q \in bad : ~ (<<q, p>> \in less)
  <2> HIDE DEF bad
  <2> QED
    BY <1>1, <1>2, WFMin
<1>5. p # 0 /\ p - 1 \in 0..(n - 1)
  OBVIOUS
<1>6. p - 1 \in P
  <2>1. <<p - 1, p>> \in less
    BY <1>1, <1>3, <1>4, <1>5
  <2>2. p - 1 \notin bad
    BY <1>4, <2>1
  <2>3. p - 1 \in 0..n
    BY <1>5
  <2> QED
    BY <2>2, <2>3
<1>7. (p - 1) + 1 \in P
  BY <1>5, <1>6
<1> QED
  BY <1>4, <1>7

LEMMA TextInduction ==
    ASSUME NEW S, NEW P, <<>> \in P,
           \A s \in Seq(S), e \in S : s \in P => Append(s, e) \in P
    PROVE  Seq(S) \subseteq P
<1> SUFFICES ASSUME NEW text \in Seq(S) PROVE text \in P
  OBVIOUS
<1> DEFINE n == Len(text)
           Q == {k \in 0..n : \A s \in Seq(S) : Len(s) = k => s \in P}
<1>1. n \in Nat
  BY LenProperties
<1>2. 0 \in Q
  BY <1>1, EmptySeq
<1>3. ASSUME NEW k \in 0..(n - 1), k \in Q PROVE k + 1 \in Q
  <2>1. ASSUME NEW s \in Seq(S), Len(s) = k + 1 PROVE s \in P
    <3>1. s # <<>>
      BY <2>1, EmptySeq
    <3>2. PICK t \in Seq(S), e \in S : s = Append(t, e)
      BY <3>1, SequenceEmptyOrAppend
    <3>3. Len(t) = k
      BY <2>1, <3>2, AppendProperties, LenProperties
    <3> QED
      BY <1>3, <3>2, <3>3
  <2> QED
    BY <1>1, <2>1
<1> HIDE DEF Q
<1>4. 0..n \subseteq Q
  BY <1>1, <1>2, <1>3, Counting
<1> QED
  BY <1>1, <1>4 DEF Q

\* Two runs that start alike and go on alike end alike.
LEMMA SameRun ==
    ASSUME NEW n \in Nat, NEW d, NEW e, d[0] = e[0],
           \A k \in 0..(n - 1) : d[k] = e[k] => d[k + 1] = e[k + 1]
    PROVE  d[n] = e[n]
<1> DEFINE P == {k \in 0..n : d[k] = e[k]}
<1>1. 0 \in P /\ \A k \in 0..(n - 1) : k \in P => k + 1 \in P
  OBVIOUS
<1> HIDE DEF P
<1>2. 0..n \subseteq P
  BY <1>1, Counting
<1> QED
  BY <1>2 DEF P

\* The largest of some numbers.
LEMMA MaxOf ==
    ASSUME NEW n \in Nat, NEW s \in SUBSET (0..n), s # {}
    PROVE  Max(s) \in s /\ \A i \in s : i <= Max(s)
<1> DEFINE P == {k \in 0..n : \A t \in SUBSET (0..k) : t # {} => \E m \in t : \A i \in t : i <= m}
<1>1. 0 \in P
  <2>1. 0..0 = {0} /\ 0 \in 0..n
    OBVIOUS
  <2>2. ASSUME NEW t \in SUBSET (0..0), t # {} PROVE \E m \in t : \A i \in t : i <= m
    <3>1. 0 \in t /\ \A i \in t : i = 0
      BY <2>1, <2>2
    <3> QED
      BY <3>1
  <2> QED
    BY <2>1, <2>2
<1>2. ASSUME NEW k \in 0..(n - 1), k \in P PROVE k + 1 \in P
  <2>1. ASSUME NEW t \in SUBSET (0..(k + 1)), t # {} PROVE \E m \in t : \A i \in t : i <= m
    <3>1. CASE k + 1 \in t
      BY <3>1
    <3>2. CASE k + 1 \notin t
      <4>1. t \in SUBSET (0..k)
        BY <3>2
      <4> QED
        BY <1>2, <2>1, <4>1
    <3> QED
      BY <3>1, <3>2
  <2> QED
    BY <2>1
<1> HIDE DEF P
<1>3. 0..n \subseteq P
  BY <1>1, <1>2, Counting
<1>4. \E m \in s : \A i \in s : i <= m
  BY <1>3 DEF P
<1> QED
  BY <1>4 DEF Max

\* The smallest of some numbers.
LEMMA MinOf ==
    ASSUME NEW s \in SUBSET Nat, s # {}
    PROVE  Min(s) \in s /\ \A i \in s : Min(s) <= i
<1> DEFINE less == OpToRel(<, Nat)
<1>1. IsWellFoundedOn(less, Nat)
  BY NatLessThanWellFounded
<1>2. \A p, q \in Nat : q < p => <<q, p>> \in less
  BY DEF OpToRel
<1> HIDE DEF less
<1>3. PICK m \in s : \A q \in s : ~ (<<q, m>> \in less)
  BY <1>1, WFMin
<1>4. ASSUME NEW i \in s PROVE m <= i
  <2>1. i \in Nat /\ m \in Nat /\ ~(<<i, m>> \in less)
    BY <1>3
  <2>2. ~(i < m)
    BY <1>2, <2>1
  <2> QED
    BY <2>1, <2>2
<1> QED
  BY <1>3, <1>4 DEF Min

-----------------------------------------------------------------------------
(* A fold over a text is a run over its octets, one after another. *)

\* FoldLeft goes over sets of places, and takes the last place of each.
FoldsTo(A, base, text, step, it) ==
    /\ it \in [SUBSET DOMAIN text -> A]
    /\ \A s \in SUBSET DOMAIN text :
          it[s] = IF s = {} THEN base ELSE step[<<it[s \ {Max(s)}], text[Max(s)]>>]

LEMMA FoldExists ==
    ASSUME NEW A, NEW base \in A, NEW C, NEW text \in Seq(C), NEW step \in [A \X C -> A]
    PROVE  \E it : FoldsTo(A, base, text, step, it)
<1> DEFINE n == Len(text)
           Good(k, it) ==
               /\ it \in [SUBSET (1..k) -> A]
               /\ \A s \in SUBSET (1..k) :
                     it[s] = IF s = {} THEN base ELSE step[<<it[s \ {Max(s)}], text[Max(s)]>>]
           P == {k \in 0..n : \E it : Good(k, it)}
<1>1. n \in Nat /\ DOMAIN text = 1..n /\ \A i \in 1..n : text[i] \in C
  BY LenProperties, ElementOfSeq
<1> HIDE DEF n
<1>2. 0 \in P
  <2> DEFINE it == [s \in SUBSET (1..0) |-> base]
  <2>1. 1..0 = {}
    OBVIOUS
  <2>2. \A s \in SUBSET (1..0) : s = {} /\ it[s] = base
    BY <2>1
  <2>3. it \in [SUBSET (1..0) -> A]
    OBVIOUS
  <2>4. Good(0, it)
    BY <2>2, <2>3
  <2> QED
    <3> HIDE DEF it, Good
    <3>1. 0 \in 0..n
      BY <1>1
    <3> QED
      BY <2>4, <3>1
<1>3. ASSUME NEW k \in 0..(n - 1), k \in P PROVE k + 1 \in P
  <2>1. PICK it : Good(k, it)
    BY <1>3
  <2> DEFINE longer == [s \in SUBSET (1..(k + 1)) |->
                          IF k + 1 \in s THEN step[<<it[s \ {k + 1}], text[k + 1]>>] ELSE it[s]]
  <2>2. ASSUME NEW s \in SUBSET (1..(k + 1)), k + 1 \in s
        PROVE  /\ Max(s) = k + 1 /\ s \ {k + 1} \in SUBSET (1..k)
               /\ longer[s] = step[<<it[s \ {k + 1}], text[k + 1]>>] /\ longer[s] \in A
               /\ longer[s \ {k + 1}] = it[s \ {k + 1}]
    <3>1. k + 1 \in Nat /\ s \in SUBSET (0..(k + 1)) /\ s # {}
      BY <1>1, <2>2
    <3>2. Max(s) \in s /\ k + 1 <= Max(s)
      BY <2>2, <3>1, MaxOf
    <3>3. s \ {k + 1} \in SUBSET (1..k) /\ k + 1 \notin s \ {k + 1}
      BY <1>1
    <3>4. text[k + 1] \in C
      BY <1>1
    <3>5. longer[s] = step[<<it[s \ {k + 1}], text[k + 1]>>] /\ longer[s] \in A
      BY <2>1, <2>2, <3>3, <3>4
    <3>6. longer[s \ {k + 1}] = it[s \ {k + 1}]
      BY <3>3
    <3> HIDE DEF longer
    <3>7. Max(s) = k + 1
      <4>1. Max(s) \in 1..(k + 1)
        BY <3>2
      <4>2. k \in Nat
        BY <1>1
      <4> HIDE DEF n
      <4> QED
        BY <3>2, <4>1, <4>2
    <3> QED
      BY <3>7, <3>2, <3>3, <3>5, <3>6
  <2>3. ASSUME NEW s \in SUBSET (1..(k + 1)), k + 1 \notin s
        PROVE  s \in SUBSET (1..k) /\ longer[s] = it[s] /\ longer[s] \in A
    <3>1. s \in SUBSET (1..k)
      BY <1>1, <2>3
    <3> QED
      BY <2>1, <2>3, <3>1
  <2>4. longer \in [SUBSET (1..(k + 1)) -> A]
    BY <2>2, <2>3
  <2>5. ASSUME NEW s \in SUBSET (1..(k + 1))
        PROVE  longer[s] = IF s = {} THEN base
                           ELSE step[<<longer[s \ {Max(s)}], text[Max(s)]>>]
    <3>1. CASE k + 1 \in s
      BY <2>2, <3>1
    <3>2. CASE k + 1 \notin s /\ s # {}
      <4>1. s \in SUBSET (1..k) /\ longer[s] = it[s]
        BY <2>3, <3>2
      <4>2. s \in SUBSET (0..k) /\ k \in Nat
        BY <1>1, <4>1
      <4>3. Max(s) \in s
        BY <3>2, <4>2, MaxOf
      <4>4. s \ {Max(s)} \in SUBSET (1..k) /\ s \ {Max(s)} \in SUBSET (1..(k + 1))
            /\ k + 1 \notin s \ {Max(s)}
        BY <3>2, <4>1
      <4>5. longer[s \ {Max(s)}] = it[s \ {Max(s)}]
        BY <4>4
      <4> QED
        BY <2>1, <3>2, <4>1, <4>5
    <3>3. CASE s = {}
      <4>1. longer[s] = it[s] /\ s \in SUBSET (1..k)
        BY <2>3, <3>3
      <4> QED
        BY <2>1, <3>3, <4>1
    <3> QED
      BY <3>1, <3>2, <3>3
  <2> HIDE DEF longer
  <2>6. Good(k + 1, longer)
    BY <2>4, <2>5
  <2> HIDE DEF Good
  <2> QED
    BY <1>1, <2>6
<1> HIDE DEF P
<1>4. 0..n \subseteq P
  BY <1>1, <1>2, <1>3, Counting
<1>5. n \in P
  BY <1>1, <1>4
<1> QED
  BY <1>1, <1>5 DEF P, FoldsTo

\* Of the places up to k the last is k.
LEMMA LastPlace ==
    ASSUME NEW k \in Nat
    PROVE  Max(1..(k + 1)) = k + 1 /\ (1..(k + 1)) \ {k + 1} = 1..k
<1>1. 1..(k + 1) \in SUBSET (0..(k + 1)) /\ k + 1 \in 1..(k + 1)
  OBVIOUS
<1>2. Max(1..(k + 1)) \in 1..(k + 1) /\ k + 1 <= Max(1..(k + 1))
  <2>1. k + 1 \in Nat /\ k + 1 \in 1..(k + 1)
    OBVIOUS
  <2>2. 1..(k + 1) # {}
    BY <2>1, Zenon
  <2> QED
    BY <1>1, <2>1, <2>2, MaxOf
<1> QED
  BY <1>2
\* The last place of some places of a text.
LEMMA LastOf ==
    ASSUME NEW C, NEW text \in Seq(C), NEW s \in SUBSET DOMAIN text, s # {}
    PROVE  /\ Max(s) \in DOMAIN text /\ text[Max(s)] \in C
           /\ s \ {Max(s)} \in SUBSET DOMAIN text
<1>1. Len(text) \in Nat /\ DOMAIN text = 1..Len(text) /\ s \in SUBSET (0..Len(text))
  BY LenProperties
<1>2. Max(s) \in s
  BY <1>1, MaxOf
<1> QED
  BY <1>1, <1>2, ElementOfSeq

\* A text that is one octet longer has the shorter one at its beginning.
LEMMA OneLonger ==
    ASSUME NEW C, NEW text \in Seq(C), NEW c \in C
    PROVE  /\ Len(text) \in Nat /\ Append(text, c) \in Seq(C)
           /\ Len(Append(text, c)) = Len(text) + 1
           /\ \A k \in 0..(Len(text) - 1) : Append(text, c)[k + 1] = text[k + 1]
           /\ Append(text, c)[Len(text) + 1] = c
<1>1. Len(text) \in Nat
  BY LenProperties
<1>2. \A k \in 0..(Len(text) - 1) : k + 1 \in 1..Len(text)
  BY <1>1
<1> QED
  BY <1>1, <1>2, AppendProperties

LEMMA AppendTwo ==
    ASSUME NEW a, NEW b
    PROVE  Append(<<a>>, b) = <<a, b>> /\ Len(<<a, b>>) = 2
<1> DEFINE S == {a, b}
           s == Append(<<a>>, b)
           t == <<a, b>>
<1>1. <<a>> \in Seq(S) /\ Len(<<a>>) = 1 /\ <<a>>[1] = a
  OBVIOUS
<1>2. t \in Seq(S) /\ Len(t) = 2 /\ t[1] = a /\ t[2] = b
  OBVIOUS
<1>3. /\ s \in Seq(S) /\ Len(s) = Len(<<a>>) + 1
      /\ \A i \in 1..Len(<<a>>) : s[i] = <<a>>[i]
      /\ s[Len(<<a>>) + 1] = b
  BY <1>1, AppendProperties
<1>4. Len(s) = 2 /\ s[1] = a /\ s[2] = b
  BY <1>1, <1>3
<1> HIDE DEF s, t, S
<1>5. s = t
  BY <1>2, <1>3, <1>4, SeqEqual
<1> QED
  BY <1>2, <1>5 DEF s, t

LEMMA AppendThree ==
    ASSUME NEW a, NEW b, NEW c
    PROVE  Append(<<a, b>>, c) = <<a, b, c>> /\ Len(<<a, b, c>>) = 3
<1> DEFINE S == {a, b, c}
           r == <<a, b>>
           s == Append(r, c)
           t == <<a, b, c>>
<1>1. r \in Seq(S) /\ Len(r) = 2 /\ r[1] = a /\ r[2] = b
  OBVIOUS
<1>2. t \in Seq(S) /\ Len(t) = 3 /\ t[1] = a /\ t[2] = b /\ t[3] = c
  OBVIOUS
<1>0. c \in S
  OBVIOUS
<1> HIDE DEF r, t, S
<1>3. /\ s \in Seq(S) /\ Len(s) = Len(r) + 1
      /\ \A i \in 1..Len(r) : s[i] = r[i]
      /\ s[Len(r) + 1] = c
  <2>1. r \in Seq(S)
    BY <1>1
  <2> QED
    BY <1>0, <2>1, AppendProperties
<1>4. Len(s) = 3 /\ s[1] = a /\ s[2] = b /\ s[3] = c
  BY <1>1, <1>3
<1> HIDE DEF s
<1>5. s = t
  BY <1>2, <1>3, <1>4, SeqEqual
<1> QED
  BY <1>2, <1>5 DEF r, s, t

\* And a fourth.
LEMMA AppendFourth ==
    ASSUME NEW S, NEW s \in Seq(S), NEW k \in S, Len(s) = 3
    PROVE  /\ Append(s, k) \in Seq(S) /\ Len(Append(s, k)) = 4 /\ DOMAIN Append(s, k) = 1..4
           /\ Append(s, k)[4] = k /\ \A i \in 1..3 : Append(s, k)[i] = s[i]
<1> DEFINE n == Len(s)
           t == Append(s, k)
<1>1. /\ t \in Seq(S) /\ Len(t) = n + 1 /\ t[n + 1] = k
      /\ \A i \in 1..n : t[i] = s[i]
  <2>1. \A r \in Seq(S) : /\ Append(r, k) \in Seq(S) /\ Len(Append(r, k)) = Len(r) + 1
                           /\ Append(r, k)[Len(r) + 1] = k
                           /\ \A i \in 1..Len(r) : Append(r, k)[i] = r[i]
    BY AppendProperties
  <2> QED
    BY <2>1, Zenon
<1> HIDE DEF t
<1>2. n + 1 = 4 /\ n = 3
  OBVIOUS
<1> HIDE DEF n
<1>3. Len(t) = 4 /\ t[4] = k /\ \A i \in 1..3 : t[i] = s[i]
  BY <1>1, <1>2
<1>4. DOMAIN t = 1..4
  BY <1>1, <1>3, LenProperties
<1> QED
  BY <1>1, <1>3, <1>4 DEF t

-----------------------------------------------------------------------------
(* TakeOctet, octet by octet. *)

Begun == [text |-> <<>>, escape |-> <<>>, ok |-> TRUE]

\* No control character.
Plain(text) == \A i \in DOMAIN text : ~isControl(text[i])

\* What an escape is before its third octet.
HalfEscapes == {<<>>, <<Percent>>} \cup {<<Percent, h>> : h \in {c \in Octets : isHex(c)}}

\* What a field may have come to; if it is not spoilt, its text is plain.
Fielded == {f \in [text : Seq(Octets), escape : HalfEscapes, ok : BOOLEAN] : f.ok => Plain(f.text)}

LEMMA AppendPlain ==
    ASSUME NEW text \in Seq(Octets), NEW c \in Octets
    PROVE  /\ Append(text, c) \in Seq(Octets)
           /\ Plain(text) /\ ~isControl(c) => Plain(Append(text, c))
<1>1. /\ Len(text) \in Nat
      /\ DOMAIN text = 1..Len(text) /\ DOMAIN Append(text, c) = 1..(Len(text) + 1)
  BY LenProperties, AppendProperties
<1>2. \A i \in 1..(Len(text) + 1) :
         Append(text, c)[i] = IF i \in 1..Len(text) THEN text[i] ELSE c
  BY <1>1, AppendProperties
<1>3. Append(text, c) \in Seq(Octets)
  BY AppendProperties
<1> QED
  BY <1>1, <1>2, <1>3 DEF Plain

\* Two hexadecimal digits are an octet.
LEMMA HexTypes ==
    ASSUME NEW c \in Octets, isHex(c)
    PROVE  unhex(c) \in 0..15
BY DEF Octets, isHex, unhex

LEMMA FieldedIs ==
    ASSUME NEW text \in Seq(Octets), NEW escape \in HalfEscapes, NEW ok \in BOOLEAN,
           ok => Plain(text)
    PROVE  [text |-> text, escape |-> escape, ok |-> ok] \in Fielded
BY DEF Fielded

LEMMA TakeOctetTypes ==
    ASSUME NEW f \in Fielded, NEW c \in Octets
    PROVE  TakeOctet(f, c) \in Fielded
<1>1. f \in [text : Seq(Octets), escape : HalfEscapes, ok : BOOLEAN] /\ (f.ok => Plain(f.text))
  BY DEF Fielded
<1>2. CASE f.escape = <<>> /\ c = Percent
  <2>1. TakeOctet(f, c) = [f EXCEPT !.escape = <<c>>]
    BY <1>2 DEF TakeOctet
  <2>2. <<c>> \in HalfEscapes
    BY <1>2 DEF HalfEscapes
  <2> QED
    BY <1>1, <2>1, <2>2 DEF Fielded
<1>3. CASE f.escape = <<>> /\ c # Percent
  <2>1. TakeOctet(f, c) = [f EXCEPT !.text = Append(@, c), !.ok = @ /\ ~isControl(c)]
    BY <1>3 DEF TakeOctet
  <2>2. Append(f.text, c) \in Seq(Octets) /\ (f.ok /\ ~isControl(c) => Plain(Append(f.text, c)))
    BY <1>1, AppendPlain
  <2>3. PICK ok \in BOOLEAN : ok = (f.ok /\ ~isControl(c))
    OBVIOUS
  <2>4. TakeOctet(f, c) = [text |-> Append(f.text, c), escape |-> f.escape, ok |-> ok]
    BY <1>1, <2>1, <2>3
  <2> QED
    BY <1>1, <2>2, <2>3, <2>4, FieldedIs
<1>4. CASE f.escape # <<>> /\ ~isHex(c)
  <2>1. TakeOctet(f, c) = [f EXCEPT !.ok = FALSE]
    BY <1>4 DEF TakeOctet
  <2> QED
    BY <1>1, <2>1 DEF Fielded
<1>5. CASE f.escape = <<Percent>> /\ isHex(c)
  <2>1. Append(f.escape, c) = <<Percent, c>> /\ Len(<<Percent, c>>) = 2
    <3>1. Append(<<Percent>>, c) = <<Percent, c>> /\ Len(<<Percent, c>>) = 2
      BY AppendTwo
    <3> QED
      BY <1>5, <3>1
  <2>2. TakeOctet(f, c) = [f EXCEPT !.escape = <<Percent, c>>]
    BY <1>5, <2>1 DEF TakeOctet
  <2>3. <<Percent, c>> \in HalfEscapes
    BY <1>5 DEF HalfEscapes
  <2> QED
    BY <1>1, <2>2, <2>3 DEF Fielded
<1>6. ASSUME NEW h \in Octets, isHex(h), f.escape = <<Percent, h>>, isHex(c)
      PROVE  TakeOctet(f, c) \in Fielded
  <2> DEFINE octet == 16 * unhex(h) + unhex(c)
  <2>1. Append(f.escape, c) = <<Percent, h, c>> /\ Len(<<Percent, h, c>>) = 3
    <3>1. Append(<<Percent, h>>, c) = <<Percent, h, c>> /\ Len(<<Percent, h, c>>) = 3
      BY AppendThree
    <3> QED
      BY <1>6, <3>1
  <2>2. TakeOctet(f, c) = [text |-> Append(f.text, octet), escape |-> <<>>,
                           ok |-> f.ok /\ ~isControl(octet)]
    BY <1>6, <2>1 DEF TakeOctet
  <2>3. octet \in Octets
    BY <1>6, HexTypes DEF Octets
  <2> HIDE DEF octet
  <2>4. /\ Append(f.text, octet) \in Seq(Octets)
        /\ f.ok /\ ~isControl(octet) => Plain(Append(f.text, octet))
    BY <1>1, <2>3, AppendPlain
  <2>5. <<>> \in HalfEscapes
    BY DEF HalfEscapes
  <2>6. PICK ok \in BOOLEAN : ok = (f.ok /\ ~isControl(octet))
    OBVIOUS
  <2> QED
    BY <2>2, <2>4, <2>5, <2>6, FieldedIs
<1> QED
  BY <1>1, <1>2, <1>3, <1>4, <1>5, <1>6 DEF HalfEscapes

LEMMA DecodeRun ==
    ASSUME NEW text \in Seq(Octets)
    PROVE  \E d : /\ d[0] = Begun
                  /\ \A k \in 0..(Len(text) - 1) : d[k + 1] = TakeOctet(d[k], text[k + 1])
                  /\ Decoded(text) = d[Len(text)] /\ d[Len(text)] \in Fielded
<1> DEFINE step == [p \in Fielded \X Octets |-> TakeOctet(p[1], p[2])]
           Fits(it) == it = [s \in SUBSET DOMAIN text |->
                               IF s = {} THEN Begun ELSE TakeOctet(it[s \ {Max(s)}], text[Max(s)])]
           n == Len(text)
<1>0. n \in Nat /\ DOMAIN text = 1..n
  BY LenProperties
<1>1. Begun \in Fielded
  <2>1. <<>> \in Seq(Octets) /\ Plain(<<>>) /\ <<>> \in HalfEscapes
    BY EmptySeq DEF Plain, HalfEscapes
  <2> QED
    BY <2>1 DEF Begun, Fielded
<1>2. \E it : Fits(it)
  <2>1. step \in [Fielded \X Octets -> Fielded]
    BY TakeOctetTypes
  <2>2. \A f \in Fielded, c \in Octets : step[<<f, c>>] = TakeOctet(f, c)
    OBVIOUS
  <2> HIDE DEF step
  <2>3. PICK it : FoldsTo(Fielded, Begun, text, step, it)
    BY <1>1, <2>1, FoldExists
  <2>4. \A s \in SUBSET DOMAIN text : it[s] = IF s = {} THEN Begun
                                             ELSE TakeOctet(it[s \ {Max(s)}], text[Max(s)])
    BY <2>2, <2>3, LastOf DEF FoldsTo
  <2> QED
    BY <2>3, <2>4 DEF FoldsTo
<1>3. PICK it : Fits(it) /\ Decoded(text) = it[DOMAIN text]
  <2> DEFINE chosen == CHOOSE it : Fits(it)
  <2>1. Decoded(text) = chosen[DOMAIN text]
    BY DEF Decoded, FoldLeft, MapThenFoldSet, Begun
  <2>2. Fits(chosen)
    BY <1>2
  <2> QED
    BY <2>1, <2>2
<1> DEFINE d == [k \in 0..n |-> it[1..k]]
<1>4. d[0] = Begun
  <2>1. 1..0 = {} /\ 0 \in 0..n
    BY <1>0
  <2> QED
    BY <1>3, <2>1
<1>5. ASSUME NEW k \in 0..(n - 1) PROVE d[k + 1] = TakeOctet(d[k], text[k + 1])
  <2>0. k \in Nat /\ k \in 0..n /\ k + 1 \in 0..n /\ k + 1 \in 1..(k + 1)
    BY <1>0
  <2>1. 1..(k + 1) \in SUBSET DOMAIN text /\ 1..(k + 1) # {}
    <3>1. 1..(k + 1) # {}
      BY <2>0, Zenon
    <3>2. 1..(k + 1) \subseteq 1..n
      BY <1>0, <2>0
    <3> QED
      BY <1>0, <3>1, <3>2
  <2>2. Max(1..(k + 1)) = k + 1 /\ (1..(k + 1)) \ {k + 1} = 1..k
    BY <2>0, LastPlace
  <2> QED
    BY <1>3, <2>0, <2>1, <2>2
<1>6. d[n] \in Fielded
  <2> HIDE DEF d
  <2> DEFINE P == {k \in 0..n : d[k] \in Fielded}
  <2>1. 0 \in P
    BY <1>0, <1>1, <1>4
  <2>2. ASSUME NEW k \in 0..(n - 1), k \in P PROVE k + 1 \in P
    <3>1. text[k + 1] \in Octets
      BY <1>0, ElementOfSeq
    <3> QED
      BY <1>0, <1>5, <2>2, <3>1, TakeOctetTypes
  <2> HIDE DEF P
  <2>3. 0..n \subseteq P
    BY <1>0, <2>1, <2>2, Counting
  <2> QED
    BY <1>0, <2>3 DEF P
<1>7. Decoded(text) = d[n]
  BY <1>0, <1>3
<1> HIDE DEF d
<1> QED
  BY <1>4, <1>5, <1>6, <1>7

LEMMA DecodedAppend ==
    ASSUME NEW text \in Seq(Octets), NEW c \in Octets
    PROVE  /\ Decoded(text) \in Fielded
           /\ Decoded(Append(text, c)) = TakeOctet(Decoded(text), c)
<1> DEFINE n == Len(text)
           longer == Append(text, c)
<1>1. /\ n \in Nat /\ longer \in Seq(Octets) /\ Len(longer) = n + 1
      /\ \A k \in 0..(n - 1) : longer[k + 1] = text[k + 1]
      /\ longer[n + 1] = c
  BY OneLonger
<1> HIDE DEF longer
<1>2. PICK d : /\ d[0] = Begun
               /\ \A k \in 0..(n - 1) : d[k + 1] = TakeOctet(d[k], text[k + 1])
               /\ Decoded(text) = d[n] /\ d[n] \in Fielded
  BY DecodeRun
<1>3. PICK e : /\ e[0] = Begun
               /\ \A k \in 0..n : e[k + 1] = TakeOctet(e[k], longer[k + 1])
               /\ Decoded(longer) = e[n + 1]
  <2>1. \A k : k \in 0..((n + 1) - 1) <=> k \in 0..n
    BY <1>1
  <2> QED
    BY <1>1, <2>1, DecodeRun
<1>4. d[n] = e[n]
  <2>1. \A k \in 0..(n - 1) : d[k] = e[k] => d[k + 1] = e[k + 1]
    BY <1>1, <1>2, <1>3
  <2> HIDE DEF n
  <2> QED
    BY <1>1, <1>2, <1>3, <2>1, SameRun
<1> QED
  BY <1>1, <1>2, <1>3, <1>4 DEF longer

LEMMA DecodedNothing == Decoded(<<>>) = Begun
<1>1. <<>> \in Seq(Octets) /\ Len(<<>>) = 0
  BY EmptySeq
<1> QED
  BY <1>1, DecodeRun

-----------------------------------------------------------------------------
(* encodeField, octet by octet. *)

\* What an octet is written as.
Code(c) == IF Literal(c) THEN <<c>> ELSE <<Percent, HexDigit(c \div 16), HexDigit(c % 16)>>

\* One more octet is written.
Written(text, c) == text \o Code(c)

OctetTexts == Seq(Octets)

\* What is written is printable, and no bar.
LEMMA CodeTypes ==
    ASSUME NEW c \in Octets
    PROVE  /\ Code(c) \in Seq(Octets)
           /\ \A i \in DOMAIN Code(c) : Code(c)[i] # Bar
<1>1. CASE Literal(c)
  <2>1. Code(c) = <<c>> /\ c # Bar
    BY <1>1 DEF Code, Literal
  <2> QED
    BY <2>1
<1>2. CASE ~Literal(c)
  <2> DEFINE high == HexDigit(c \div 16)
             low == HexDigit(c % 16)
  <2>1. Code(c) = <<Percent, high, low>>
    BY <1>2 DEF Code
  <2>2. /\ Percent \in Octets /\ Percent # Bar
        /\ high \in Octets /\ high # Bar
        /\ low \in Octets /\ low # Bar
    BY DEF Octets, Percent, Bar, HexDigit
  <2> HIDE DEF high, low
  <2> QED
    BY <2>1, <2>2
<1> QED
  BY <1>1, <1>2

LEMMA EncodeStep ==
    ASSUME NEW text \in OctetTexts, NEW c \in Octets
    PROVE  Written(text, c) \in OctetTexts
BY CodeTypes, ConcatProperties DEF Written, OctetTexts

LEMMA EncodeBegins == <<>> \in OctetTexts
BY EmptySeq DEF OctetTexts

LEMMA EncodeRun ==
    ASSUME NEW text \in Seq(Octets)
    PROVE  \E d : /\ d[0] = <<>>
                  /\ \A k \in 0..(Len(text) - 1) : d[k + 1] = Written(d[k], text[k + 1])
                  /\ encodeField(text) = d[Len(text)] /\ d[Len(text)] \in OctetTexts
<1> DEFINE step == [p \in OctetTexts \X Octets |-> Written(p[1], p[2])]
           Fits(it) == it = [s \in SUBSET DOMAIN text |->
                               IF s = {} THEN <<>> ELSE Written(it[s \ {Max(s)}], text[Max(s)])]
           n == Len(text)
<1>0. n \in Nat /\ DOMAIN text = 1..n
  BY LenProperties
<1>1. <<>> \in OctetTexts
  BY EncodeBegins
<1>2. \E it : Fits(it)
  <2>1. step \in [OctetTexts \X Octets -> OctetTexts]
    BY EncodeStep
  <2>2. \A f \in OctetTexts, c \in Octets : step[<<f, c>>] = Written(f, c)
    OBVIOUS
  <2> HIDE DEF step
  <2>3. PICK it : FoldsTo(OctetTexts, <<>>, text, step, it)
    BY <1>1, <2>1, FoldExists
  <2>4. \A s \in SUBSET DOMAIN text : it[s] = IF s = {} THEN <<>>
                                             ELSE Written(it[s \ {Max(s)}], text[Max(s)])
    BY <2>2, <2>3, LastOf DEF FoldsTo
  <2> QED
    BY <2>3, <2>4 DEF FoldsTo
<1>3. PICK it : Fits(it) /\ encodeField(text) = it[DOMAIN text]
  <2> DEFINE chosen == CHOOSE it : Fits(it)
  <2>1. encodeField(text) = chosen[DOMAIN text]
    BY DEF encodeField, FoldLeft, MapThenFoldSet, Code, Written
  <2>2. Fits(chosen)
    BY <1>2
  <2> QED
    BY <2>1, <2>2
<1> DEFINE d == [k \in 0..n |-> it[1..k]]
<1>4. d[0] = <<>>
  <2>1. 1..0 = {} /\ 0 \in 0..n
    BY <1>0
  <2> QED
    BY <1>3, <2>1
<1>5. ASSUME NEW k \in 0..(n - 1) PROVE d[k + 1] = Written(d[k], text[k + 1])
  <2>0. k \in Nat /\ k \in 0..n /\ k + 1 \in 0..n /\ k + 1 \in 1..(k + 1)
    BY <1>0
  <2>1. 1..(k + 1) \in SUBSET DOMAIN text /\ 1..(k + 1) # {}
    <3>1. 1..(k + 1) # {}
      BY <2>0, Zenon
    <3>2. 1..(k + 1) \subseteq 1..n
      BY <1>0, <2>0
    <3> QED
      BY <1>0, <3>1, <3>2
  <2>2. Max(1..(k + 1)) = k + 1 /\ (1..(k + 1)) \ {k + 1} = 1..k
    BY <2>0, LastPlace
  <2> QED
    BY <1>3, <2>0, <2>1, <2>2
<1>6. d[n] \in OctetTexts
  <2> HIDE DEF d
  <2> DEFINE P == {k \in 0..n : d[k] \in OctetTexts}
  <2>1. 0 \in P
    BY <1>0, <1>1, <1>4
  <2>2. ASSUME NEW k \in 0..(n - 1), k \in P PROVE k + 1 \in P
    <3>1. text[k + 1] \in Octets
      BY <1>0, ElementOfSeq
    <3> QED
      BY <1>0, <1>5, <2>2, <3>1, EncodeStep
  <2> HIDE DEF P
  <2>3. 0..n \subseteq P
    BY <1>0, <2>1, <2>2, Counting
  <2> QED
    BY <1>0, <2>3 DEF P
<1>7. encodeField(text) = d[n]
  BY <1>0, <1>3
<1> HIDE DEF d
<1> QED
  BY <1>4, <1>5, <1>6, <1>7

LEMMA EncodedAppend ==
    ASSUME NEW text \in Seq(Octets), NEW c \in Octets
    PROVE  /\ encodeField(text) \in OctetTexts
           /\ encodeField(Append(text, c)) = Written(encodeField(text), c)
<1> DEFINE n == Len(text)
           longer == Append(text, c)
<1>1. /\ n \in Nat /\ longer \in Seq(Octets) /\ Len(longer) = n + 1
      /\ \A k \in 0..(n - 1) : longer[k + 1] = text[k + 1]
      /\ longer[n + 1] = c
  BY OneLonger
<1> HIDE DEF longer
<1>2. PICK d : /\ d[0] = <<>>
               /\ \A k \in 0..(n - 1) : d[k + 1] = Written(d[k], text[k + 1])
               /\ encodeField(text) = d[n] /\ d[n] \in OctetTexts
  BY EncodeRun
<1>3. PICK e : /\ e[0] = <<>>
               /\ \A k \in 0..n : e[k + 1] = Written(e[k], longer[k + 1])
               /\ encodeField(longer) = e[n + 1]
  <2>1. \A k : k \in 0..((n + 1) - 1) <=> k \in 0..n
    BY <1>1
  <2> QED
    BY <1>1, <2>1, EncodeRun
<1>4. d[n] = e[n]
  <2>1. \A k \in 0..(n - 1) : d[k] = e[k] => d[k + 1] = e[k + 1]
    BY <1>1, <1>2, <1>3
  <2> HIDE DEF n
  <2> QED
    BY <1>1, <1>2, <1>3, <2>1, SameRun
<1> QED
  BY <1>1, <1>2, <1>3, <1>4 DEF longer

LEMMA EncodedNothing == encodeField(<<>>) = <<>>
<1>1. <<>> \in Seq(Octets) /\ Len(<<>>) = 0
  BY EmptySeq
<1> QED
  BY <1>1, EncodeRun

-----------------------------------------------------------------------------
(* Split, octet by octet. *)

\* A bar begins another field; any other octet is one more of the last.
Cut(fields, c) ==
    IF c = Bar THEN Append(fields, <<>>) ELSE [fields EXCEPT ![Len(fields)] = Append(@, c)]

FieldLists == Seq(Seq(Octets)) \ {<<>>}

OneField == <<<<>>>>

LEMMA CutBegins == OneField \in FieldLists
<1>1. <<>> \in Seq(Octets) /\ OneField \in Seq({<<>>}) /\ OneField # <<>>
  BY EmptySeq DEF OneField
<1>2. {<<>>} \subseteq Seq(Octets)
  BY <1>1
<1>3. OneField \in Seq(Seq(Octets))
  BY <1>1, <1>2, SeqMonotonic
<1> QED
  BY <1>1, <1>3 DEF FieldLists

LEMMA CutTypes ==
    ASSUME NEW fields \in FieldLists, NEW c \in Octets
    PROVE  Cut(fields, c) \in FieldLists
<1>1. fields \in Seq(Seq(Octets)) /\ Len(fields) \in 1..Len(fields) /\ <<>> \in Seq(Octets)
  BY EmptySeq, LenProperties DEF FieldLists
<1>2. CASE c = Bar
  BY <1>1, <1>2, AppendProperties DEF Cut, FieldLists
<1>3. CASE c # Bar
  <2> DEFINE longer == Append(fields[Len(fields)], c)
  <2>1. fields[Len(fields)] \in Seq(Octets)
    BY <1>1, ElementOfSeq
  <2>2. longer \in Seq(Octets)
    BY <2>1, AppendProperties
  <2>3. Cut(fields, c) = [fields EXCEPT ![Len(fields)] = longer]
    BY <1>3 DEF Cut
  <2> HIDE DEF longer
  <2>4. Cut(fields, c) \in Seq(Seq(Octets)) /\ Len(Cut(fields, c)) = Len(fields)
    BY <1>1, <2>2, <2>3, ExceptSeq
  <2>5. Len(fields) # 0
    BY <1>1
  <2> QED
    BY <2>4, <2>5, EmptySeq DEF FieldLists
<1> QED
  BY <1>2, <1>3

LEMMA SplitRun ==
    ASSUME NEW text \in Seq(Octets)
    PROVE  \E d : /\ d[0] = OneField
                  /\ \A k \in 0..(Len(text) - 1) : d[k + 1] = Cut(d[k], text[k + 1])
                  /\ Split(text, Bar) = d[Len(text)] /\ d[Len(text)] \in FieldLists
<1> DEFINE step == [p \in FieldLists \X Octets |-> Cut(p[1], p[2])]
           Fits(it) == it = [s \in SUBSET DOMAIN text |->
                               IF s = {} THEN OneField ELSE Cut(it[s \ {Max(s)}], text[Max(s)])]
           n == Len(text)
<1>0. n \in Nat /\ DOMAIN text = 1..n
  BY LenProperties
<1>1. OneField \in FieldLists
  BY CutBegins
<1>2. \E it : Fits(it)
  <2>1. step \in [FieldLists \X Octets -> FieldLists]
    BY CutTypes
  <2>2. \A f \in FieldLists, c \in Octets : step[<<f, c>>] = Cut(f, c)
    OBVIOUS
  <2> HIDE DEF step
  <2>3. PICK it : FoldsTo(FieldLists, OneField, text, step, it)
    BY <1>1, <2>1, FoldExists
  <2>4. \A s \in SUBSET DOMAIN text : it[s] = IF s = {} THEN OneField
                                             ELSE Cut(it[s \ {Max(s)}], text[Max(s)])
    BY <2>2, <2>3, LastOf DEF FoldsTo
  <2> QED
    BY <2>3, <2>4 DEF FoldsTo
<1>3. PICK it : Fits(it) /\ Split(text, Bar) = it[DOMAIN text]
  <2> DEFINE chosen == CHOOSE it : Fits(it)
  <2>1. Split(text, Bar) = chosen[DOMAIN text]
    BY DEF Split, FoldLeft, MapThenFoldSet, Cut, OneField
  <2>2. Fits(chosen)
    BY <1>2
  <2> QED
    BY <2>1, <2>2
<1> DEFINE d == [k \in 0..n |-> it[1..k]]
<1>4. d[0] = OneField
  <2>1. 1..0 = {} /\ 0 \in 0..n
    BY <1>0
  <2> QED
    BY <1>3, <2>1
<1>5. ASSUME NEW k \in 0..(n - 1) PROVE d[k + 1] = Cut(d[k], text[k + 1])
  <2>0. k \in Nat /\ k \in 0..n /\ k + 1 \in 0..n /\ k + 1 \in 1..(k + 1)
    BY <1>0
  <2>1. 1..(k + 1) \in SUBSET DOMAIN text /\ 1..(k + 1) # {}
    <3>1. 1..(k + 1) # {}
      BY <2>0, Zenon
    <3>2. 1..(k + 1) \subseteq 1..n
      BY <1>0, <2>0
    <3> QED
      BY <1>0, <3>1, <3>2
  <2>2. Max(1..(k + 1)) = k + 1 /\ (1..(k + 1)) \ {k + 1} = 1..k
    BY <2>0, LastPlace
  <2> QED
    BY <1>3, <2>0, <2>1, <2>2
<1>6. d[n] \in FieldLists
  <2> HIDE DEF d
  <2> DEFINE P == {k \in 0..n : d[k] \in FieldLists}
  <2>1. 0 \in P
    BY <1>0, <1>1, <1>4
  <2>2. ASSUME NEW k \in 0..(n - 1), k \in P PROVE k + 1 \in P
    <3>1. text[k + 1] \in Octets
      BY <1>0, ElementOfSeq
    <3> QED
      BY <1>0, <1>5, <2>2, <3>1, CutTypes
  <2> HIDE DEF P
  <2>3. 0..n \subseteq P
    BY <1>0, <2>1, <2>2, Counting
  <2> QED
    BY <1>0, <2>3 DEF P
<1>7. Split(text, Bar) = d[n]
  BY <1>0, <1>3
<1> HIDE DEF d
<1> QED
  BY <1>4, <1>5, <1>6, <1>7

LEMMA SplitAppend ==
    ASSUME NEW text \in Seq(Octets), NEW c \in Octets
    PROVE  /\ Split(text, Bar) \in FieldLists
           /\ Split(Append(text, c), Bar) = Cut(Split(text, Bar), c)
<1> DEFINE n == Len(text)
           longer == Append(text, c)
<1>1. /\ n \in Nat /\ longer \in Seq(Octets) /\ Len(longer) = n + 1
      /\ \A k \in 0..(n - 1) : longer[k + 1] = text[k + 1]
      /\ longer[n + 1] = c
  BY OneLonger
<1> HIDE DEF longer
<1>2. PICK d : /\ d[0] = OneField
               /\ \A k \in 0..(n - 1) : d[k + 1] = Cut(d[k], text[k + 1])
               /\ Split(text, Bar) = d[n] /\ d[n] \in FieldLists
  BY SplitRun
<1>3. PICK e : /\ e[0] = OneField
               /\ \A k \in 0..n : e[k + 1] = Cut(e[k], longer[k + 1])
               /\ Split(longer, Bar) = e[n + 1]
  <2>1. \A k : k \in 0..((n + 1) - 1) <=> k \in 0..n
    BY <1>1
  <2> QED
    BY <1>1, <2>1, SplitRun
<1>4. d[n] = e[n]
  <2>1. \A k \in 0..(n - 1) : d[k] = e[k] => d[k + 1] = e[k + 1]
    BY <1>1, <1>2, <1>3
  <2> HIDE DEF n
  <2> QED
    BY <1>1, <1>2, <1>3, <2>1, SameRun
<1> QED
  BY <1>1, <1>2, <1>3, <1>4 DEF longer

LEMMA SplitNothing == Split(<<>>, Bar) = OneField
<1>1. <<>> \in Seq(Octets) /\ Len(<<>>) = 0
  BY EmptySeq
<1> QED
  BY <1>1, SplitRun
-----------------------------------------------------------------------------
(* What is written is read back. *)

LEMMA EncodedTypes == ASSUME NEW text \in Seq(Octets) PROVE encodeField(text) \in Seq(Octets)
<1>1. 0 \in Octets
  BY DEF Octets
<1> QED
  BY <1>1, EncodedAppend DEF OctetTexts

LEMMA DecodedTypes == ASSUME NEW text \in Seq(Octets) PROVE Decoded(text) \in Fielded
<1>1. 0 \in Octets
  BY DEF Octets
<1> QED
  BY <1>1, DecodedAppend

\* A text with one more octet, put behind another.
LEMMA ConcatAppend ==
    ASSUME NEW S, NEW s \in Seq(S), NEW t \in Seq(S), NEW c \in S
    PROVE  s \o Append(t, c) = Append(s \o t, c)
<1>1. Append(t, c) = t \o <<c>> /\ <<c>> \in Seq(S)
  BY AppendIsConcat
<1>2. (s \o t) \o <<c>> = s \o (t \o <<c>>)
  BY <1>1, ConcatAssociative
<1>3. s \o t \in Seq(S)
  BY ConcatProperties
<1>4. Append(s \o t, c) = (s \o t) \o <<c>>
  BY <1>3, AppendIsConcat
<1> QED
  BY <1>1, <1>2, <1>4

LEMMA ConcatThree ==
    ASSUME NEW S, NEW s \in Seq(S), NEW a \in S, NEW b \in S, NEW c \in S
    PROVE  s \o <<a, b, c>> = Append(Append(Append(s, a), b), c)
<1>1. <<a>> \in Seq(S) /\ <<a, b>> \in Seq(S)
  OBVIOUS
<1>2. s \o <<a, b, c>> = Append(s \o <<a, b>>, c)
  BY <1>1, AppendThree, ConcatAppend
<1>3. s \o <<a, b>> = Append(s \o <<a>>, b)
  BY <1>1, AppendTwo, ConcatAppend
<1>4. s \o <<a>> = Append(s, a)
  BY AppendIsConcat
<1> QED
  BY <1>2, <1>3, <1>4

LEMMA HexDigits ==
    ASSUME NEW d \in 0..15
    PROVE  HexDigit(d) \in Octets /\ isHex(HexDigit(d)) /\ unhex(HexDigit(d)) = d
BY DEF HexDigit, isHex, unhex, Octets

LEMMA DecodeCode ==
    ASSUME NEW text \in Seq(Octets), Decoded(text).escape = <<>>, NEW c \in Octets
    PROVE  Decoded(text \o Code(c)) =
             [text |-> Append(Decoded(text).text, c), escape |-> <<>>,
              ok |-> Decoded(text).ok /\ ~isControl(c)]
<1> DEFINE f == Decoded(text)
<1>1. f \in [text : Seq(Octets), escape : HalfEscapes, ok : BOOLEAN] /\ f.escape = <<>>
  BY DecodedTypes DEF Fielded
<1>2. CASE Literal(c)
  <2>1. Code(c) = <<c>> /\ c # Percent
    BY <1>2 DEF Code, Literal
  <2>2. text \o <<c>> = Append(text, c)
    BY AppendIsConcat
  <2>3. Decoded(Append(text, c)) = TakeOctet(f, c)
    BY DecodedAppend
  <2> HIDE DEF f
  <2>4. TakeOctet(f, c) = [f EXCEPT !.text = Append(@, c), !.ok = @ /\ ~isControl(c)]
    BY <1>1, <2>1 DEF TakeOctet
  <2>5. TakeOctet(f, c) = [text |-> Append(f.text, c), escape |-> <<>>,
                           ok |-> f.ok /\ ~isControl(c)]
    BY <1>1, <2>4
  <2> QED
    BY <2>1, <2>2, <2>3, <2>5 DEF f
<1>3. CASE ~Literal(c)
  <2> DEFINE high == HexDigit(c \div 16)
             low == HexDigit(c % 16)
  <2>1. Code(c) = <<Percent, high, low>>
    BY <1>3 DEF Code
  <2>2. c \div 16 \in 0..15 /\ c % 16 \in 0..15 /\ 16 * (c \div 16) + (c % 16) = c
    <3>0. c \in 0..255
      BY DEF Octets
    <3>1. c % 16 \in 0..15
      BY <3>0
    <3>2. 16 * (c \div 16) + (c % 16) = c
      BY <3>0
    <3>3. c \div 16 \in 0..15
      BY <3>0
    <3> QED
      BY <3>1, <3>2, <3>3
  <2>3. /\ high \in Octets /\ isHex(high) /\ low \in Octets /\ isHex(low) /\ Percent \in Octets
        /\ 16 * unhex(high) + unhex(low) = c
    <3>1. high \in Octets /\ isHex(high) /\ unhex(high) = c \div 16
      BY <2>2, HexDigits
    <3>2. low \in Octets /\ isHex(low) /\ unhex(low) = c % 16
      BY <2>2, HexDigits
    <3>3. Percent \in Octets
      BY DEF Percent, Octets
    <3> HIDE DEF high, low
    <3> QED
      BY <2>2, <3>1, <3>2, <3>3
  <2> HIDE DEF high, low
  <2>4. text \o <<Percent, high, low>> = Append(Append(Append(text, Percent), high), low)
    BY <2>3, ConcatThree
  <2> DEFINE t1 == Append(text, Percent)
             t2 == Append(t1, high)
  <2>5. t1 \in Seq(Octets)
    BY <2>3, AppendProperties
  <2>6. t2 \in Seq(Octets)
    BY <2>3, <2>5, AppendProperties
  <2>7. /\ Decoded(t1) = TakeOctet(f, Percent)
        /\ Decoded(t2) = TakeOctet(Decoded(t1), high)
        /\ Decoded(Append(t2, low)) = TakeOctet(Decoded(t2), low)
    BY <2>3, <2>5, <2>6, DecodedAppend
  <2> HIDE DEF t1, t2, f
  <2>8. Decoded(t1) = [text |-> f.text, escape |-> <<Percent>>, ok |-> f.ok]
    BY <1>1, <2>7 DEF TakeOctet
  <2>9. Decoded(t2) = [text |-> f.text, escape |-> <<Percent, high>>, ok |-> f.ok]
    <3> DEFINE g == [text |-> f.text, escape |-> <<Percent>>, ok |-> f.ok]
    <3>1. Append(<<Percent>>, high) = <<Percent, high>> /\ Len(<<Percent, high>>) = 2
      BY AppendTwo
    <3>2. g.escape = <<Percent>> /\ <<Percent>> # <<>>
      OBVIOUS
    <3>3. TakeOctet(g, high) = [g EXCEPT !.escape = <<Percent, high>>]
      <4> HIDE DEF g
      <4> QED
        BY <2>3, <3>1, <3>2 DEF TakeOctet
    <3>4. [g EXCEPT !.escape = <<Percent, high>>]
            = [text |-> f.text, escape |-> <<Percent, high>>, ok |-> f.ok]
      OBVIOUS
    <3> QED
      BY <2>7, <2>8, <3>3, <3>4
  <2>10. Decoded(Append(t2, low)) = [text |-> Append(f.text, c), escape |-> <<>>,
                                     ok |-> f.ok /\ ~isControl(c)]
    <3> DEFINE g == [text |-> f.text, escape |-> <<Percent, high>>, ok |-> f.ok]
               r == <<Percent, high, low>>
    <3>1. Append(<<Percent, high>>, low) = r /\ Len(r) = 3 /\ r[2] = high /\ r[3] = low
      BY AppendThree
    <3>2. g.escape = <<Percent, high>> /\ <<Percent, high>> # <<>> /\ g.text = f.text /\ g.ok = f.ok
      OBVIOUS
    <3> HIDE DEF g, r
    <3>3. TakeOctet(g, low) = [text |-> Append(g.text, 16 * unhex(high) + unhex(low)),
                               escape |-> <<>>,
                               ok |-> g.ok /\ ~isControl(16 * unhex(high) + unhex(low))]
      BY <2>3, <3>1, <3>2 DEF TakeOctet
    <3>4. Decoded(Append(t2, low)) = TakeOctet(g, low)
      BY <2>7, <2>9 DEF g
    <3> QED
      BY <2>3, <3>2, <3>3, <3>4
  <2> QED
    BY <2>1, <2>4, <2>10 DEF t1, t2, f
<1> QED
  BY <1>2, <1>3

LEMMA EncodeMore ==
    ASSUME NEW text \in Seq(Octets), NEW c \in Octets
    PROVE  encodeField(Append(text, c)) = encodeField(text) \o Code(c)
BY EncodedAppend DEF Written

(* Every text is read back as it was written, and if it is plain without a     *)
(* fault.                                                                    *)
LEMMA ReadBack ==
    ASSUME NEW text \in Seq(Octets)
    PROVE  /\ decodeField(encodeField(text)) = text
           /\ Decoded(encodeField(text)).escape = <<>>
           /\ Plain(text) => Decodes(encodeField(text))
<1> DEFINE P == {t \in Seq(Octets) : /\ Decoded(encodeField(t)).text = t
                                     /\ Decoded(encodeField(t)).escape = <<>>
                                     /\ Plain(t) => Decoded(encodeField(t)).ok}
<1>1. <<>> \in P
  <2>1. <<>> \in Seq(Octets)
    BY EmptySeq
  <2> QED
    BY <2>1, EncodedNothing, DecodedNothing DEF Begun
<1>2. ASSUME NEW t \in Seq(Octets), NEW c \in Octets, t \in P PROVE Append(t, c) \in P
  <2>1. Append(t, c) \in Seq(Octets) /\ encodeField(t) \in Seq(Octets)
    BY AppendProperties, EncodedTypes
  <2>2. encodeField(Append(t, c)) = encodeField(t) \o Code(c)
    BY EncodeMore
  <2>3. Decoded(encodeField(Append(t, c))) =
          [text |-> Append(t, c), escape |-> <<>>,
           ok |-> Decoded(encodeField(t)).ok /\ ~isControl(c)]
    BY <1>2, <2>1, <2>2, DecodeCode
  <2>4. Plain(Append(t, c)) => Plain(t) /\ ~isControl(c)
    <3>1. /\ Len(t) \in Nat /\ DOMAIN t = 1..Len(t)
          /\ DOMAIN Append(t, c) = 1..(Len(t) + 1)
          /\ \A i \in 1..Len(t) : Append(t, c)[i] = t[i]
          /\ Append(t, c)[Len(t) + 1] = c
      BY <2>1, LenProperties, AppendProperties
    <3>2. Len(t) + 1 \in DOMAIN Append(t, c) /\ DOMAIN t \subseteq DOMAIN Append(t, c)
      BY <3>1
    <3> QED
      BY <3>1, <3>2 DEF Plain
  <2>5. Plain(Append(t, c)) => Decoded(encodeField(t)).ok /\ ~isControl(c)
    BY <1>2, <2>4
  <2> DEFINE f == Decoded(encodeField(Append(t, c)))
  <2>6. /\ f.text = Append(t, c) /\ f.escape = <<>>
        /\ f.ok = (Decoded(encodeField(t)).ok /\ ~isControl(c))
    <3>1. PICK ok : ok = (Decoded(encodeField(t)).ok /\ ~isControl(c))
      OBVIOUS
    <3>2. f = [text |-> Append(t, c), escape |-> <<>>, ok |-> ok]
      BY <2>3, <3>1, Zenon
    <3>3. f.text = Append(t, c) /\ f.escape = <<>> /\ f.ok = ok
      <4> HIDE DEF f
      <4> QED
        BY <3>2
    <3> QED
      BY <3>1, <3>3, Zenon
  <2>7. Plain(Append(t, c)) => f.ok
    BY <2>5, <2>6, Zenon
  <2> QED
    BY <2>1, <2>6, <2>7, Zenon
<1> HIDE DEF P
<1>3. Seq(Octets) \subseteq P
  BY <1>1, <1>2, TextInduction
<1> QED
  BY <1>3 DEF P, Decodes, decodeField

-----------------------------------------------------------------------------
(* What is put between bars is found between them. *)

NoBar(text) == \A i \in DOMAIN text : text[i] # Bar

LEMMA NoBarConcat ==
    ASSUME NEW s \in Seq(Octets), NEW t \in Seq(Octets)
    PROVE  NoBar(s \o t) <=> NoBar(s) /\ NoBar(t)
<1>1. /\ Len(s) \in Nat /\ Len(t) \in Nat
      /\ DOMAIN s = 1..Len(s) /\ DOMAIN t = 1..Len(t)
      /\ DOMAIN (s \o t) = 1..(Len(s) + Len(t))
      /\ \A i \in 1..(Len(s) + Len(t)) :
            (s \o t)[i] = IF i <= Len(s) THEN s[i] ELSE t[i - Len(s)]
  BY LenProperties, ConcatProperties
<1>2. ASSUME NoBar(s \o t) PROVE NoBar(s) /\ NoBar(t)
  <2>1. ASSUME NEW i \in 1..Len(s) PROVE s[i] # Bar
    BY <1>1, <1>2 DEF NoBar
  <2>2. ASSUME NEW i \in 1..Len(t) PROVE t[i] # Bar
    <3>1. /\ Len(s) + i \in 1..(Len(s) + Len(t)) /\ ~ (Len(s) + i <= Len(s))
          /\ (Len(s) + i) - Len(s) = i
      BY <1>1
    <3>2. (s \o t)[Len(s) + i] = t[i]
      BY <1>1, <3>1
    <3> QED
      BY <1>1, <1>2, <3>1, <3>2 DEF NoBar
  <2> QED
    BY <1>1, <2>1, <2>2 DEF NoBar
<1>3. ASSUME NoBar(s), NoBar(t) PROVE NoBar(s \o t)
  <2>1. ASSUME NEW i \in 1..(Len(s) + Len(t)) PROVE (s \o t)[i] # Bar
    <3>1. CASE i <= Len(s)
      <4>1. i \in 1..Len(s)
        BY <1>1, <3>1
      <4> QED
        BY <1>1, <1>3, <3>1, <4>1 DEF NoBar
    <3>2. CASE ~ (i <= Len(s))
      <4>1. i - Len(s) \in 1..Len(t)
        BY <1>1, <3>2
      <4> QED
        BY <1>1, <1>3, <3>2, <4>1 DEF NoBar
    <3> QED
      BY <3>1, <3>2
  <2> QED
    BY <1>1, <2>1 DEF NoBar
<1> QED
  BY <1>2, <1>3

LEMMA EncodedNoBar == ASSUME NEW text \in Seq(Octets) PROVE NoBar(encodeField(text))
<1> DEFINE P == {t \in Seq(Octets) : NoBar(encodeField(t))}
<1>1. <<>> \in P
  BY EmptySeq, EncodedNothing DEF NoBar
<1>2. ASSUME NEW t \in Seq(Octets), NEW c \in Octets, t \in P PROVE Append(t, c) \in P
  <2>1. Append(t, c) \in Seq(Octets) /\ encodeField(t) \in Seq(Octets)
        /\ Code(c) \in Seq(Octets) /\ NoBar(Code(c))
    BY AppendProperties, EncodedTypes, CodeTypes DEF NoBar
  <2>2. encodeField(Append(t, c)) = encodeField(t) \o Code(c)
    BY EncodeMore
  <2>3. NoBar(encodeField(t) \o Code(c))
    BY <1>2, <2>1, NoBarConcat
  <2> QED
    BY <2>1, <2>2, <2>3
<1> HIDE DEF P
<1>3. Seq(Octets) \subseteq P
  BY <1>1, <1>2, TextInduction
<1> QED
  BY <1>3 DEF P

LEMMA SplitTypes == ASSUME NEW text \in Seq(Octets) PROVE Split(text, Bar) \in FieldLists
<1>1. 0 \in Octets
  BY DEF Octets
<1> QED
  BY <1>1, SplitAppend

\* The last field grows by a word.
LastGrows(fields, word) == [fields EXCEPT ![Len(fields)] = @ \o word]

LEMMA SplitWord ==
    ASSUME NEW text \in Seq(Octets), NEW word \in Seq(Octets), NoBar(word)
    PROVE  Split(text \o word, Bar) = LastGrows(Split(text, Bar), word)
<1> DEFINE F == Split(text, Bar)
           P == {w \in Seq(Octets) : NoBar(w) => Split(text \o w, Bar) = LastGrows(F, w)}
<1>0. F \in FieldLists
  BY SplitTypes
<1> HIDE DEF F
<1>1. F \in Seq(Seq(Octets)) /\ Len(F) \in 1..Len(F) /\ F[Len(F)] \in Seq(Octets)
  <2>1. F \in Seq(Seq(Octets)) /\ Len(F) \in 1..Len(F)
    BY <1>0, EmptySeq, LenProperties DEF FieldLists
  <2> QED
    BY <2>1, ElementOfSeq
<1>2. <<>> \in P
  <2>1. <<>> \in Seq(Octets) /\ text \o <<>> = text /\ F[Len(F)] \o <<>> = F[Len(F)]
    BY <1>1, EmptySeq, ConcatEmptySeq
  <2>2. LastGrows(F, <<>>) = F
    BY <1>1, <2>1 DEF LastGrows
  <2> QED
    BY <2>1, <2>2 DEF F
<1>3. ASSUME NEW w \in Seq(Octets), NEW c \in Octets, w \in P PROVE Append(w, c) \in P
  <2>1. Append(w, c) \in Seq(Octets) /\ text \o w \in Seq(Octets)
    BY AppendProperties, ConcatProperties
  <2> SUFFICES ASSUME NoBar(Append(w, c))
               PROVE  Split(text \o Append(w, c), Bar) = LastGrows(F, Append(w, c))
    BY <2>1
  <2>2. NoBar(w) /\ c # Bar
    <3>1. Append(w, c) = w \o <<c>> /\ <<c>> \in Seq(Octets)
      BY AppendIsConcat
    <3>2. NoBar(w) /\ NoBar(<<c>>)
      BY <3>1, NoBarConcat
    <3> QED
      BY <3>2 DEF NoBar
  <2>3. text \o Append(w, c) = Append(text \o w, c)
    BY ConcatAppend
  <2>4. Split(Append(text \o w, c), Bar) = Cut(LastGrows(F, w), c)
    BY <1>3, <2>1, <2>2, SplitAppend
  <2>5. F[Len(F)] \o w \in Seq(Octets)
    BY <1>1, ConcatProperties
  <2>6. LastGrows(F, w) \in Seq(Seq(Octets)) /\ Len(LastGrows(F, w)) = Len(F)
        /\ LastGrows(F, w)[Len(F)] = F[Len(F)] \o w
    BY <1>1, <2>5, ExceptSeq DEF LastGrows
  <2>7. Append(F[Len(F)] \o w, c) = F[Len(F)] \o Append(w, c)
    <3>1. PICK last \in Seq(Octets) : last = F[Len(F)]
      BY <1>1
    <3>2. last \o Append(w, c) = Append(last \o w, c)
      BY ConcatAppend
    <3> QED
      BY <3>1, <3>2
  <2>8. Cut(LastGrows(F, w), c) = [LastGrows(F, w) EXCEPT ![Len(F)] = F[Len(F)] \o Append(w, c)]
    BY <2>2, <2>6, <2>7 DEF Cut
  <2>9. [LastGrows(F, w) EXCEPT ![Len(F)] = F[Len(F)] \o Append(w, c)] = LastGrows(F, Append(w, c))
    BY <1>1 DEF LastGrows
  <2> QED
    BY <2>3, <2>4, <2>8, <2>9
<1> HIDE DEF P
<1>4. Seq(Octets) \subseteq P
  BY <1>2, <1>3, TextInduction
<1> QED
  BY <1>4 DEF P, F

LEMMA SplitFirst ==
    ASSUME NEW word \in Seq(Octets), NoBar(word)
    PROVE  Split(word, Bar) = <<word>>
<1>1. <<>> \in Seq(Octets) /\ <<>> \o word = word
  BY EmptySeq, ConcatEmptySeq
<1>2. Split(<<>> \o word, Bar) = LastGrows(OneField, word)
  BY <1>1, SplitWord, SplitNothing
<1>3. LastGrows(OneField, word) = [OneField EXCEPT ![1] = <<>> \o word]
  <2>1. Len(OneField) = 1 /\ OneField[1] = <<>>
    BY DEF OneField
  <2> QED
    BY <2>1 DEF LastGrows
<1>4. [OneField EXCEPT ![1] = word] = <<word>>
  BY DEF OneField
<1> QED
  BY <1>1, <1>2, <1>3, <1>4

LEMMA SplitNext ==
    ASSUME NEW text \in Seq(Octets), NEW word \in Seq(Octets), NoBar(word)
    PROVE  Split(text \o <<Bar>> \o word, Bar) = Append(Split(text, Bar), word)
<1> DEFINE F == Split(text, Bar)
           G == Append(F, <<>>)
           n == Len(F)
<1>1. Bar \in Octets /\ <<>> \in Seq(Octets) /\ <<>> \o word = word
  BY EmptySeq, ConcatEmptySeq DEF Bar, Octets
<1>2. text \o <<Bar>> = Append(text, Bar) /\ Append(text, Bar) \in Seq(Octets)
  BY <1>1, AppendIsConcat, AppendProperties
<1>3. F \in Seq(Seq(Octets)) /\ n \in Nat
  BY SplitTypes, LenProperties DEF FieldLists
<1>4. Split(Append(text, Bar), Bar) = G
  BY <1>1, SplitAppend DEF Cut
<1>5. Split(text \o <<Bar>> \o word, Bar) = LastGrows(G, word)
  BY <1>2, <1>4, SplitWord
<1> HIDE DEF F, n
<1>6. /\ G \in Seq(Seq(Octets)) /\ Len(G) = n + 1 /\ G[n + 1] = <<>>
      /\ \A i \in 1..n : G[i] = F[i]
  BY <1>1, <1>3, AppendProperties DEF n
<1> HIDE DEF G
<1>7. LastGrows(G, word) = [G EXCEPT ![n + 1] = word]
  BY <1>1, <1>6 DEF LastGrows
<1>8. /\ n + 1 \in 1..Len(G)
      /\ [G EXCEPT ![n + 1] = word] \in Seq(Seq(Octets))
      /\ Len([G EXCEPT ![n + 1] = word]) = n + 1
      /\ \A i \in 1..(n + 1) : [G EXCEPT ![n + 1] = word][i] = IF i = n + 1 THEN word ELSE G[i]
  BY <1>3, <1>6, ExceptSeq
<1>9. /\ Append(F, word) \in Seq(Seq(Octets)) /\ Len(Append(F, word)) = n + 1
      /\ Append(F, word)[n + 1] = word
      /\ \A i \in 1..n : Append(F, word)[i] = F[i]
  BY <1>3, AppendProperties DEF n
<1>10. \A i \in 1..(n + 1) : [G EXCEPT ![n + 1] = word][i] = Append(F, word)[i]
  <2>1. \A i \in 1..(n + 1) : i = n + 1 \/ i \in 1..n
    BY <1>3
  <2> QED
    BY <1>6, <1>8, <1>9, <2>1
<1>11. [G EXCEPT ![n + 1] = word] = Append(F, word)
  BY <1>8, <1>9, <1>10, SeqEqual
<1> QED
  BY <1>5, <1>7, <1>11 DEF F

-----------------------------------------------------------------------------
(* TrimRight and Normalize. *)

\* What TrimRight takes off is all one octet, and it does not stop at one.
LEMMA Trim ==
    ASSUME NEW text \in Seq(Octets), NEW c
    PROVE  \E m \in 0..Len(text) :
              /\ TrimRight(text, c) = SubSeq(text, 1, m)
              /\ m > 0 => text[m] # c
              /\ \A i \in (m + 1)..Len(text) : text[i] = c
<1> DEFINE n == Len(text)
           kept == {i \in DOMAIN text : text[i] # c}
<1>1. n \in Nat /\ DOMAIN text = 1..n
  BY LenProperties
<1>2. CASE kept = {}
  <2>1. TrimRight(text, c) = <<>> /\ SubSeq(text, 1, 0) = <<>>
    BY <1>2 DEF TrimRight
  <2>2. \A i \in 1..n : text[i] = c
    BY <1>1, <1>2
  <2>3. 0 \in 0..n /\ 0 + 1 = 1
    BY <1>1
  <2> HIDE DEF n
  <2> QED
    BY <2>1, <2>2, <2>3 DEF n
<1>3. CASE kept # {}
  <2>1. kept \in SUBSET (0..n)
    BY <1>1
  <2> DEFINE m == Max(kept)
  <2>2. TrimRight(text, c) = SubSeq(text, 1, m)
    BY <1>3 DEF TrimRight
  <2>3. m \in kept /\ \A i \in kept : i <= m
    <3> HIDE DEF kept
    <3> QED
      BY <1>1, <1>3, <2>1, MaxOf
  <2> HIDE DEF m
  <2>4. m \in 0..n /\ text[m] # c /\ \A i \in (m + 1)..n : text[i] = c
    BY <1>1, <2>3
  <2> QED
    BY <2>2, <2>4
<1> QED
  BY <1>2, <1>3

\* Text that does not end in the octet is left as it is.
LEMMA TrimNothing ==
    ASSUME NEW text \in Seq(Octets), NEW c, text # <<>> => text[Len(text)] # c
    PROVE  TrimRight(text, c) = text
<1>1. PICK m \in 0..Len(text) : /\ TrimRight(text, c) = SubSeq(text, 1, m)
                                /\ \A i \in (m + 1)..Len(text) : text[i] = c
  BY Trim
<1>2. Len(text) \in Nat /\ SubSeq(text, 1, Len(text)) = text /\ (Len(text) > 0 => text # <<>>)
  BY LenProperties, SubSeqFull, EmptySeq
<1>3. m = Len(text)
  <2> SUFFICES ASSUME m # Len(text) PROVE FALSE
    OBVIOUS
  <2>1. Len(text) \in (m + 1)..Len(text) /\ Len(text) > 0
    <3>1. \A n \in Nat : \A k \in 0..n : k # n => n \in (k + 1)..n /\ n > 0
      OBVIOUS
    <3> QED
      BY <1>2, <3>1
  <2> QED
    BY <1>1, <1>2, <2>1
<1> QED
  BY <1>1, <1>2, <1>3

\* What is left of a text begins as the text does.
LEMMA TrimTypes ==
    ASSUME NEW text \in Seq(Octets), NEW c
    PROVE  LET rest == TrimRight(text, c) IN
           /\ rest \in Seq(Octets) /\ Len(rest) <= Len(text)
           /\ \A i \in 1..Len(rest) : rest[i] = text[i]
           /\ rest # <<>> => rest[Len(rest)] # c
           /\ \A i \in (Len(rest) + 1)..Len(text) : text[i] = c
<1> DEFINE rest == TrimRight(text, c)
<1>1. PICK m \in 0..Len(text) : /\ rest = SubSeq(text, 1, m)
                                /\ m > 0 => text[m] # c
                                /\ \A i \in (m + 1)..Len(text) : text[i] = c
  BY Trim
<1>2. Len(text) \in Nat /\ \A i \in 1..m : text[i] \in Octets
  BY LenProperties, ElementOfSeq
<1>3. /\ rest \in Seq(Octets) /\ Len(rest) = m
      /\ \A i \in 1..m : rest[i] = text[i]
  <2>1. /\ SubSeq(text, 1, m) \in Seq(Octets)
        /\ Len(SubSeq(text, 1, m)) = IF 1 <= m THEN m - 1 + 1 ELSE 0
        /\ \A i \in 1..(m - 1 + 1) : SubSeq(text, 1, m)[i] = text[1 + i - 1]
    BY <1>1, <1>2, SubSeqProperties
  <2> HIDE DEF rest
  <2> QED
    BY <1>1, <1>2, <2>1
<1> HIDE DEF rest
<1>4. rest # <<>> => m > 0
  BY <1>2, <1>3, EmptySeq
<1>5. rest # <<>> => rest[Len(rest)] # c
  BY <1>1, <1>2, <1>3, <1>4
<1> QED
  BY <1>1, <1>2, <1>3, <1>5 DEF rest

\* A place that is blank in the beginning of a text is blank in the text.
LEMMA BlankBegins ==
    ASSUME NEW text \in Seq(Octets), NEW rest \in Seq(Octets), Len(rest) <= Len(text),
           \A i \in 1..Len(rest) : rest[i] = text[i],
           NEW m \in Nat, IsBlank(rest, m)
    PROVE  IsBlank(text, m)
<1>1. PICK j \in 1..m : \E k \in m..Len(rest) : k <= j + 2 /\ SubSeq(rest, j, k) \in Spaces
  BY DEF IsBlank
<1>2. PICK k \in m..Len(rest) : k <= j + 2 /\ SubSeq(rest, j, k) \in Spaces
  BY <1>1
<1>3. Len(text) \in Nat /\ Len(rest) \in Nat
  BY LenProperties
<1>4. j \in Int /\ k \in Int /\ \A i \in j..k : i \in 1..Len(rest)
  BY <1>3
<1>5. \A i \in j..k : rest[i] = text[i] /\ rest[i] \in Octets /\ text[i] \in Octets
  BY <1>4, ElementOfSeq
<1>6. /\ SubSeq(rest, j, k) \in Seq(Octets) /\ SubSeq(text, j, k) \in Seq(Octets)
      /\ Len(SubSeq(rest, j, k)) = k - j + 1 /\ Len(SubSeq(text, j, k)) = k - j + 1
      /\ \A i \in 1..(k - j + 1) : SubSeq(rest, j, k)[i] = rest[j + i - 1]
      /\ \A i \in 1..(k - j + 1) : SubSeq(text, j, k)[i] = text[j + i - 1]
  <2>1. j <= k
    BY <1>3
  <2> QED
    BY <1>4, <1>5, <2>1, SubSeqProperties
<1>7. \A i \in 1..(k - j + 1) : j + i - 1 \in j..k
  BY <1>4
<1>8. SubSeq(rest, j, k) = SubSeq(text, j, k)
  BY <1>5, <1>6, <1>7, SeqEqual
<1>9. k \in m..Len(text)
  BY <1>3
<1> QED
  BY <1>2, <1>8, <1>9 DEF IsBlank

\* The last place of a text that is not blank.
LEMMA LastVisible ==
    ASSUME NEW text \in Seq(Octets), Visible(text) # {}
    PROVE  /\ Max(Visible(text)) \in 1..Len(text) /\ ~IsBlank(text, Max(Visible(text)))
           /\ \A i \in 1..Len(text) : ~IsBlank(text, i) => i <= Max(Visible(text))
<1>1. Len(text) \in Nat /\ DOMAIN text = 1..Len(text)
  BY LenProperties
<1>2. Visible(text) \in SUBSET (0..Len(text))
  BY <1>1 DEF Visible
<1>3. Max(Visible(text)) \in Visible(text) /\ \A i \in Visible(text) : i <= Max(Visible(text))
  BY <1>1, <1>2, MaxOf
<1> QED
  BY <1>1, <1>3 DEF Visible

\* What is left of a text begins as the text does, and does not end in a space.
LEMMA TrimEndTypes ==
    ASSUME NEW text \in Seq(Octets)
    PROVE  LET rest == TrimEnd(text) IN
           /\ rest \in Seq(Octets) /\ Len(rest) <= Len(text)
           /\ \A i \in 1..Len(rest) : rest[i] = text[i]
           /\ ~IsBlank(rest, Len(rest))
<1> DEFINE rest == TrimEnd(text)
           m == Max(Visible(text))
<1>1. Len(text) \in Nat /\ \A i \in 1..Len(text) : text[i] \in Octets
  BY LenProperties, ElementOfSeq
<1>2. CASE Visible(text) = {}
  <2>1. rest = <<>>
    BY <1>2 DEF TrimEnd
  <2>2. rest \in Seq(Octets) /\ Len(rest) = 0
    BY <2>1, EmptySeq
  <2>3. ~IsBlank(rest, 0)
    BY DEF IsBlank
  <2> HIDE DEF rest
  <2>4. rest \in Seq(Octets) /\ Len(rest) <= Len(text) /\ ~IsBlank(rest, Len(rest))
    BY <1>1, <2>2, <2>3
  <2>5. \A i \in 1..Len(rest) : rest[i] = text[i]
    BY <2>2
  <2> QED
    BY <2>4, <2>5 DEF rest
<1>3. CASE Visible(text) # {}
  <2>1. rest = SubSeq(text, 1, m)
    BY <1>3 DEF TrimEnd
  <2>2. m \in 1..Len(text) /\ ~IsBlank(text, m)
    BY <1>3, LastVisible
  <2> HIDE DEF rest, m
  <2>3. /\ rest \in Seq(Octets) /\ Len(rest) = m
        /\ \A i \in 1..m : rest[i] = text[i]
    <3>1. \A i \in 1..m : text[i] \in Octets
      BY <1>1, <2>2
    <3>2. /\ SubSeq(text, 1, m) \in Seq(Octets)
          /\ Len(SubSeq(text, 1, m)) = IF 1 <= m THEN m - 1 + 1 ELSE 0
          /\ \A i \in 1..(m - 1 + 1) : SubSeq(text, 1, m)[i] = text[1 + i - 1]
      BY <1>1, <2>2, <3>1, SubSeqProperties
    <3> QED
      BY <1>1, <2>1, <2>2, <3>2
  <2>4. Len(rest) <= Len(text) /\ m \in Nat
    BY <1>1, <2>2, <2>3
  <2>5. ~IsBlank(rest, m)
    BY <2>2, <2>3, <2>4, BlankBegins
  <2> QED
    BY <2>3, <2>4, <2>5 DEF rest
<1> QED
  BY <1>2, <1>3

\* Text that does not end in a space is left as it is.
LEMMA TrimEndNothing ==
    ASSUME NEW text \in Seq(Octets), ~IsBlank(text, Len(text))
    PROVE  TrimEnd(text) = text
<1>1. Len(text) \in Nat /\ DOMAIN text = 1..Len(text) /\ SubSeq(text, 1, Len(text)) = text
  BY LenProperties, SubSeqFull
<1>2. CASE Len(text) = 0
  <2>1. text = <<>> /\ Visible(text) = {}
    BY <1>1, <1>2, EmptySeq DEF Visible
  <2> QED
    BY <2>1 DEF TrimEnd
<1>3. CASE Len(text) # 0
  <2>1. Len(text) \in 1..Len(text)
    BY <1>1, <1>3
  <2>2. Len(text) \in Visible(text)
    BY <1>1, <2>1 DEF Visible
  <2>3. Max(Visible(text)) \in 1..Len(text) /\ Len(text) <= Max(Visible(text))
    BY <2>1, <2>2, LastVisible
  <2>4. Max(Visible(text)) = Len(text)
    BY <1>1, <2>3
  <2> QED
    BY <1>1, <2>2, <2>4 DEF TrimEnd
<1> QED
  BY <1>2, <1>3

\* TrimSpace adds no octet.
LEMMA TrimSpaceTypes ==
    ASSUME NEW text \in Seq(Octets)
    PROVE  LET rest == TrimSpace(text) IN
           /\ rest \in Seq(Octets)
           /\ \A i \in 1..Len(rest) : \E j \in 1..Len(text) : rest[i] = text[j]
<1> DEFINE rest == TrimSpace(text)
           l == Min(Visible(text))
           m == Max(Visible(text))
<1>1. Len(text) \in Nat /\ DOMAIN text = 1..Len(text) /\ \A i \in 1..Len(text) : text[i] \in Octets
  BY LenProperties, ElementOfSeq
<1>2. CASE Visible(text) = {}
  <2>1. rest = <<>>
    BY <1>2 DEF TrimSpace
  <2>2. rest \in Seq(Octets) /\ Len(rest) = 0
    BY <2>1, EmptySeq
  <2> HIDE DEF rest
  <2>3. \A i \in 1..Len(rest) : FALSE
    BY <2>2
  <2> QED
    BY <2>2, <2>3 DEF rest
<1>3. CASE Visible(text) # {}
  <2>1. rest = SubSeq(text, l, m)
    BY <1>3 DEF TrimSpace
  <2>2. Visible(text) \in SUBSET Nat /\ Visible(text) \in SUBSET (1..Len(text))
    BY <1>1 DEF Visible
  <2>3. l \in Visible(text) /\ \A i \in Visible(text) : l <= i
    BY <1>3, <2>2, MinOf
  <2>4. m \in 1..Len(text)
    BY <1>3, LastVisible
  <2>5. l \in 1..Len(text)
    BY <2>2, <2>3
  <2> HIDE DEF rest, l, m
  <2>6. \A i \in l..m : i \in 1..Len(text) /\ text[i] \in Octets
    BY <1>1, <2>4, <2>5
  <2>7. l \in Int /\ m \in Int
    BY <2>4, <2>5
  <2>8. /\ rest \in Seq(Octets) /\ Len(rest) = IF l <= m THEN m - l + 1 ELSE 0
        /\ \A i \in 1..(m - l + 1) : rest[i] = text[l + i - 1]
    BY <2>1, <2>6, <2>7, SubSeqProperties
  <2>9. ASSUME NEW i \in 1..Len(rest) PROVE \E j \in 1..Len(text) : rest[i] = text[j]
    <3>1. i \in 1..(m - l + 1) /\ l + i - 1 \in 1..Len(text)
      BY <2>4, <2>5, <2>7, <2>8
    <3> QED
      BY <2>8, <3>1
  <2> QED
    BY <2>8, <2>9 DEF rest
<1> QED
  BY <1>2, <1>3

LEMMA NormalizeTypes ==
    ASSUME NEW text \in Seq(Octets)
    PROVE  Normalize(text) \in Seq(Octets)
BY TrimEndTypes, TrimTypes DEF Normalize

LEMMA NormalizeEnds ==
    ASSUME NEW text \in Seq(Octets)
    PROVE  Normalize(text) # <<>> => Last(Normalize(text)) # Slash
BY TrimEndTypes, TrimTypes DEF Normalize, Last

(* A URL that is trimmed of slashes is a URL: none of them is in an escape.    *)
LEMMA NormalizedIsURL ==
    ASSUME NEW text \in Seq(Octets), Normalizes(text)
    PROVE  IsURL(Normalize(text))
<1> DEFINE y == TrimEnd(text)
           z == TrimRight(y, Slash)
<1>1. y \in Seq(Octets) /\ IsURL(y) /\ Normalize(text) = z
  BY TrimEndTypes DEF Normalizes, Normalize
<1> HIDE DEF y
<1>2. /\ z \in Seq(Octets) /\ Len(z) <= Len(y)
      /\ \A i \in 1..Len(z) : z[i] = y[i]
      /\ \A i \in (Len(z) + 1)..Len(y) : y[i] = Slash
  BY <1>1, TrimTypes
<1> HIDE DEF z
<1>3. Len(y) \in Nat /\ Len(z) \in Nat /\ DOMAIN y = 1..Len(y) /\ DOMAIN z = 1..Len(z)
  BY <1>1, <1>2, LenProperties
<1>4. z # <<>> /\ Head(z) # Slash
  <2>1. y # <<>> /\ Head(y) # Slash /\ Head(y) = y[1]
    BY <1>1 DEF IsURL
  <2>2. Len(y) > 0
    BY <1>1, <1>3, <2>1, EmptySeq
  <2>3. 1 \in 1..Len(y) /\ 1 \notin (Len(z) + 1)..Len(y)
    BY <1>2, <1>3, <2>1, <2>2
  <2>4. 1 \in 1..Len(z)
    BY <1>3, <2>3
  <2>5. z # <<>> /\ Head(z) = z[1]
    BY <1>2, <1>3, <2>4, EmptySeq
  <2> QED
    BY <1>2, <2>1, <2>4, <2>5
<1>5. ASSUME NEW i \in 1..Len(z), z[i] = Percent
      PROVE  i + 2 <= Len(z) /\ isHex(z[i + 1]) /\ isHex(z[i + 2])
  <2>1. i \in DOMAIN y /\ y[i] = Percent
    BY <1>2, <1>3, <1>5
  <2>2. i + 2 <= Len(y) /\ isHex(y[i + 1]) /\ isHex(y[i + 2])
    BY <1>1, <2>1 DEF IsURL
  <2>3. y[i + 2] # Slash
    <3>1. ~isHex(Slash)
      BY DEF isHex, Slash
    <3> QED
      BY <2>2, <3>1
  <2>4. i + 2 \notin (Len(z) + 1)..Len(y)
    BY <1>2, <2>3
  <2>5. i + 2 <= Len(z) /\ i + 1 \in 1..Len(z) /\ i + 2 \in 1..Len(z)
    BY <1>3, <2>2, <2>4
  <2> QED
    BY <1>2, <2>2, <2>5
<1> QED
  BY <1>1, <1>3, <1>4, <1>5 DEF IsURL

\* Without a space at its end, what Normalize makes is what it keeps.
LEMMA NormalizeTwice ==
    ASSUME NEW text \in Seq(Octets), ~IsBlank(Normalize(text), Len(Normalize(text)))
    PROVE  /\ TrimEnd(Normalize(text)) = Normalize(text)
           /\ Normalize(Normalize(text)) = Normalize(text)
<1> DEFINE z == Normalize(text)
<1>1. z \in Seq(Octets)
  BY NormalizeTypes
<1>2. z # <<>> => z[Len(z)] # Slash
  BY TrimEndTypes, TrimTypes DEF Normalize
<1>3. ~IsBlank(z, Len(z))
  OBVIOUS
<1> HIDE DEF z
<1>4. TrimEnd(z) = z /\ TrimRight(z, Slash) = z
  BY <1>1, <1>2, <1>3, TrimNothing, TrimEndNothing
<1>5. Normalize(z) = z
  BY <1>4 DEF Normalize
<1> QED
  BY <1>4, <1>5 DEF z

\* What Normalize leaves of a plain text is plain.
LEMMA NormalizePlain ==
    ASSUME NEW text \in Seq(Octets), Plain(text)
    PROVE  Plain(Normalize(text))
<1>1. ASSUME NEW t \in Seq(Octets), NEW rest \in Seq(Octets), Plain(t), Len(rest) <= Len(t),
             \A i \in 1..Len(rest) : rest[i] = t[i]
      PROVE  Plain(rest)
  <2>1. Len(t) \in Nat /\ Len(rest) \in Nat /\ DOMAIN t = 1..Len(t) /\ DOMAIN rest = 1..Len(rest)
    BY LenProperties
  <2>2. 1..Len(rest) \subseteq 1..Len(t)
    BY <1>1, <2>1
  <2> QED
    BY <1>1, <2>1, <2>2 DEF Plain
<1>2. TrimEnd(text) \in Seq(Octets) /\ Plain(TrimEnd(text))
  BY <1>1, TrimEndTypes
<1>3. Normalize(text) \in Seq(Octets) /\ Plain(Normalize(text))
  BY <1>1, <1>2, TrimTypes DEF Normalize
<1> QED
  BY <1>3

-----------------------------------------------------------------------------
(* The link. *)

LinkRecords == [name : Seq(Octets), base : Seq(Octets), secret : Seq(Octets), keyID : Seq(Octets)]

\* What Parse makes of a link.
IsRead(link) ==
    /\ link \in LinkRecords
    /\ Plain(link.name) /\ Plain(link.base)
    /\ IsURL(link.base)
    /\ link.base # <<>> => Last(link.base) # Slash
    /\ plausibleSecret(link.secret)
    /\ link.keyID # <<>> => IsKeyID(link.keyID)

LEMMA FieldRead ==
    ASSUME NEW field \in Seq(Octets), Decodes(field)
    PROVE  decodeField(field) \in Seq(Octets) /\ Plain(decodeField(field))
BY DecodedTypes DEF Decodes, decodeField, Fielded

LEMMA FieldsAreRead ==
    ASSUME NEW body \in Seq(Octets), HasFields(body)
    PROVE  IsRead(ReadFields(body))
<1> DEFINE fields == Fields(body)
           keys == {i \in Options(body) : IsKeyOption(fields[i])}
           n == Len(fields)
<1>1. fields \in Seq(Seq(Octets)) /\ n \in Nat /\ DOMAIN fields = 1..n
  BY SplitTypes, LenProperties DEF Fields, FieldLists
<1>2. /\ n >= 3 /\ \A i \in 1..3 : Decodes(fields[i])
      /\ Normalizes(decodeField(fields[2]))
      /\ plausibleSecret(decodeField(fields[3]))
      /\ \A i \in Options(body) :
            IsOption(fields[i]) /\ (IsKeyOption(fields[i]) => IsKeyID(KeyIDOf(fields[i])))
  BY DEF HasFields
<1>3. Options(body) \subseteq 1..n
  BY <1>1 DEF Options
<1>4. ReadFields(body) = [name |-> decodeField(fields[1]), base |-> Normalize(decodeField(fields[2])),
                          secret |-> decodeField(fields[3]),
                          keyID |-> IF keys = {} THEN <<>> ELSE KeyIDOf(fields[Max(keys)])]
  BY DEF ReadFields
<1> HIDE DEF fields, n
<1>5. \A i \in 1..n : fields[i] \in Seq(Octets)
  BY <1>1, ElementOfSeq DEF n
<1>6. \A i \in 1..3 : decodeField(fields[i]) \in Seq(Octets) /\ Plain(decodeField(fields[i]))
  <2>1. \A i \in 1..3 : i \in 1..n
    BY <1>1, <1>2
  <2> QED
    BY <1>2, <1>5, <2>1, FieldRead
<1>7. /\ Normalize(decodeField(fields[2])) \in Seq(Octets)
      /\ Plain(Normalize(decodeField(fields[2])))
      /\ IsURL(Normalize(decodeField(fields[2])))
      /\ Normalize(decodeField(fields[2])) # <<>> => Last(Normalize(decodeField(fields[2]))) # Slash
  BY <1>2, <1>6, NormalizeTypes, NormalizePlain, NormalizedIsURL, NormalizeEnds
<1> DEFINE key == IF keys = {} THEN <<>> ELSE KeyIDOf(fields[Max(keys)])
<1>8. key \in Seq(Octets) /\ (key # <<>> => IsKeyID(key))
  <2>1. CASE keys = {}
    BY <2>1, EmptySeq
  <2>2. CASE keys # {}
    <3>1. keys \in SUBSET (0..n)
      BY <1>1, <1>3
    <3>2. Max(keys) \in keys
      <4> HIDE DEF keys
      <4> QED
        BY <1>1, <2>2, <3>1, MaxOf
    <3> DEFINE f == fields[Max(keys)]
    <3>3. f \in Seq(Octets) /\ IsKeyID(KeyIDOf(f)) /\ Len(f) \in Nat
      <4>1. Max(keys) \in 1..n
        BY <1>3, <3>2
      <4>2. f \in Seq(Octets)
        BY <1>5, <4>1
      <4>3. IsKeyID(KeyIDOf(f))
        BY <1>2, <3>2
      <4> HIDE DEF f
      <4> QED
        BY <4>2, <4>3, LenProperties
    <3>4. KeyIDOf(f) \in Seq(Octets)
      <4> HIDE DEF f
      <4>1. \A i \in 3..Len(f) : f[i] \in Octets
        <5>1. \A i \in 3..Len(f) : i \in 1..Len(f)
          BY <3>3
        <5> QED
          BY <3>3, <5>1, ElementOfSeq
      <4>2. SubSeq(f, 3, Len(f)) \in Seq(Octets)
        BY <3>3, <4>1, SubSeqProperties
      <4>3. Decoded(SubSeq(f, 3, Len(f))) \in Fielded
        BY <4>2, DecodedTypes
      <4> QED
        BY <4>3 DEF KeyIDOf, decodeField, Fielded
    <3> QED
      BY <2>2, <3>3, <3>4
  <2> QED
    BY <2>1, <2>2
<1> DEFINE name == decodeField(fields[1])
           base == Normalize(decodeField(fields[2]))
           secret == decodeField(fields[3])
           link == [name |-> name, base |-> base, secret |-> secret, keyID |-> key]
<1>9. ReadFields(body) = link
  BY <1>4
<1>10. /\ name \in Seq(Octets) /\ Plain(name)
       /\ base \in Seq(Octets) /\ Plain(base) /\ IsURL(base)
       /\ base # <<>> => Last(base) # Slash
       /\ secret \in Seq(Octets) /\ plausibleSecret(secret)
  <2>1. 1 \in 1..3 /\ 3 \in 1..3
    OBVIOUS
  <2> QED
    BY <1>2, <1>6, <1>7, <2>1
<1> HIDE DEF name, base, secret, key
<1>11. IsRead(link)
  BY <1>8, <1>10 DEF IsRead, LinkRecords
<1> QED
  BY <1>9, <1>11

LEMMA ParsedIsRead ==
    ASSUME NEW raw \in Seq(Octets), IsLink(raw)
    PROVE  IsRead(Parse(raw))
<1> DEFINE text == TrimEnd(raw)
           body == Body(text)
<1>1. text \in Seq(Octets) /\ HasFields(body) /\ Parse(raw) = ReadFields(body)
  BY TrimEndTypes DEF IsLink, Parse
<1> HIDE DEF text
<1>2. body \in Seq(Octets)
  <2>1. Len(text) \in Nat
    BY <1>1, LenProperties
  <2>2. \A i \in 1..(Len(text) - 2) : i \in 1..Len(text)
    BY <2>1
  <2>3. \A i \in 1..(Len(text) - 2) : text[i] \in Octets
    BY <1>1, <2>2, ElementOfSeq
  <2> QED
    BY <2>1, <2>3, SubSeqProperties DEF Body
<1> HIDE DEF body
<1> QED
  BY <1>1, <1>2, FieldsAreRead

\* The option that String writes for a key id.
KeyOption(id) == <<LetterK, Equals>> \o encodeField(id)

LEMMA KeyOptionTypes ==
    ASSUME NEW id \in Seq(Octets)
    PROVE  KeyOption(id) \in Seq(Octets) /\ NoBar(KeyOption(id))
<1>1. <<LetterK, Equals>> \in Seq(Octets) /\ NoBar(<<LetterK, Equals>>)
  <2>1. LetterK \in Octets /\ Equals \in Octets /\ LetterK # Bar /\ Equals # Bar
    BY DEF LetterK, Equals, Octets, Bar
  <2>2. <<LetterK, Equals>> \in Seq(Octets)
    BY <2>1
  <2>3. DOMAIN <<LetterK, Equals>> = 1..2
    OBVIOUS
  <2>4. \A i \in 1..2 : <<LetterK, Equals>>[i] # Bar
    BY <2>1
  <2> QED
    BY <2>2, <2>3, <2>4 DEF NoBar
<1>2. encodeField(id) \in Seq(Octets) /\ NoBar(encodeField(id))
  BY EncodedTypes, EncodedNoBar
<1> QED
  BY <1>1, <1>2, NoBarConcat, ConcatProperties DEF KeyOption

LEMMA KeyOptionReads ==
    ASSUME NEW id \in Seq(Octets), IsKeyID(id)
    PROVE  /\ IsOption(KeyOption(id)) /\ IsKeyOption(KeyOption(id))
           /\ KeyIDOf(KeyOption(id)) = id
<1> DEFINE e == encodeField(id)
           h == <<LetterK, Equals>>
           o == h \o e
           n == Len(e)
<1>1. e \in Seq(Octets) /\ n \in Nat
  BY EncodedTypes, LenProperties
<1>2. h \in Seq(Octets) /\ Len(h) = 2 /\ h[1] = LetterK /\ h[2] = Equals
  BY DEF LetterK, Equals, Octets
<1> HIDE DEF h
<1>3. decodeField(e) = id /\ Decodes(e)
  <2>1. \A c \in 48..57 \cup 65..90 \cup 97..122 \cup {46, 95, 45} : ~isControl(c)
    BY DEF isControl
  <2>2. \A i \in DOMAIN id : id[i] \in 48..57 \cup 65..90 \cup 97..122 \cup {46, 95, 45}
    BY DEF IsKeyID
  <2>3. Plain(id)
    BY <2>1, <2>2 DEF Plain
  <2> QED
    BY <2>3, ReadBack
<1> HIDE DEF e, n
<1>4. /\ o \in Seq(Octets) /\ Len(o) = 2 + n
      /\ \A i \in 1..(2 + n) : o[i] = IF i <= 2 THEN h[i] ELSE e[i - 2]
  <2>1. /\ o \in Seq(Octets) /\ Len(o) = Len(h) + Len(e)
        /\ \A i \in 1..(Len(h) + Len(e)) : o[i] = IF i <= Len(h) THEN h[i] ELSE e[i - Len(h)]
    BY <1>1, <1>2, ConcatProperties
  <2> HIDE DEF o
  <2> QED
    BY <1>2, <2>1 DEF n
<1>5. SubSeq(o, 1, 2) = h
  <2>1. 1 \in 1..Len(h) /\ 2 \in 1..Len(h)
    BY <1>2
  <2>2. SubSeq(o, 1, 2) = SubSeq(h, 1, 2)
    BY <1>1, <1>2, <2>1, SubSeqOfConcat1
  <2> QED
    BY <1>2, <2>2, SubSeqFull
<1>6. SubSeq(o, 3, 2 + n) = e
  <2>1. CASE n = 0
    <3>1. e = <<>>
      BY <1>1, <2>1, EmptySeq DEF n
    <3>2. SubSeq(o, 3, 2 + n) = <<>>
      BY <1>1, <2>1, SubSeqEmpty
    <3> QED
      BY <3>1, <3>2
  <2>2. CASE n > 0
    <3>1. 3 \in (Len(h) + 1)..(Len(h) + n) /\ 2 + n \in (Len(h) + 1)..(Len(h) + n)
      BY <1>1, <1>2, <2>2
    <3>2. SubSeq(o, 3, 2 + n) = SubSeq(e, 3 - Len(h), (2 + n) - Len(h))
      BY <1>1, <1>2, <3>1, SubSeqOfConcat2 DEF n
    <3>3. 3 - Len(h) = 1 /\ (2 + n) - Len(h) = n
      BY <1>1, <1>2
    <3>4. SubSeq(e, 1, n) = e
      BY <1>1, SubSeqFull DEF n
    <3> QED
      BY <3>2, <3>3, <3>4
  <2>3. n = 0 \/ n > 0
    BY <1>1
  <2> QED
    BY <2>1, <2>2, <2>3
<1> HIDE DEF o
<1>7. IsKeyOption(o)
  BY <1>1, <1>4, <1>5 DEF IsKeyOption, h
<1>8. KeyIDOf(o) = id
  BY <1>3, <1>4, <1>6 DEF KeyIDOf
<1>9. IsOption(o)
  <2>1. 2 \in 2..Len(o) /\ 2 + 1 = 3
    BY <1>1, <1>4
  <2>2. o[2] = Equals /\ o[1] = LetterK
    <3>1. 1 \in 1..(2 + n) /\ 2 \in 1..(2 + n)
      BY <1>1
    <3> QED
      BY <1>2, <1>4, <3>1
  <2>3. \A j \in 1..(2 - 1) : j = 1
    OBVIOUS
  <2>4. LetterK \in 65..90 \cup 97..122 /\ LetterK \in 48..57 \cup 65..90 \cup 97..122
    BY DEF LetterK
  <2>5. Decodes(SubSeq(o, 2 + 1, Len(o)))
    BY <1>3, <1>4, <1>6, <2>1
  <2> QED
    BY <2>1, <2>2, <2>3, <2>4, <2>5 DEF IsOption
<1> QED
  BY <1>7, <1>8, <1>9 DEF o, h, e, KeyOption

\* The fields of what String writes.
WrittenFields(link) ==
    LET three == <<encodeField(link.name), encodeField(link.base), encodeField(link.secret)>> IN
    IF link.keyID = <<>> THEN three ELSE Append(three, KeyOption(link.keyID))

LEMMA WrittenIsSplit ==
    ASSUME NEW link \in LinkRecords
    PROVE  Joined(link) \in Seq(Octets) /\ Fields(Joined(link)) = WrittenFields(link)
<1> DEFINE a == encodeField(link.name)
           b == encodeField(link.base)
           c == encodeField(link.secret)
           two == a \o <<Bar>> \o b
           three == two \o <<Bar>> \o c
<1>1. /\ link.name \in Seq(Octets) /\ link.base \in Seq(Octets)
      /\ link.secret \in Seq(Octets) /\ link.keyID \in Seq(Octets)
  BY DEF LinkRecords
<1>2. /\ a \in Seq(Octets) /\ NoBar(a) /\ b \in Seq(Octets) /\ NoBar(b)
      /\ c \in Seq(Octets) /\ NoBar(c)
  BY <1>1, EncodedTypes, EncodedNoBar
<1>3. Bar \in Octets /\ <<Bar>> \in Seq(Octets)
  BY DEF Bar, Octets
<1> DEFINE k == KeyOption(link.keyID)
           tail == <<Bar, LetterK, Equals>> \o encodeField(link.keyID)
<1>4. Joined(link) = IF link.keyID = <<>> THEN three \o <<>> ELSE three \o tail
  BY DEF Joined
<1>5. WrittenFields(link) = IF link.keyID = <<>> THEN <<a, b, c>> ELSE Append(<<a, b, c>>, k)
  BY DEF WrittenFields
<1>6. tail = <<Bar>> \o k
  <2>1. LetterK \in Octets /\ Equals \in Octets
    BY DEF LetterK, Equals, Octets
  <2>2. <<LetterK, Equals>> \in Seq(Octets) /\ <<Bar, LetterK, Equals>> = <<Bar>> \o <<LetterK, Equals>>
    <3>1. <<LetterK, Equals>> \in Seq(Octets) /\ <<Bar, LetterK>> \in Seq(Octets) /\ <<LetterK>> \in Seq(Octets)
      BY <1>3, <2>1
    <3>2. /\ <<Bar, LetterK, Equals>> = Append(<<Bar, LetterK>>, Equals)
          /\ <<Bar, LetterK>> = Append(<<Bar>>, LetterK)
          /\ <<LetterK, Equals>> = Append(<<LetterK>>, Equals)
      BY <1>3, <2>1, AppendTwo, AppendThree
    <3>3. <<Bar>> \o <<LetterK>> = Append(<<Bar>>, LetterK)
      BY <1>3, <2>1, AppendIsConcat
    <3>4. <<Bar>> \o Append(<<LetterK>>, Equals) = Append(<<Bar>> \o <<LetterK>>, Equals)
      BY <1>3, <2>1, <3>1, ConcatAppend
    <3> QED
      BY <3>1, <3>2, <3>3, <3>4
  <2>3. encodeField(link.keyID) \in Seq(Octets)
    BY <1>1, EncodedTypes
  <2>4. (<<Bar>> \o <<LetterK, Equals>>) \o encodeField(link.keyID)
        = <<Bar>> \o (<<LetterK, Equals>> \o encodeField(link.keyID))
    BY <1>3, <2>2, <2>3, ConcatAssociative
  <2> QED
    BY <2>2, <2>4 DEF KeyOption
<1>7. k \in Seq(Octets) /\ NoBar(k)
  BY <1>1, KeyOptionTypes
<1> HIDE DEF a, b, c, k, tail
<1>8. two \in Seq(Octets) /\ Split(two, Bar) = <<a, b>>
  <2>1. a \o <<Bar>> \in Seq(Octets)
    BY <1>2, <1>3, ConcatProperties
  <2>2. two \in Seq(Octets)
    BY <1>2, <2>1, ConcatProperties
  <2>3. Split(a, Bar) = <<a>>
    BY <1>2, SplitFirst
  <2>4. Split(two, Bar) = Append(<<a>>, b)
    BY <1>2, <2>3, SplitNext
  <2>5. Append(<<a>>, b) = <<a, b>>
    BY <1>2, AppendTwo
  <2> QED
    BY <2>2, <2>4, <2>5
<1> HIDE DEF two
<1>9. three \in Seq(Octets) /\ Split(three, Bar) = <<a, b, c>>
  <2>1. two \o <<Bar>> \in Seq(Octets)
    BY <1>8, <1>3, ConcatProperties
  <2>2. three \in Seq(Octets)
    BY <1>2, <2>1, ConcatProperties
  <2>3. Split(three, Bar) = Append(<<a, b>>, c)
    BY <1>2, <1>8, SplitNext
  <2>4. Append(<<a, b>>, c) = <<a, b, c>>
    BY <1>2, AppendThree
  <2> QED
    BY <2>2, <2>3, <2>4
<1> HIDE DEF three
<1>10. CASE link.keyID = <<>>
  <2>1. Joined(link) = three
    BY <1>4, <1>9, <1>10, ConcatEmptySeq
  <2> QED
    BY <1>5, <1>9, <1>10, <2>1 DEF Fields
<1>11. CASE link.keyID # <<>>
  <2>1. Joined(link) = (three \o <<Bar>>) \o k
    BY <1>3, <1>4, <1>6, <1>7, <1>9, <1>11, ConcatAssociative
  <2>2. (three \o <<Bar>>) \o k \in Seq(Octets)
    BY <1>3, <1>7, <1>9, ConcatProperties
  <2>3. Split((three \o <<Bar>>) \o k, Bar) = Append(<<a, b, c>>, k)
    BY <1>7, <1>9, SplitNext
  <2> QED
    BY <1>5, <1>11, <2>1, <2>2, <2>3 DEF Fields
<1> QED
  BY <1>10, <1>11

(* The fields of a link are read back as they were written, if its path does   *)
(* not end in a space.                                                        *)
LEMMA JoinedIsRead ==
    ASSUME NEW link, IsRead(link), ~SpacedPath(link)
    PROVE  HasFields(Joined(link)) /\ ReadFields(Joined(link)) = link
<1> DEFINE body == Joined(link)
           fields == Fields(body)
           a == encodeField(link.name)
           b == encodeField(link.base)
           c == encodeField(link.secret)
           k == KeyOption(link.keyID)
           keys == {i \in Options(body) : IsKeyOption(fields[i])}
<1>1. /\ link \in LinkRecords /\ Plain(link.name) /\ Plain(link.base) /\ IsURL(link.base)
      /\ plausibleSecret(link.secret) /\ (link.keyID # <<>> => IsKeyID(link.keyID))
  BY DEF IsRead
<1>2. /\ link.name \in Seq(Octets) /\ link.base \in Seq(Octets)
      /\ link.secret \in Seq(Octets) /\ link.keyID \in Seq(Octets)
  BY <1>1 DEF LinkRecords
<1>3. Plain(link.secret)
  <2>1. \A x \in Octets : Printable(x) => ~isControl(x)
    BY DEF Octets, Printable, isControl
  <2> QED
    BY <1>1, <1>2, <2>1, ElementOfSeq, LenProperties DEF plausibleSecret, Plain
<1>4. /\ decodeField(a) = link.name /\ Decodes(a)
      /\ decodeField(b) = link.base /\ Decodes(b)
      /\ decodeField(c) = link.secret /\ Decodes(c)
  BY <1>1, <1>2, <1>3, ReadBack
<1>5. Normalizes(link.base) /\ Normalize(link.base) = link.base
  <2>1. /\ link.base # <<>> => link.base[Len(link.base)] # Slash
        /\ ~IsBlank(link.base, Len(link.base))
    BY DEF IsRead, SpacedPath, Last
  <2>2. TrimEnd(link.base) = link.base /\ TrimRight(link.base, Slash) = link.base
    BY <1>2, <2>1, TrimNothing, TrimEndNothing
  <2> QED
    BY <1>1, <2>2 DEF Normalizes, Normalize
<1>6. fields = IF link.keyID = <<>> THEN <<a, b, c>> ELSE Append(<<a, b, c>>, k)
  BY <1>1, WrittenIsSplit DEF WrittenFields
<1>7. /\ a \in Seq(Octets) /\ b \in Seq(Octets) /\ c \in Seq(Octets) /\ k \in Seq(Octets)
  BY <1>2, EncodedTypes, KeyOptionTypes
<1>8. link.keyID # <<>> => IsOption(k) /\ IsKeyOption(k) /\ KeyIDOf(k) = link.keyID
  BY <1>1, <1>2, KeyOptionReads
<1>9. /\ \A i \in Options(body) : i \in DOMAIN fields /\ i > 3
      /\ \A i \in DOMAIN fields : i > 3 => i \in Options(body)
  BY DEF Options
<1>10. /\ HasFields(body) <=>
            /\ Len(fields) >= 3
            /\ \A i \in 1..3 : Decodes(fields[i])
            /\ Normalizes(decodeField(fields[2]))
            /\ plausibleSecret(decodeField(fields[3]))
            /\ \A i \in Options(body) :
                  IsOption(fields[i]) /\ (IsKeyOption(fields[i]) => IsKeyID(KeyIDOf(fields[i])))
       /\ ReadFields(body) = [name |-> decodeField(fields[1]), base |-> Normalize(decodeField(fields[2])),
                              secret |-> decodeField(fields[3]),
                              keyID |-> IF keys = {} THEN <<>> ELSE KeyIDOf(fields[Max(keys)])]
  BY DEF HasFields, ReadFields
<1>11. link = [name |-> link.name, base |-> link.base, secret |-> link.secret, keyID |-> link.keyID]
  BY <1>1 DEF LinkRecords
<1> HIDE DEF a, b, c, k
<1> DEFINE T == <<a, b, c>>
<1>13. /\ T \in Seq(Seq(Octets)) /\ Len(T) = 3 /\ T[1] = a /\ T[2] = b /\ T[3] = c
  BY <1>7
<1> HIDE DEF T, body, fields
<1>14. /\ Len(fields) >= 3 /\ fields[1] = a /\ fields[2] = b /\ fields[3] = c
       /\ link.keyID = <<>> => Options(body) = {}
       /\ link.keyID # <<>> => Options(body) = {4} /\ fields[4] = k
  <2>1. CASE link.keyID = <<>>
    <3>1. fields = T
      BY <1>6, <2>1 DEF T
    <3>2. DOMAIN fields = 1..3
      BY <1>13, <3>1, LenProperties
    <3>3. Options(body) = {}
      BY <1>9, <3>2
    <3>4. Len(fields) = 3 /\ fields[1] = a /\ fields[2] = b /\ fields[3] = c
      BY <1>13, <3>1, Zenon
    <3> QED
      BY <2>1, <3>3, <3>4
  <2>2. CASE link.keyID # <<>>
    <3>1. fields = Append(T, k)
      BY <1>6, <2>2 DEF T
    <3>2. /\ fields \in Seq(Seq(Octets)) /\ Len(fields) = 4 /\ fields[4] = k
          /\ \A i \in 1..3 : fields[i] = T[i]
      BY <1>7, <1>13, <3>1, AppendFourth
    <3>3. DOMAIN fields = 1..4
      BY <3>2, LenProperties
    <3>4. Options(body) = {4}
      BY <1>9, <3>3
    <3>5. 1 \in 1..3 /\ 2 \in 1..3 /\ 3 \in 1..3 /\ 4 >= 3
      OBVIOUS
    <3> QED
      BY <1>13, <2>2, <3>2, <3>4, <3>5
  <2> QED
    BY <2>1, <2>2
<1>15. \A i \in 1..3 : Decodes(fields[i])
  <2>1. \A i \in 1..3 : i = 1 \/ i = 2 \/ i = 3
    OBVIOUS
  <2> QED
    BY <1>4, <1>14, <2>1
<1>16. \A i \in Options(body) :
          IsOption(fields[i]) /\ (IsKeyOption(fields[i]) => IsKeyID(KeyIDOf(fields[i])))
  BY <1>1, <1>8, <1>14
<1>17. (IF keys = {} THEN <<>> ELSE KeyIDOf(fields[Max(keys)])) = link.keyID
  <2>1. CASE link.keyID = <<>>
    BY <1>14, <2>1
  <2>2. CASE link.keyID # <<>>
    <3>1. keys = {4}
      BY <1>8, <1>14, <2>2
    <3> HIDE DEF keys
    <3>2. keys # {} /\ keys \in SUBSET (0..4)
      BY <3>1
    <3>3. Max(keys) \in keys
      BY <3>2, MaxOf
    <3>4. Max(keys) = 4
      BY <3>1, <3>3
    <3> QED
      BY <1>8, <1>14, <2>2, <3>2, <3>4
  <2> QED
    BY <2>1, <2>2
<1> HIDE DEF keys
<1>18. HasFields(body)
  BY <1>1, <1>4, <1>5, <1>10, <1>14, <1>15, <1>16
<1>19. ReadFields(body) = link
  BY <1>4, <1>5, <1>10, <1>11, <1>14, <1>17
<1> QED
  BY <1>18, <1>19 DEF body

\* No space ends in a slash.
LEMMA SlashIsVisible ==
    ASSUME NEW text \in Seq(Octets), text # <<>>, text[Len(text)] = Slash
    PROVE  TrimEnd(text) = text
<1> SUFFICES ASSUME IsBlank(text, Len(text)) PROVE FALSE
  BY TrimEndNothing
<1> DEFINE n == Len(text)
<1>1. n \in Nat
  BY LenProperties
<1>2. PICK j \in 1..n : \E k \in n..n : k <= j + 2 /\ SubSeq(text, j, k) \in Spaces
  BY DEF IsBlank
<1>3. SubSeq(text, j, n) \in Spaces /\ j \in 1..n
  BY <1>1, <1>2
<1> DEFINE s == SubSeq(text, j, n)
<1>4. Len(s) = n - j + 1 /\ s[n - j + 1] = Slash
  <2>1. \A i \in j..n : text[i] \in Octets
    <3>1. \A i \in j..n : i \in 1..n
      BY <1>1, <1>3
    <3> QED
      BY <3>1, ElementOfSeq
  <2>2. j \in Int /\ n \in Int /\ j <= n /\ n - j + 1 \in 1..(n - j + 1) /\ j + (n - j + 1) - 1 = n
    BY <1>1, <1>3
  <2> HIDE DEF n
  <2>3. /\ Len(SubSeq(text, j, n)) = IF j <= n THEN n - j + 1 ELSE 0
        /\ \A i \in 1..(n - j + 1) : SubSeq(text, j, n)[i] = text[j + i - 1]
    BY <2>1, <2>2, SubSeqProperties
  <2>4. s[n - j + 1] = text[n]
    BY <2>2, <2>3
  <2> QED
    BY <2>2, <2>3, <2>4 DEF n
<1>5. s \in Spaces /\ s[Len(s)] = Slash
  BY <1>3, <1>4
<1> HIDE DEF s, n
<1>6. CASE s \in {<<c>> : c \in 9..13 \cup {Space}}
  <2>1. PICK c \in 9..13 \cup {Space} : s = <<c>>
    BY <1>6
  <2>2. s[Len(s)] = c
    BY <2>1
  <2> QED
    BY <1>5, <2>2 DEF Slash, Space
<1>7. CASE s \in {<<194, c>> : c \in {133, 160}}
  <2>1. PICK c \in {133, 160} : s = <<194, c>>
    BY <1>7
  <2>2. s[Len(s)] = c
    BY <2>1
  <2> QED
    BY <1>5, <2>2 DEF Slash
<1>8. CASE s \in {<<226, 128, c>> : c \in 128..138 \cup {168, 169, 175}}
  <2>1. PICK c \in 128..138 \cup {168, 169, 175} : s = <<226, 128, c>>
    BY <1>8
  <2>2. s[Len(s)] = c
    BY <2>1
  <2> QED
    BY <1>5, <2>2 DEF Slash
<1>9. CASE s \in {<<225, 154, 128>>, <<226, 129, 159>>, <<227, 128, 128>>}
  <2>1. s = <<225, 154, 128>> => s[Len(s)] = 128
    OBVIOUS
  <2>2. s = <<226, 129, 159>> => s[Len(s)] = 159
    OBVIOUS
  <2>3. s = <<227, 128, 128>> => s[Len(s)] = 128
    OBVIOUS
  <2>4. s[Len(s)] \in {128, 159}
    BY <1>9, <2>1, <2>2, <2>3
  <2> QED
    BY <1>5, <2>4 DEF Slash
<1> QED
  BY <1>5, <1>6, <1>7, <1>8, <1>9 DEF Spaces

\* What String closes a link with, and what stands before it.
LEMMA StringIsClosed ==
    ASSUME NEW link \in LinkRecords
    PROVE  /\ String(link) \in Seq(Octets) /\ TrimEnd(String(link)) = String(link)
           /\ IsClosed(String(link)) /\ Body(String(link)) = Joined(link)
           /\ Split(String(link), Bar) = Append(WrittenFields(link), <<Slash>>)
<1> DEFINE body == Joined(link)
           text == String(link)
           n == Len(body)
<1>1. body \in Seq(Octets) /\ Split(body, Bar) = WrittenFields(link)
  BY WrittenIsSplit DEF Fields
<1>2. text = body \o Closing
  BY DEF String
<1>3. Bar \in Octets /\ Slash \in Octets /\ Slash # Bar
  BY DEF Bar, Slash, Octets
<1>4. Closing \in Seq(Octets) /\ Len(Closing) = 2 /\ Closing[2] = Slash
  BY <1>3 DEF Closing
<1>5. <<Bar>> \in Seq(Octets) /\ <<Slash>> \in Seq(Octets) /\ Closing = <<Bar>> \o <<Slash>>
  <2>1. <<Bar>> \in Seq(Octets) /\ <<Slash>> \in Seq(Octets)
    BY <1>3
  <2>2. Append(<<Bar>>, Slash) = <<Bar, Slash>>
    BY AppendTwo
  <2>3. Append(<<Bar>>, Slash) = <<Bar>> \o <<Slash>>
    BY <1>3, <2>1, AppendIsConcat
  <2> QED
    BY <2>1, <2>2, <2>3 DEF Closing
<1> HIDE DEF body, text
<1>6. n \in Nat
  BY <1>1, LenProperties
<1>7. /\ text \in Seq(Octets) /\ Len(text) = n + 2
      /\ \A i \in 1..(n + 2) : text[i] = IF i <= n THEN body[i] ELSE Closing[i - n]
  <2>1. /\ body \o Closing \in Seq(Octets) /\ Len(body \o Closing) = Len(body) + Len(Closing)
        /\ \A i \in 1..(Len(body) + Len(Closing)) :
              (body \o Closing)[i] = IF i <= Len(body) THEN body[i] ELSE Closing[i - Len(body)]
    BY <1>1, <1>4, ConcatProperties
  <2> QED
    BY <1>2, <1>4, <2>1, Zenon
<1>8. text # <<>> /\ text[Len(text)] = Slash
  <2>1. Len(text) \in 1..(n + 2) /\ Len(text) > n /\ Len(text) - n = 2 /\ Len(text) # 0
    BY <1>6, <1>7
  <2> QED
    BY <1>4, <1>7, <2>1
<1>9. TrimEnd(text) = text
  BY <1>7, <1>8, SlashIsVisible
<1>10. IsClosed(text)
  <2>1. n + 1 \in (n + 1)..(n + Len(Closing)) /\ n + 2 \in (n + 1)..(n + Len(Closing))
    BY <1>4, <1>6
  <2>2. SubSeq(text, n + 1, n + 2) = SubSeq(Closing, (n + 1) - n, (n + 2) - n)
    BY <1>1, <1>2, <1>4, <2>1, SubSeqOfConcat2
  <2>3. (n + 1) - n = 1 /\ (n + 2) - n = Len(Closing) /\ Len(text) - 1 = n + 1 /\ Len(text) >= 2
    BY <1>4, <1>6, <1>7
  <2>4. SubSeq(Closing, 1, Len(Closing)) = Closing
    BY <1>4, SubSeqFull
  <2> QED
    BY <1>7, <2>2, <2>3, <2>4 DEF IsClosed
<1>11. Body(text) = body
  <2>1. Len(text) - 2 = n
    BY <1>6, <1>7
  <2>2. CASE n = 0
    <3>1. body = <<>> /\ SubSeq(text, 1, n) = <<>>
      BY <1>1, <2>2, EmptySeq, SubSeqEmpty
    <3> QED
      BY <2>1, <3>1 DEF Body
  <2>3. CASE n # 0
    <3>1. 1 \in 1..Len(body) /\ n \in 1..Len(body)
      BY <1>6, <2>3
    <3>2. SubSeq(text, 1, n) = SubSeq(body, 1, n)
      BY <1>1, <1>2, <1>4, <3>1, SubSeqOfConcat1
    <3> QED
      BY <1>1, <2>1, <3>2, SubSeqFull DEF Body
  <2> QED
    BY <2>2, <2>3
<1>12. Split(text, Bar) = Append(WrittenFields(link), <<Slash>>)
  <2>1. text = (body \o <<Bar>>) \o <<Slash>>
    BY <1>1, <1>2, <1>5, ConcatAssociative
  <2>2. NoBar(<<Slash>>)
    BY <1>3 DEF NoBar
  <2> QED
    BY <1>1, <1>5, <2>1, <2>2, SplitNext
<1> QED
  BY <1>7, <1>9, <1>10, <1>11, <1>12 DEF body, text

\* A link is read back as it was written, if it is not too long then.
LEMMA WrittenIsRead ==
    ASSUME NEW link, IsRead(link), Len(String(link)) <= maxLength, ~SpacedPath(link)
    PROVE  IsLink(String(link)) /\ Parse(String(link)) = link
<1>1. HasFields(Joined(link)) /\ ReadFields(Joined(link)) = link
  BY JoinedIsRead
<1>2. /\ TrimEnd(String(link)) = String(link)
      /\ IsClosed(String(link)) /\ Body(String(link)) = Joined(link)
  BY StringIsClosed DEF IsRead
<1> QED
  BY <1>1, <1>2 DEF IsLink, Parse

\* The fields before the secret and behind it are all that Redact leaves.
LEMMA SameRedacted ==
    ASSUME NEW link \in LinkRecords, NEW other \in LinkRecords,
           other.name = link.name, other.base = link.base, other.keyID = link.keyID
    PROVE  Redact(String(link)) = Redact(String(other))
<1> DEFINE a == encodeField(link.name)
           b == encodeField(link.base)
           c == encodeField(link.secret)
           d == encodeField(other.secret)
           k == KeyOption(link.keyID)
           V == WrittenFields(link)
           W == WrittenFields(other)
           F == Append(V, <<Slash>>)
           G == Append(W, <<Slash>>)
<1>1. /\ a \in Seq(Octets) /\ b \in Seq(Octets) /\ c \in Seq(Octets) /\ d \in Seq(Octets)
      /\ k \in Seq(Octets)
  BY EncodedTypes, KeyOptionTypes DEF LinkRecords
<1>2. /\ V = IF link.keyID = <<>> THEN <<a, b, c>> ELSE Append(<<a, b, c>>, k)
      /\ W = IF link.keyID = <<>> THEN <<a, b, d>> ELSE Append(<<a, b, d>>, k)
  BY DEF WrittenFields
<1>3. /\ Redact(String(link)) = [i \in DOMAIN F |-> IF i = SecretField THEN Ellipsis ELSE F[i]]
      /\ Redact(String(other)) = [i \in DOMAIN G |-> IF i = SecretField THEN Ellipsis ELSE G[i]]
  BY StringIsClosed DEF Redact
<1> HIDE DEF a, b, c, d, k
<1> DEFINE S == <<a, b, c>>
           T == <<a, b, d>>
<1>4. /\ S \in Seq(Seq(Octets)) /\ Len(S) = 3 /\ T \in Seq(Seq(Octets)) /\ Len(T) = 3
      /\ S[1] = a /\ S[2] = b /\ T[1] = a /\ T[2] = b
  BY <1>1
<1> HIDE DEF S, T, V, W
<1>5. /\ V \in Seq(Seq(Octets)) /\ W \in Seq(Seq(Octets)) /\ Len(V) = Len(W)
      /\ \A i \in 1..Len(V) : i # 3 => V[i] = W[i]
  <2>1. \A i \in 1..3 : i # 3 => S[i] = T[i]
    <3>1. \A i \in 1..3 : i # 3 => i = 1 \/ i = 2
      OBVIOUS
    <3> QED
      BY <1>4, <3>1
  <2>2. CASE link.keyID = <<>>
    <3>1. V = S /\ W = T
      BY <1>2, <2>2 DEF S, T
    <3> QED
      BY <1>4, <2>1, <3>1
  <2>3. CASE link.keyID # <<>>
    <3>1. V = Append(S, k) /\ W = Append(T, k)
      BY <1>2, <2>3 DEF S, T
    <3>2. \A s \in Seq(Seq(Octets)) :
             Len(s) = 3 => /\ Append(s, k) \in Seq(Seq(Octets)) /\ Len(Append(s, k)) = 4
                           /\ Append(s, k)[4] = k
                           /\ \A i \in 1..3 : Append(s, k)[i] = s[i]
      BY <1>1, AppendFourth
    <3>3. \A i \in 1..4 : i = 4 \/ i \in 1..3
      OBVIOUS
    <3> QED
      BY <1>4, <2>1, <3>1, <3>2, <3>3
  <2> QED
    BY <2>2, <2>3
<1>6. DOMAIN F = DOMAIN G /\ \A i \in DOMAIN F : i # 3 => F[i] = G[i]
  <2> DEFINE n == Len(V)
  <2>1. n \in Nat /\ <<Slash>> \in Seq(Octets)
    BY <1>5, LenProperties DEF Slash, Octets
  <2> HIDE DEF n
  <2>2. /\ DOMAIN F = 1..(n + 1) /\ F[n + 1] = <<Slash>> /\ \A i \in 1..n : F[i] = V[i]
        /\ DOMAIN G = 1..(n + 1) /\ G[n + 1] = <<Slash>> /\ \A i \in 1..n : G[i] = W[i]
    <3>1. ASSUME NEW s \in Seq(Seq(Octets)), Len(s) = n
          PROVE  /\ DOMAIN Append(s, <<Slash>>) = 1..(n + 1) /\ Append(s, <<Slash>>)[n + 1] = <<Slash>>
                 /\ \A i \in 1..n : Append(s, <<Slash>>)[i] = s[i]
      <4>1. /\ Append(s, <<Slash>>) \in Seq(Seq(Octets)) /\ Len(Append(s, <<Slash>>)) = Len(s) + 1
            /\ Append(s, <<Slash>>)[Len(s) + 1] = <<Slash>>
            /\ \A i \in 1..Len(s) : Append(s, <<Slash>>)[i] = s[i]
        BY <2>1, AppendProperties
      <4> QED
        BY <3>1, <4>1, LenProperties
    <3> QED
      BY <1>5, <3>1 DEF n
  <2>3. \A i \in 1..(n + 1) : i = n + 1 \/ i \in 1..n
    BY <2>1
  <2> QED
    BY <1>5, <2>2, <2>3 DEF n
<1> QED
  BY <1>3, <1>6 DEF SecretField

-----------------------------------------------------------------------------
(* The clipboard. *)

Clipped == clipboard \in Seq(Octets)

LEMMA Clipboard == LinksSpec => []Clipped
<1>1. LinksInit => Clipped
  BY EmptySeq DEF LinksInit, Clipped
<1>2. Clipped /\ [LinksNext]_linkVars => Clipped'
  <2> SUFFICES ASSUME clipboard \in Seq(Octets), [LinksNext]_linkVars
               PROVE  clipboard' \in Seq(Octets)
    BY DEF Clipped
  <2>1. CASE LinksNext
    <3>1. PICK piece \in Typing : clipboard' = clipboard \o piece
      BY <2>1 DEF LinksNext, Pastes
    <3>2. piece \in Seq(Octets)
      BY <3>1, LinksAssumption
    <3> QED
      BY <3>1, <3>2, ConcatProperties
  <2>2. CASE UNCHANGED linkVars
    BY <2>2 DEF linkVars
  <2> QED
    BY <2>1, <2>2
<1> QED
  BY <1>1, <1>2, PTL DEF LinksSpec

(* A link that is read and written again is the same link: Parse takes String  *)
(* back, whatever octets the clipboard held.                                  *)
THEOREM LinkSurvivesAlways == LinksSpec => []LinkSurvives
<1>1. Clipped => LinkSurvives
  <2> SUFFICES ASSUME clipboard \in Seq(Octets), IsLink(clipboard),
                      Len(String(Parse(clipboard))) <= maxLength, ~SpacedPath(Parse(clipboard))
               PROVE  /\ IsLink(String(Parse(clipboard)))
                      /\ Parse(String(Parse(clipboard))) = Parse(clipboard)
    BY DEF LinkSurvives, Clipped
  <2>1. IsRead(Parse(clipboard))
    BY ParsedIsRead
  <2> QED
    BY <2>1, WrittenIsRead
<1> QED
  BY <1>1, Clipboard, PTL

(* Redact's text does not depend on the secret that String wrote: any other in  *)
(* its place leaves the same, for Typing is whatever set of texts one likes.   *)
THEOREM SecretIsRedactedAlways == LinksSpec => []SecretIsRedacted
<1>1. Clipped => SecretIsRedacted
  <2> SUFFICES ASSUME clipboard \in Seq(Octets), IsLink(clipboard), NEW secret \in Typing
               PROVE  LET link == Parse(clipboard) IN
                      Redact(String(link)) = Redact(String([link EXCEPT !.secret = secret]))
    BY DEF SecretIsRedacted, Clipped
  <2> DEFINE link == Parse(clipboard)
             other == [link EXCEPT !.secret = secret]
  <2>1. link \in LinkRecords
    BY ParsedIsRead DEF IsRead
  <2> HIDE DEF link
  <2>2. secret \in Seq(Octets)
    BY LinksAssumption
  <2>3. /\ other \in LinkRecords /\ other.name = link.name /\ other.base = link.base
        /\ other.keyID = link.keyID
    BY <2>1, <2>2 DEF LinkRecords
  <2> HIDE DEF other
  <2>4. Redact(String(link)) = Redact(String(other))
    BY <2>1, <2>3, SameRedacted
  <2> QED
    BY <2>4 DEF link, other
<1> QED
  BY <1>1, Clipboard, PTL

-----------------------------------------------------------------------------
(* Expand leaves text without a dollar alone. *)

PlainText == Octets \ {Dollar}

\* What Expanding has come to behind such text.
Expanded(text) == [mode |-> "text", text |-> text, name |-> <<>>]

ExpandedTexts == {Expanded(text) : text \in Seq(Octets)}

LEMMA ExpandStep ==
    ASSUME NEW text \in Seq(Octets), NEW c \in PlainText
    PROVE  /\ Expanding(Expanded(text), c) = Expanded(Append(text, c))
           /\ Append(text, c) \in Seq(Octets)
<1>1. Append(text, c) \in Seq(Octets)
  BY AppendProperties DEF PlainText
<1>2. c # Dollar
  BY DEF PlainText
<1> HIDE DEF Dollar
<1>3. Expanding(Expanded(text), c) = [Expanded(text) EXCEPT !.text = Append(@, c)]
  BY <1>2 DEF Expanding, Expanded
<1> QED
  BY <1>1, <1>3 DEF Expanded

LEMMA ExpandTypes ==
    ASSUME NEW e \in ExpandedTexts, NEW c \in PlainText
    PROVE  Expanding(e, c) \in ExpandedTexts
<1>1. PICK text \in Seq(Octets) : e = Expanded(text)
  BY DEF ExpandedTexts
<1> QED
  BY <1>1, ExpandStep DEF ExpandedTexts

LEMMA ExpandPlain ==
    ASSUME NEW text \in Seq(PlainText)
    PROVE  Expand(text) = text
<1> DEFINE step == [p \in ExpandedTexts \X PlainText |-> Expanding(p[1], p[2])]
           Fits(it) == it = [s \in SUBSET DOMAIN text |->
                               IF s = {} THEN Expanded(<<>>)
                               ELSE Expanding(it[s \ {Max(s)}], text[Max(s)])]
           n == Len(text)
<1>1. n \in Nat /\ DOMAIN text = 1..n
  BY LenProperties
<1>2. Expanded(<<>>) \in ExpandedTexts
  BY EmptySeq DEF ExpandedTexts
<1>3. \E it : Fits(it)
  <2>1. step \in [ExpandedTexts \X PlainText -> ExpandedTexts]
    BY ExpandTypes
  <2>2. \A e \in ExpandedTexts, c \in PlainText : step[<<e, c>>] = Expanding(e, c)
    OBVIOUS
  <2> HIDE DEF step
  <2>3. PICK it : FoldsTo(ExpandedTexts, Expanded(<<>>), text, step, it)
    BY <1>2, <2>1, FoldExists
  <2>4. \A s \in SUBSET DOMAIN text : it[s] = IF s = {} THEN Expanded(<<>>)
                                             ELSE Expanding(it[s \ {Max(s)}], text[Max(s)])
    BY <2>2, <2>3, LastOf DEF FoldsTo
  <2> QED
    BY <2>3, <2>4 DEF FoldsTo
<1> DEFINE folded == FoldLeft(Expanding, Expanded(<<>>), text)
<1>4. PICK it : Fits(it) /\ folded = it[DOMAIN text]
  <2> DEFINE chosen == CHOOSE it : Fits(it)
  <2>1. folded = chosen[DOMAIN text]
    BY DEF FoldLeft, MapThenFoldSet
  <2>2. Fits(chosen)
    BY <1>3
  <2> QED
    BY <2>1, <2>2
<1> HIDE DEF folded
<1> DEFINE P == {k \in 0..n : it[1..k] = Expanded(SubSeq(text, 1, k))}
<1>5. 0 \in P
  <2>1. 1..0 = {} /\ 0 \in 0..n /\ SubSeq(text, 1, 0) = <<>>
    BY <1>1
  <2> QED
    BY <1>4, <2>1
<1>6. ASSUME NEW k \in 0..(n - 1), k \in P PROVE k + 1 \in P
  <2>1. k \in Nat /\ k \in 0..n /\ k + 1 \in 0..n /\ k + 1 \in 1..(k + 1) /\ k + 1 \in 1..n
    BY <1>1
  <2>2. 1..(k + 1) \in SUBSET DOMAIN text /\ 1..(k + 1) # {}
    <3>1. 1..(k + 1) # {}
      BY <2>1, Zenon
    <3>2. 1..(k + 1) \subseteq 1..n
      BY <1>1, <2>1
    <3> QED
      BY <1>1, <3>1, <3>2
  <2>3. Max(1..(k + 1)) = k + 1 /\ (1..(k + 1)) \ {k + 1} = 1..k
    BY <2>1, LastPlace
  <2>4. it[1..(k + 1)] = Expanding(it[1..k], text[k + 1])
    BY <1>4, <2>2, <2>3
  <2>5. it[1..k] = Expanded(SubSeq(text, 1, k))
    BY <1>6
  <2>6. text[k + 1] \in PlainText
    BY <2>1, ElementOfSeq
  <2>7. SubSeq(text, 1, k) \in Seq(Octets) /\ Append(SubSeq(text, 1, k), text[k + 1]) = SubSeq(text, 1, k + 1)
    <3>1. SubSeq(text, 1, k) \in Seq(PlainText)
      <4>1. \A i \in 1..k : text[i] \in PlainText
        <5>1. \A i \in 1..k : i \in 1..n
          BY <1>1, <2>1
        <5> QED
          BY <5>1, ElementOfSeq
      <4> QED
        BY <2>1, <4>1, SubSeqProperties
    <3>2. SubSeq(text, 1, k + 1) = SubSeq(text, 1, (k + 1) - 1) \o <<text[k + 1]>>
      <4>1. 1 \in 1..n /\ k + 1 \in 1..n
        BY <1>1, <2>1
      <4> QED
        BY <4>1, SubSeqRecursiveSecond
    <3>3. (k + 1) - 1 = k
      BY <2>1
    <3>4. Append(SubSeq(text, 1, k), text[k + 1]) = SubSeq(text, 1, k) \o <<text[k + 1]>>
      BY <2>6, <3>1, AppendIsConcat
    <3>5. SubSeq(text, 1, k) \in Seq(Octets)
      <4>1. Seq(PlainText) \subseteq Seq(Octets)
        BY DEF PlainText
      <4> QED
        BY <3>1, <4>1
    <3> QED
      BY <3>2, <3>3, <3>4, <3>5
  <2>8. it[1..(k + 1)] = Expanded(SubSeq(text, 1, k + 1))
    BY <2>4, <2>5, <2>6, <2>7, ExpandStep
  <2> QED
    BY <2>1, <2>8
<1> HIDE DEF P
<1>7. 0..n \subseteq P
  BY <1>1, <1>5, <1>6, Counting
<1>8. folded = Expanded(text)
  <2>1. n \in P /\ SubSeq(text, 1, n) = text
    BY <1>1, <1>7, SubSeqFull
  <2> QED
    BY <1>1, <1>4, <2>1 DEF P
<1>9. Expand(text) = folded.text
  BY <1>8 DEF Expand, Expanded, folded
<1> QED
  BY <1>8, <1>9 DEF Expanded

-----------------------------------------------------------------------------
(* The install form. *)

\* What verify must be given: what none of FormLoadsBack's exceptions is true of.
Loadable(f) ==
    /\ \A c \in ToSet(f.keyId) : c # Dot /\ c \notin 65..90
    /\ ~Retyped(KeyIDOfForm(f))
    /\ KeyIDOfForm(f) \notin RewrittenNames
    /\ f.publicBaseUrl.kind # "upper"
    /\ Dollar \notin ToSet(f.publicBaseUrl.path)
    /\ IsUTF8(Normalize(f.publicBaseUrl.path))
    /\ Len(Normalize(f.publicBaseUrl.path)) <= maxPublicBaseURL
    /\ \A i \in 1..(Len(f.publicBaseUrl.path) - 1) :
          ~(IsBlank(f.publicBaseUrl.path, i) /\ f.publicBaseUrl.path[i + 1] = Slash)
    /\ \A x \in {"openUploadQuotaGb", "quotaGb", "minFreeGb"} : f[x].kind # "nan"

LEMMA FormFields ==
    ASSUME NEW f \in Form
    PROVE  /\ f.keyId \in Seq(Octets) /\ f.publicBaseUrl \in URL
           /\ \A x \in {"openUploadQuotaGb", "quotaGb", "minFreeGb", "defaultTtlHours", "maxTtlHours"} :
                 f[x] \in Number
BY DEF Form

\* A key id without capitals is the key that viper makes of it.
LEMMA KeyLoads ==
    ASSUME NEW f \in Form, Loadable(f), KeyIDOfForm(f) # anonymous
    PROVE  LoadsKey(KeyIDOfForm(f), KeyIDOfForm(f))
<1> DEFINE id == KeyIDOfForm(f)
           key == f.keyId
<1>1. key \in Seq(Octets)
  BY FormFields
<1>2. id \in Seq(Octets) /\ \A i \in 1..Len(id) : \E j \in 1..Len(key) : id[i] = key[j]
  BY <1>1, TrimSpaceTypes DEF KeyIDOfForm
<1>3. \A i \in 1..Len(key) : key[i] # Dot /\ key[i] \notin 65..90
  <2>1. \A c \in ToSet(key) : c # Dot /\ c \notin 65..90
    BY DEF Loadable
  <2>2. \A i \in 1..Len(key) : key[i] \in ToSet(key)
    BY <1>1, LenProperties DEF ToSet
  <2> QED
    BY <2>1, <2>2
<1> HIDE DEF id, key
<1>4. Len(id) \in Nat /\ DOMAIN id = 1..Len(id) /\ id \in [1..Len(id) -> Octets]
  BY <1>1, <1>2, LenProperties
<1>5. \A i \in 1..Len(id) : id[i] # Dot /\ id[i] \notin 65..90
  BY <1>2, <1>3
<1>6. ~Contains(id, Dot)
  BY <1>5 DEF Contains
<1>7. id = [i \in DOMAIN id |-> Lower(id[i])]
  BY <1>4, <1>5 DEF Lower
<1>8. id # anonymous /\ ~Retyped(id)
  BY DEF id, Loadable
<1> QED
  BY <1>6, <1>7, <1>8 DEF LoadsKey, id

\* What Normalize leaves of such a path does not end in a space.
LEMMA PathLoads ==
    ASSUME NEW f \in Form, Loadable(f)
    PROVE  LET path == Normalize(f.publicBaseUrl.path) IN
           Expand(Quoted(path)) = path /\ Trimmed(path) = path
<1> DEFINE text == f.publicBaseUrl.path
           y == TrimEnd(text)
           z == TrimRight(y, Slash)
<1>1. text \in Seq(Octets)
  BY FormFields DEF URL
<1>2. /\ Dollar \notin ToSet(text)
      /\ \A i \in 1..(Len(text) - 1) : ~(IsBlank(text, i) /\ text[i + 1] = Slash)
  BY DEF Loadable
<1>3. Normalize(text) = z
  BY DEF Normalize
<1>4. Quoted(z) = z
  BY <1>3 DEF Loadable, Quoted
<1> HIDE DEF text
<1>5. /\ y \in Seq(Octets) /\ Len(y) <= Len(text)
      /\ \A i \in 1..Len(y) : y[i] = text[i]
      /\ ~IsBlank(y, Len(y))
  BY <1>1, TrimEndTypes
<1> HIDE DEF y
<1>6. /\ z \in Seq(Octets) /\ Len(z) <= Len(y)
      /\ \A i \in 1..Len(z) : z[i] = y[i]
      /\ \A i \in (Len(z) + 1)..Len(y) : y[i] = Slash
  BY <1>5, TrimTypes
<1> HIDE DEF z
<1>7. /\ Len(text) \in Nat /\ Len(y) \in Nat /\ Len(z) \in Nat
      /\ DOMAIN text = 1..Len(text) /\ DOMAIN z = 1..Len(z)
  BY <1>1, <1>5, <1>6, LenProperties
<1>8. ~IsBlank(z, Len(z))
  <2> SUFFICES ASSUME IsBlank(z, Len(z)) PROVE FALSE
    OBVIOUS
  <2> DEFINE m == Len(z)
  <2>1. IsBlank(y, m)
    BY <1>5, <1>6, <1>7, BlankBegins
  <2>2. IsBlank(text, m)
    BY <1>1, <1>5, <1>7, <2>1, BlankBegins
  <2>3. m # 0
    BY DEF IsBlank
  <2>4. m # Len(y)
    BY <1>5, <2>1
  <2> HIDE DEF m
  <2>5. /\ m \in 1..(Len(text) - 1) /\ m + 1 \in 1..Len(y) /\ m + 1 \in (m + 1)..Len(y)
    BY <1>5, <1>6, <1>7, <2>3, <2>4 DEF m
  <2>6. y[m + 1] = Slash
    BY <1>6, <2>5 DEF m
  <2>7. text[m + 1] = Slash
    BY <1>5, <2>5, <2>6
  <2> QED
    BY <1>2, <2>2, <2>5, <2>7
<1>9. Trimmed(z) = z
  <2>1. ~IsBlank(z, Len(z)) => Normalize(z) = z
    BY <1>1, <1>3, NormalizeTwice
  <2> QED
    BY <1>8, <2>1 DEF Trimmed, Normalize
<1>10. Expand(z) = z
  <2>1. \A i \in 1..Len(z) : z[i] \in PlainText
    <3>1. \A i \in 1..Len(text) : text[i] # Dollar
      BY <1>1, <1>2, <1>7 DEF ToSet
    <3>2. \A i \in 1..Len(z) : i \in 1..Len(y) /\ i \in 1..Len(text)
      BY <1>5, <1>6, <1>7
    <3>3. \A i \in 1..Len(z) : z[i] = text[i] /\ z[i] \in Octets
      BY <1>5, <1>6, <3>2, ElementOfSeq
    <3> QED
      BY <3>1, <3>2, <3>3 DEF PlainText
  <2>2. z \in Seq(PlainText)
    <3>1. z \in [1..Len(z) -> PlainText]
      <4>1. z \in [1..Len(z) -> Octets]
        BY <1>6, LenProperties
      <4> QED
        BY <2>1, <4>1
    <3> QED
      BY <1>7, <3>1, SeqDef
  <2> QED
    BY <2>2, ExpandPlain
<1> QED
  BY <1>3, <1>4, <1>9, <1>10 DEF text

LEMMA NoFaults ==
    ASSUME NEW f, Faults(f) = {}
    PROVE  /\ KeyIDOfForm(f) # anonymous
           /\ \A x \in {"openUploadQuotaGb", "quotaGb", "minFreeGb"} : GigabytesOK(f[x])
           /\ HoursOK(f.defaultTtlHours) /\ HoursOK(f.maxTtlHours)
           /\ ~(f.maxTtlHours.value < f.defaultTtlHours.value)
           /\ URLOK(f.publicBaseUrl)
<1>1. /\ {x \in {"keyId"} : ~IsKeyID(KeyIDOfForm(f)) \/ KeyIDOfForm(f) = anonymous} = {}
      /\ {x \in {"openUploadQuotaGb", "quotaGb", "minFreeGb"} : ~GigabytesOK(f[x])} = {}
      /\ {x \in {"defaultTtlHours", "maxTtlHours"} : ~HoursOK(f[x])} = {}
      /\ {x \in {"maxTtlHours"} : /\ HoursOK(f.defaultTtlHours) /\ HoursOK(f.maxTtlHours)
                                  /\ f.maxTtlHours.value < f.defaultTtlHours.value} = {}
      /\ {x \in {"publicBaseUrl"} : ~URLOK(f.publicBaseUrl)} = {}
  BY DEF Faults
<1>2. /\ KeyIDOfForm(f) # anonymous
      /\ \A x \in {"openUploadQuotaGb", "quotaGb", "minFreeGb"} : GigabytesOK(f[x])
      /\ URLOK(f.publicBaseUrl)
  BY <1>1
<1>3. \A x \in {"defaultTtlHours", "maxTtlHours"} : HoursOK(f[x])
  BY <1>1
<1>4. HoursOK(f.defaultTtlHours) /\ HoursOK(f.maxTtlHours)
  BY <1>3
<1>5. ~(f.maxTtlHours.value < f.defaultTtlHours.value)
  BY <1>1, <1>4
<1> QED
  BY <1>2, <1>4, <1>5

LEMMA Verified ==
    ASSUME NEW f \in Form, Loadable(f), Faults(f) = {}, NEW nan
    PROVE  ~Refuses(FromForm(f, nan)) /\ verify(FromForm(f, nan), render(FromForm(f, nan)))
<1> DEFINE url == f.publicBaseUrl
           path == Normalize(url.path)
           id == KeyIDOfForm(f)
           s == FromForm(f, nan)
<1>1. Expand(Quoted(path)) = path /\ Trimmed(path) = path /\ Len(path) <= maxPublicBaseURL
  BY PathLoads DEF Loadable
<1>2. LoadsKey(id, id)
  BY NoFaults, KeyLoads
<1>3. url = [kind |-> url.kind, path |-> url.path]
  BY FormFields DEF URL
<1>4. url.kind \in {"blank", "lower"}
  BY NoFaults DEF URLOK, Loadable
<1> HIDE DEF path, id, url
<1> DEFINE g == Bytes(f.openUploadQuotaGb, nan)
           h == Bytes(f.quotaGb, nan)
           m == Bytes(f.minFreeGb, nan)
           d == f.defaultTtlHours.value
           e == f.maxTtlHours.value
           at == [kind |-> url.kind, path |-> path]
<1>5. s = [keyID |-> id, openUpload |-> f.openUpload, openQuota |-> g, quota |-> h, minFree |-> m,
           defaultTTL |-> d, maxTTL |-> e, baseURL |-> at]
  <2>1. [url EXCEPT !.path = Normalize(@)] = at
    BY <1>3 DEF path
  <2> QED
    BY <2>1 DEF FromForm, id, url
<1>6. AtLeast0(g) = g /\ AtLeast0(h) = h /\ AtLeast0(m) = m
  <2>1. ASSUME NEW x \in {"openUploadQuotaGb", "quotaGb", "minFreeGb"}
        PROVE  AtLeast0(Bytes(f[x], nan)) = Bytes(f[x], nan)
    <3>1. GigabytesOK(f[x]) /\ f[x].kind # "nan"
      BY NoFaults DEF Loadable
    <3>2. f[x].value \in 0..maxGigabytes
      BY <3>1 DEF GigabytesOK
    <3> QED
      BY <3>1, <3>2 DEF Bytes, AtLeast0
  <2> QED
    BY <2>1
<1>7. d \in Int /\ e \in Int /\ d <= e
  <2>1. d \in 1..maxHours /\ e \in 1..maxHours /\ ~(e < d)
    BY NoFaults DEF HoursOK
  <2> QED
    BY <2>1
<1> HIDE DEF g, h, m, d, e
<1>8. [at EXCEPT !.path = Expand(Quoted(@))] = at /\ LoadedURL(at) = at /\ at.kind = url.kind /\ at.path = path
  BY <1>1 DEF LoadedURL
<1> HIDE DEF at
<1>9. render(s) = s
  <2>1. render(s) = [s EXCEPT !.baseURL = [s.baseURL EXCEPT !.path = Expand(Quoted(s.baseURL.path))]]
    BY DEF render
  <2> HIDE DEF s
  <2>2. s.baseURL = at
    BY <1>5
  <2>3. [s EXCEPT !.baseURL = at] = s
    BY <1>5
  <2> QED
    BY <1>8, <2>1, <2>2, <2>3
<1> HIDE DEF s
<1>10. /\ s.keyID = id /\ s.openQuota = g /\ s.quota = h /\ s.minFree = m
       /\ s.defaultTTL = d /\ s.maxTTL = e /\ s.baseURL = at
  BY <1>5
<1>11. ParsesFile(s)
  BY <1>1, <1>4, <1>7, <1>8, <1>10 DEF ParsesFile
<1>12. verify(s, s)
  BY <1>2, <1>6, <1>8, <1>10, <1>11 DEF verify
<1>13. ~Refuses(s)
  BY <1>10 DEF Refuses, Loadable, id
<1> QED
  BY <1>9, <1>12, <1>13 DEF s

\* The form holds what may be typed; it is frozen once it is sent.
FormTyped == form \in Form /\ (outcome = "refused" => ~Loadable(form))

LEMMA FieldTyped ==
    ASSUME NEW f \in FieldNames, NEW value \in Typed[f], form \in Form
    PROVE  [form EXCEPT ![f] = value] \in Form
<1> DEFINE other == [FormDefaults EXCEPT ![f] = value]
<1>1. other \in Form /\ FormDefaults \in Form
  BY FormsAssumption
<1>2. PICK one \in BOOLEAN : form.openUpload = one
  BY DEF Form
<1>3. DOMAIN FormDefaults = FieldNames /\ DOMAIN form = FieldNames
  BY <1>1 DEF Form, FieldNames
<1>4. other[f] = value
  BY <1>3
<1> HIDE DEF other
<1>5. \A x \in FieldNames : [form EXCEPT ![f] = value][x] = IF x = f THEN other[x] ELSE form[x]
  BY <1>3, <1>4
<1> DEFINE new == [form EXCEPT ![f] = value]
<1>6. DOMAIN new = FieldNames /\ new = [x \in DOMAIN new |-> new[x]]
  BY <1>3
<1> HIDE DEF new
<1>7. new = [x \in FieldNames |-> new[x]]
  BY <1>6
<1>8. new = [keyId |-> new.keyId, openUpload |-> new.openUpload,
             openUploadQuotaGb |-> new.openUploadQuotaGb, quotaGb |-> new.quotaGb,
             minFreeGb |-> new.minFreeGb, defaultTtlHours |-> new.defaultTtlHours,
             maxTtlHours |-> new.maxTtlHours, publicBaseUrl |-> new.publicBaseUrl]
  BY <1>7 DEF FieldNames
<1>9. \A x \in FieldNames : new[x] = IF x = f THEN other[x] ELSE form[x]
  BY <1>5 DEF new
<1>10. new \in Form
  BY <1>1, <1>8, <1>9 DEF Form, FieldNames
<1> QED
  BY <1>10 DEF new

LEMMA FormsInvariant == FormsSpec => []FormTyped
<1>1. FormsInit => FormTyped
  BY FormsAssumption DEF FormsInit, FormTyped
<1>2. FormTyped /\ [FormsNext]_formVars => FormTyped'
  <2> SUFFICES ASSUME FormTyped, [FormsNext]_formVars
               PROVE  FormTyped'
    OBVIOUS
  <2>1. CASE Submits
    <3>1. form' = form /\ form \in Form
      BY <2>1 DEF Submits, formVars, FormTyped
    <3>2. outcome' = "refused" => ~Loadable(form)
      <4> SUFFICES ASSUME outcome' = "refused", Loadable(form) PROVE FALSE
        OBVIOUS
      <4>1. CASE Faults(form) # {}
        BY <2>1, <4>1 DEF Submits
      <4>2. CASE Faults(form) = {}
        <5>1. PICK nan \in NaNAsBytes :
                 outcome' = IF /\ ~Refuses(FromForm(form, nan))
                               /\ verify(FromForm(form, nan), render(FromForm(form, nan)))
                            THEN "installed" ELSE "refused"
          BY <2>1, <4>2 DEF Submits
        <5>2. ~Refuses(FromForm(form, nan)) /\ verify(FromForm(form, nan), render(FromForm(form, nan)))
          BY <3>1, <4>2, Verified
        <5> QED
          BY <5>1, <5>2
      <4> QED
        BY <4>1, <4>2
    <3> QED
      BY <3>1, <3>2 DEF FormTyped
  <2>2. ASSUME NEW f \in FieldNames, NEW value \in Typed[f], Types(f, value)
        PROVE  FormTyped'
    <3>1. form' \in Form
      BY <2>2, FieldTyped DEF Types, FormTyped
    <3>2. outcome' = "typing"
      BY <2>2 DEF Types
    <3> QED
      BY <3>1, <3>2 DEF FormTyped
  <2>3. CASE UNCHANGED formVars
    BY <2>3 DEF formVars, FormTyped
  <2> QED
    BY <2>1, <2>2, <2>3 DEF FormsNext
<1> QED
  BY <1>1, <1>2, PTL DEF FormsSpec

(* verify refuses no form but those that the exceptions name, whatever is      *)
(* typed and whatever int64 makes of a NaN.                                   *)
THEOREM FormLoadsBackAlways == FormsSpec => []FormLoadsBack
<1>1. FormTyped => FormLoadsBack
  <2> SUFFICES ASSUME ~Loadable(form)
               PROVE  \/ \E c \in ToSet(form.keyId) : c = Dot \/ c \in 65..90
                      \/ Retyped(KeyIDOfForm(form))
                      \/ KeyIDOfForm(form) \in RewrittenNames
                      \/ form.publicBaseUrl.kind = "upper"
                      \/ Dollar \in ToSet(form.publicBaseUrl.path)
                      \/ ~IsUTF8(Normalize(form.publicBaseUrl.path))
                      \/ ~(Len(Normalize(form.publicBaseUrl.path)) <= maxPublicBaseURL)
                      \/ \E i \in 1..(Len(form.publicBaseUrl.path) - 1) :
                            IsBlank(form.publicBaseUrl.path, i) /\ form.publicBaseUrl.path[i + 1] = Slash
                      \/ \E f \in {"openUploadQuotaGb", "quotaGb", "minFreeGb"} : form[f].kind = "nan"
    <3>1. ASSUME form \in Form
          PROVE  Len(Normalize(form.publicBaseUrl.path)) > maxPublicBaseURL
                 <=> ~(Len(Normalize(form.publicBaseUrl.path)) <= maxPublicBaseURL)
      <4>1. Len(Normalize(form.publicBaseUrl.path)) \in Nat
        BY <3>1, FormFields, NormalizeTypes, LenProperties DEF URL
      <4> QED
        BY <4>1, FormsAssumption
    <3> QED
      BY <3>1, Zenon DEF FormTyped, FormLoadsBack
  <2> QED
    BY Zenon DEF Loadable
<1> QED
  BY <1>1, FormsInvariant, PTL
=============================================================================
