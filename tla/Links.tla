-------------------------------- MODULE Links --------------------------------
(***************************************************************************)
(* pkg/ed2k: the ed2k://|httpcache| link, which carries a secret and         *)
(* arrives from somebody's clipboard.  Text is a sequence of octets.  Of a    *)
(* link the module has what follows the prefix "ed2k://|httpcache|", and of   *)
(* its URL what follows "://".                                               *)
(***************************************************************************)
EXTENDS BaseURL

CONSTANTS
    Typing,         \* what may be typed or pasted, piece by piece
    MaxPieces,      \* bound: how many pieces
    maxLength,      \* the longest link, in octets; 4096 with the prefix
    maxSecret       \* 512

ASSUME LinksAssumption ==
    /\ Typing \subseteq Seq(Octets)
    /\ MaxPieces \in Nat
    /\ maxLength \in Nat
    /\ maxSecret \in Nat

VARIABLES clipboard, pieces

linkVars == <<clipboard, pieces>>

-----------------------------------------------------------------------------
Bar == 124
Equals == 61
LetterK == 107

isControl(c) == c < 32 \/ c = 127

Printable(c) == c \in 33..126

HexDigit(d) == IF d < 10 THEN 48 + d ELSE 55 + d

unhex(c) == IF c <= 57 THEN c - 48 ELSE IF c <= 70 THEN c - 55 ELSE c - 87

Literal(c) == Printable(c) /\ c \notin {Bar, Percent}

encodeField(value) ==
    FoldLeft(LAMBDA text, c : text \o IF Literal(c) THEN <<c>>
                                      ELSE <<Percent, HexDigit(c \div 16), HexDigit(c % 16)>>,
             <<>>, value)

(* An octet of an escape is gathered until there are three; anything that is   *)
(* no escape, and any control character, spoils the field.                    *)
TakeOctet(field, c) ==
    LET escape == Append(field.escape, c)
        octet == 16 * unhex(escape[2]) + unhex(escape[3]) IN
    IF field.escape = <<>>
    THEN IF c = Percent THEN [field EXCEPT !.escape = <<c>>]
         ELSE [field EXCEPT !.text = Append(@, c), !.ok = @ /\ ~isControl(c)]
    ELSE IF ~isHex(c) THEN [field EXCEPT !.ok = FALSE]
    ELSE IF Len(escape) < 3 THEN [field EXCEPT !.escape = escape]
    ELSE [text |-> Append(field.text, octet), escape |-> <<>>,
          ok |-> field.ok /\ ~isControl(octet)]

Decoded(value) == FoldLeft(TakeOctet, [text |-> <<>>, escape |-> <<>>, ok |-> TRUE], value)

\* An escape that is cut off is refused as well.
Decodes(value) == Decoded(value).ok /\ Decoded(value).escape = <<>>

decodeField(value) == Decoded(value).text

Split(text, at) ==
    FoldLeft(LAMBDA fields, c : IF c = at THEN Append(fields, <<>>)
                                ELSE [fields EXCEPT ![Len(fields)] = Append(@, c)],
             <<<<>>>>, text)

-----------------------------------------------------------------------------
plausibleSecret(secret) ==
    secret # <<>> /\ Len(secret) <= maxSecret /\ \A i \in DOMAIN secret : Printable(secret[i])

\* What stands between the prefix and the closing "|/".
Joined(link) ==
    encodeField(link.name) \o <<Bar>> \o encodeField(link.base) \o <<Bar>> \o encodeField(link.secret)
        \o IF link.keyID = <<>> THEN <<>> ELSE <<Bar, LetterK, Equals>> \o encodeField(link.keyID)

Closing == <<Bar, Slash>>

String(link) == Joined(link) \o Closing

(* The options are name=value; of those that are called "k" the last counts.   *)
IsOption(field) ==
    \E i \in 2..Len(field) :
        /\ field[i] = Equals
        /\ field[1] \in 65..90 \cup 97..122
        /\ \A j \in 1..(i - 1) : field[j] \in 48..57 \cup 65..90 \cup 97..122
        /\ Decodes(SubSeq(field, i + 1, Len(field)))

IsKeyOption(field) == Len(field) >= 2 /\ SubSeq(field, 1, 2) = <<LetterK, Equals>>

KeyIDOf(field) == decodeField(SubSeq(field, 3, Len(field)))

\* A bug to catch: the text is decoded before it is split.
FieldsDecodedFirst(body) == Split(decodeField(body), Bar)

Fields(body) == Split(body, Bar)

Options(body) == {i \in DOMAIN Fields(body) : i > 3}

HasFields(body) ==
    LET fields == Fields(body) IN
    /\ Len(fields) >= 3
    /\ \A i \in 1..3 : Decodes(fields[i])
    /\ Normalizes(decodeField(fields[2]))
    /\ plausibleSecret(decodeField(fields[3]))
    /\ \A i \in Options(body) :
          IsOption(fields[i]) /\ (IsKeyOption(fields[i]) => IsKeyID(KeyIDOf(fields[i])))

ReadFields(body) ==
    LET fields == Fields(body)
        keys == {i \in Options(body) : IsKeyOption(fields[i])} IN
    [name |-> decodeField(fields[1]), base |-> Normalize(decodeField(fields[2])),
     secret |-> decodeField(fields[3]),
     keyID |-> IF keys = {} THEN <<>> ELSE KeyIDOf(fields[Max(keys)])]

(* Of the text "/" the closing bar is the prefix's own: Parse takes it for     *)
(* closed, slices from 18 to 17 and panics.  Any other text that it goes on    *)
(* with has a bar of its own.                                                *)
IsClosed(text) == Len(text) >= 2 /\ SubSeq(text, Len(text) - 1, Len(text)) = Closing

Body(text) == SubSeq(text, 1, Len(text) - 2)

IsLink(raw) ==
    LET text == TrimEnd(raw) IN
    Len(text) <= maxLength /\ IsClosed(text) /\ HasFields(Body(text))

Parse(raw) == ReadFields(Body(TrimEnd(raw)))

SecretField == 3

Ellipsis == <<226, 128, 166>>

\* A bug to catch: the end of the secret is left, to tell keys apart by.
RedactAllButTheEnd(raw) ==
    [i \in DOMAIN Split(raw, Bar) |->
        IF i # SecretField \/ Split(raw, Bar)[i] = <<>> THEN Split(raw, Bar)[i]
        ELSE Append(Ellipsis, Last(Split(raw, Bar)[i]))]

Redact(raw) ==
    [i \in DOMAIN Split(raw, Bar) |-> IF i = SecretField THEN Ellipsis ELSE Split(raw, Bar)[i]]

-----------------------------------------------------------------------------
LinksInit == clipboard = <<>> /\ pieces = 0

Pastes(piece) ==
    /\ pieces < MaxPieces
    /\ pieces' = pieces + 1
    /\ clipboard' = clipboard \o piece

LinksNext == \E piece \in Typing : Pastes(piece)

LinksSpec == LinksInit /\ [][LinksNext]_linkVars

-----------------------------------------------------------------------------
(* Properties, of every text that can be pasted together.                    *)

\* A path that ends in a space before its last slashes: Normalize leaves the
\* space, and taken once more it does not.
SpacedPath(link) == IsBlank(link.base, Len(link.base))

(* A link that is read and written again is the same link: nothing in a name  *)
(* or a URL, be it a "|", a "%" or an octet of UTF-8, moves into another       *)
(* field or changes it.  Two do not survive: one that grows past the limit    *)
(* because it was not escaped as String escapes it, and a path that ends in a *)
(* space, of whatever alphabet.                                              *)
LinkSurvives ==
    LET link == Parse(clipboard) IN
    IsLink(clipboard) /\ Len(String(link)) <= maxLength /\ ~SpacedPath(link)
    => IsLink(String(link)) /\ Parse(String(link)) = link

(* Redact leaves nothing of a link's secret: put any other in its place, and   *)
(* the redacted text is the same, to its last octet.                          *)
SecretIsRedacted ==
    LET link == Parse(clipboard) IN
    IsLink(clipboard) =>
        \A secret \in {piece \in Typing : plausibleSecret(piece)} :
           Redact(String(link)) = Redact(String([link EXCEPT !.secret = secret]))
=============================================================================
