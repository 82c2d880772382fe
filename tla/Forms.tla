-------------------------------- MODULE Forms --------------------------------
(***************************************************************************)
(* The install form, from what is typed to the config file that is read      *)
(* back: FromForm (internal/install/settings.go), render (generate.go) and    *)
(* verify (installer.go), with config.ParseFile.  The template is the one    *)
(* that is compiled in.  A number goes by its value; a key id and what        *)
(* follows "://" in the public base URL are octets, since what becomes of     *)
(* them lies there.                                                          *)
(***************************************************************************)
EXTENDS BaseURL

CONSTANTS
    Typed,          \* Typed[f]: what may be typed into field f
    FormDefaults,   \* what the empty form shows
    MaxTyped,       \* bound: how many times a field is typed into
    maxGigabytes,
    maxHours,
    maxPublicBaseURL,   \* 981 with the scheme
    RewrittenNames,     \* the names of the seven settings that render rewrites
    NaNAsBytes      \* what int64(NaN) may be: the least integer, or 0

FieldNames == {"keyId", "openUpload", "openUploadQuotaGb", "quotaGb", "minFreeGb",
               "defaultTtlHours", "maxTtlHours", "publicBaseUrl"}

\* A number as it is typed; in gigabytes "nan" is one as well.
Number == [kind : {"bad", "number", "nan"}, value : Int]

URL == {url \in [kind : {"blank", "lower", "upper", "other"}, path : Seq(Octets)] :
           url.kind = "blank" => url.path = <<>>}

Form == [keyId : Seq(Octets), openUpload : BOOLEAN, openUploadQuotaGb : Number, quotaGb : Number,
         minFreeGb : Number, defaultTtlHours : Number, maxTtlHours : Number, publicBaseUrl : URL]

ASSUME FormsAssumption ==
    /\ FormDefaults \in Form
    /\ DOMAIN Typed = FieldNames
    /\ \A f \in FieldNames : \A value \in Typed[f] : [FormDefaults EXCEPT ![f] = value] \in Form
    /\ maxGigabytes \in Nat
    /\ maxHours \in Nat
    /\ maxPublicBaseURL \in Nat
    /\ RewrittenNames \subseteq Seq(Octets)
    /\ NaNAsBytes \subseteq Int /\ \A n \in NaNAsBytes : n <= 0

VARIABLES
    form,           \* what the form holds
    types,          \* how many times a field has been typed into
    outcome         \* "typing", "errors", "refused" or "installed"

formVars == <<form, types, outcome>>

-----------------------------------------------------------------------------
(* settings.go *)

Dot == 46

anonymous == <<97, 110, 111, 110, 121, 109, 111, 117, 115>>

\* gigabytes: a NaN is neither negative nor too large.
GigabytesOK(g) == g.kind = "nan" \/ (g.kind = "number" /\ g.value \in 0..maxGigabytes)

Bytes(g, nan) == IF g.kind = "nan" THEN nan ELSE g.value

HoursOK(h) == h.kind = "number" /\ h.value \in 1..maxHours

\* An https or http URL in whatever case; a blank one is left out.
URLOK(url) == url.kind = "blank" \/ (url.kind \in {"lower", "upper"} /\ Normalizes(url.path))

KeyIDOfForm(f) == TrimSpace(f.keyId)

\* The fields that FromForm finds fault with.
Faults(f) ==
    {x \in {"keyId"} : ~IsKeyID(KeyIDOfForm(f)) \/ KeyIDOfForm(f) = anonymous}
    \cup {x \in {"openUploadQuotaGb", "quotaGb", "minFreeGb"} : ~GigabytesOK(f[x])}
    \cup {x \in {"defaultTtlHours", "maxTtlHours"} : ~HoursOK(f[x])}
    \cup {x \in {"maxTtlHours"} : /\ HoursOK(f.defaultTtlHours) /\ HoursOK(f.maxTtlHours)
                                  /\ f.maxTtlHours.value < f.defaultTtlHours.value}
    \cup {x \in {"publicBaseUrl"} : ~URLOK(f.publicBaseUrl)}

FromForm(f, nan) ==
    [keyID |-> KeyIDOfForm(f), openUpload |-> f.openUpload,
     openQuota |-> Bytes(f.openUploadQuotaGb, nan), quota |-> Bytes(f.quotaGb, nan),
     minFree |-> Bytes(f.minFreeGb, nan),
     defaultTTL |-> f.defaultTtlHours.value, maxTTL |-> f.maxTtlHours.value,
     baseURL |-> [f.publicBaseUrl EXCEPT !.path = Normalize(@)]]

-----------------------------------------------------------------------------
(* generate.go *)

isWord(c) == c \in 48..57 \cup 65..90 \cup 97..122 \cup {95}

Dollar == 36

\* What stands before a setting, and is what "$1" means.
Indent == <<Space, Space>>

\* A group's name is as long as it can be (of ASCII, and without braces); there
\* is none but 1.
Group(name) == IF name = <<49>> THEN Indent ELSE <<>>

(* The replacement of a regular expression is not literal text: in it "$$" is *)
(* a dollar and "$" before a name is a group.                                *)
Expanding(done, c) ==
    CASE done.mode = "text" /\ c = Dollar -> [done EXCEPT !.mode = "dollar"]
      [] done.mode = "text" /\ c # Dollar -> [done EXCEPT !.text = Append(@, c)]
      [] done.mode = "dollar" /\ c = Dollar ->
            [done EXCEPT !.mode = "text", !.text = Append(@, Dollar)]
      [] done.mode = "dollar" /\ isWord(c) -> [done EXCEPT !.mode = "name", !.name = <<c>>]
      [] done.mode = "dollar" /\ c # Dollar /\ ~isWord(c) ->
            [done EXCEPT !.mode = "text", !.text = @ \o <<Dollar, c>>]
      [] done.mode = "name" /\ isWord(c) -> [done EXCEPT !.name = Append(@, c)]
      [] done.mode = "name" /\ ~isWord(c) ->
            [mode |-> IF c = Dollar THEN "dollar" ELSE "text", name |-> <<>>,
             text |-> done.text \o Group(done.name) \o IF c = Dollar THEN <<>> ELSE <<c>>]

Expand(value) ==
    LET last == FoldLeft(Expanding, [mode |-> "text", text |-> <<>>, name |-> <<>>], value) IN
    CASE last.mode = "text" -> last.text
      [] last.mode = "dollar" -> Append(last.text, Dollar)
      [] last.mode = "name" -> last.text \o Group(last.name)

IsRune(text) ==
    LET continues == \A i \in 2..Len(text) : text[i] \in 128..191 IN
    \/ Len(text) = 1 /\ text[1] < 128
    \/ Len(text) = 2 /\ text[1] \in 194..223 /\ continues
    \/ /\ Len(text) = 3 /\ text[1] \in 224..239 /\ continues
       /\ (text[1] = 224 => text[2] >= 160) /\ (text[1] = 237 => text[2] < 160)
    \/ /\ Len(text) = 4 /\ text[1] \in 240..244 /\ continues
       /\ (text[1] = 240 => text[2] >= 144) /\ (text[1] = 244 => text[2] < 144)

IsStray(text, i) ==
    ~\E j \in 1..i : \E k \in i..Len(text) : k <= j + 3 /\ IsRune(SubSeq(text, j, k))

IsUTF8(text) == \A i \in DOMAIN text : ~IsStray(text, i)

(* strconv.Quote and YAML's double quotes agree but on an octet that is not     *)
(* UTF-8: what is written for octet FF is read as the character FF.           *)
Quoted(text) ==
    IF IsUTF8(text) THEN text
    ELSE FlattenSeq([i \in DOMAIN text |->
            IF IsStray(text, i) THEN <<194 + ((text[i] - 128) \div 64), 128 + (text[i] % 64)>>
            ELSE <<text[i]>>])

\* A key id that is a setting's name is a second match of its rewriting.
Refuses(s) == s.keyID \in RewrittenNames

\* A bug to catch: the comment that is rebuilt says days, and so does the value.
renderInDays(s) == [s EXCEPT !.baseURL.path = Expand(Quoted(@)), !.maxTTL = @ \div 24]

\* Every setting is rewritten in the template; numbers and names are plain text.
render(s) == [s EXCEPT !.baseURL.path = Expand(Quoted(@))]

-----------------------------------------------------------------------------
(* config.ParseFile *)

Lower(c) == IF c \in 65..90 THEN c + 32 ELSE c

Digits == 48..57
Minus == 45
Underscore == 95
null == <<110, 117, 108, 108>>

AllIn(text, set) == text # <<>> /\ \A i \in DOMAIN text : text[i] \in set

\* What follows a "0" and a letter: x, o or b.
DigitsOf == (120 :> Digits \cup 97..102 @@ 111 :> 48..55 @@ 98 :> 48..49)

Unsigned(text) == IF text # <<>> /\ Head(text) = Minus THEN Tail(text) ELSE text

\* 12, 0x1f, 1e3 and 1e-3.
IsNumeral(text) ==
    \/ AllIn(text, Digits)
    \/ /\ Len(text) > 2 /\ text[1] = 48 /\ text[2] \in DOMAIN DigitsOf
       /\ AllIn(SubSeq(text, 3, Len(text)), DigitsOf[text[2]])
    \/ \E e \in DOMAIN text :
          /\ text[e] = 101
          /\ AllIn(SubSeq(text, 1, e - 1), Digits)
          /\ AllIn(Unsigned(SubSeq(text, e + 1, Len(text))), Digits)

\* A number that is written as it is printed.
IsDecimal(text) ==
    LET digits == Unsigned(text) IN
    /\ AllIn(digits, Digits) /\ Len(digits) <= 18
    /\ Head(digits) = 48 => text = <<48>>

\* 2024-1-31.
IsDate(text) ==
    \E month \in 6..7 :
        /\ Len(text) \in (month + 2)..(month + 3)
        /\ \A i \in DOMAIN text : text[i] \in IF i \in {5, month + 1} THEN {Minus} ELSE Digits

(* A key id stands in the file without quotes.  YAML makes nothing, a number   *)
(* or a date of one that reads like it, and viper prints that in its own way.  *)
(* A number past 18 digits or out of range and a date that no calendar has     *)
(* are counted here as well, though some of them come back as they were.       *)
Retyped(id) ==
    \/ id = null
    \/ IsDate(id)
    \/ /\ id # <<>> /\ Head(id) \in Digits \cup {Minus}
       /\ IsNumeral(Unsigned(SelectSeq(id, LAMBDA c : c # Underscore)))
       /\ ~IsDecimal(id)

\* viper lower-cases the keys of api_keys, and a dot in one makes two of it.
LoadsKey(id, raw) ==
    /\ ~Retyped(raw)
    /\ ~Contains(raw, Dot)
    /\ id = [i \in DOMAIN raw |-> Lower(raw[i])]
    /\ id # anonymous

Trimmed(path) == TrimRight(TrimEnd(path), Slash)

LoadedURL(url) == [url EXCEPT !.path = Trimmed(@)]

AtLeast0(n) == IF n < 0 THEN 0 ELSE n

ParsesFile(file) ==
    LET url == LoadedURL(file.baseURL) IN
    /\ url.kind = "blank" \/ (url.kind = "lower" /\ Len(url.path) <= maxPublicBaseURL)
    /\ file.defaultTTL <= file.maxTTL

(* verify: what a server would make of the file is what was asked for.       *)
verify(s, file) ==
    /\ ParsesFile(file)
    /\ LoadsKey(s.keyID, file.keyID)
    /\ AtLeast0(file.quota) = s.quota
    /\ file.openUpload = s.openUpload
    /\ AtLeast0(file.openQuota) = s.openQuota
    /\ AtLeast0(file.minFree) = s.minFree
    /\ file.defaultTTL = s.defaultTTL
    /\ file.maxTTL = s.maxTTL
    /\ LoadedURL(file.baseURL) = s.baseURL

-----------------------------------------------------------------------------
FormsInit ==
    /\ form = FormDefaults
    /\ types = 0
    /\ outcome = "typing"

Types(f, value) ==
    /\ outcome = "typing"
    /\ types < MaxTyped
    /\ types' = types + 1
    /\ form' = [form EXCEPT ![f] = value]
    /\ UNCHANGED outcome

\* FromForm, and what Install makes of it.
Submits ==
    /\ outcome = "typing"
    /\ IF Faults(form) # {} THEN outcome' = "errors"
       ELSE \E nan \in NaNAsBytes :
               LET s == FromForm(form, nan) IN
               outcome' = IF ~Refuses(s) /\ verify(s, render(s)) THEN "installed" ELSE "refused"
    /\ UNCHANGED <<form, types>>

FormsNext == Submits \/ \E f \in FieldNames : \E value \in Typed[f] : Types(f, value)

FormsSpec == FormsInit /\ [][FormsNext]_formVars

-----------------------------------------------------------------------------
(* Properties. *)

(* A form that FromForm finds no fault with is installed: verify, which reads  *)
(* the generated file back, refuses none.  The exceptions are key ids that    *)
(* YAML or viper changes or that are a setting's name; URLs that the quoting,  *)
(* the rewriting, the defaults or validate change or refuse; and a NaN, which  *)
(* FromForm lets pass.                                                        *)
FormLoadsBack ==
    LET path == form.publicBaseUrl.path IN
    outcome = "refused" =>
        \/ \E c \in ToSet(form.keyId) : c = Dot \/ c \in 65..90
        \/ Retyped(KeyIDOfForm(form))
        \/ KeyIDOfForm(form) \in RewrittenNames
        \/ form.publicBaseUrl.kind = "upper"
        \/ Dollar \in ToSet(path)
        \/ ~IsUTF8(Normalize(path))
        \/ Len(Normalize(path)) > maxPublicBaseURL
        \/ \E i \in 1..(Len(path) - 1) : IsBlank(path, i) /\ path[i + 1] = Slash
        \/ \E f \in {"openUploadQuotaGb", "quotaGb", "minFreeGb"} : form[f].kind = "nan"
=============================================================================
