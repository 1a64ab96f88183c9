------------------------------- MODULE Redact -------------------------------
(***************************************************************************)
(* The evidence of a finding as view_waf_request shows it: as it is to an  *)
(* administrator, through redact_sensitive_values (security/redact.rs) to  *)
(* everybody else.  The scanner is a step per round of its loop; what it   *)
(* leaves is compared with what a reader of the text calls a parameter.    *)
(*                                                                         *)
(* A text is a sequence of kinds of characters, as many as the scanner     *)
(* tells apart: "w" a letter of a sensitive word and "a" one of no such    *)
(* word, so that a name is sensitive if it has a "w"; the two quotes; "_"  *)
(* a space or tab; "=" one of the delimiters; "&" a terminator; "/" any    *)
(* other.  "+++++" is one character of its own.                            *)
(***************************************************************************)
EXTENDS Naturals, Sequences, SequencesExt, FiniteSetsExt

CONSTANTS Roles,     \* the roles that may open the page
          MaxLength  \* bound: characters of a text

ASSUME RedactConstants == MaxLength \in Nat

VARIABLES viewer,    \* the role of the session
          input,     \* the captured text
          pos,       \* i: how far the scanner has read, plus one
          out,       \* what it has written
          shown      \* the page is rendered

redactVars == <<viewer, input, pos, out, shown>>

Chars == {"w", "a", "dq", "sq", "_", "=", "&", "/"}
REDACTED == "+++++"
Quotes == {"dq", "sq"}

IsKeyChar(c) == c \in {"w", "a"}
IsValueTerminator(c) == c \in Quotes \cup {"_", "&"}
IsSensitiveKey(key) == "w" \in ToSet(key)

-----------------------------------------------------------------------------
\* The first place from p on where the text does not go on with one of these; the
\* end of the text at last.
After(s, p, these) == Min({q \in p..Len(s) : s[q] \notin these} \cup {Len(s) + 1})

\* The first place from p on with one of these.
Upto(s, p, these) == After(s, p, Chars \ these)

KeyEnd(p) == After(input, p, {c \in Chars : IsKeyChar(c)})
LookAhead(p) == After(input, p, Quotes \cup {"_"})

RedactInit ==
    /\ viewer \in Roles
    /\ input \in BoundedSeq(Chars, MaxLength)
    /\ pos = 1 /\ out = <<>> /\ shown = FALSE

Scanning == viewer # "admin" /\ pos <= Len(input)

\* A character that begins no name.
PassThrough ==
    /\ Scanning
    /\ ~IsKeyChar(input[pos])
    /\ out' = Append(out, input[pos])
    /\ pos' = pos + 1
    /\ UNCHANGED <<viewer, input, shown>>

\* A name, and whether what follows makes it a sensitive parameter.
Key == SubSeq(input, pos, KeyEnd(pos) - 1)
Delimiter == LookAhead(KeyEnd(pos))
SensitiveParameter ==
    /\ Delimiter <= Len(input) /\ input[Delimiter] = "="
    /\ IsSensitiveKey(Key)

OtherName ==
    /\ Scanning
    /\ IsKeyChar(input[pos])
    /\ ~SensitiveParameter
    /\ out' = out \o Key
    /\ pos' = KeyEnd(pos)
    /\ UNCHANGED <<viewer, input, shown>>

Mask(first, last) == IF last > first THEN <<REDACTED>> ELSE <<>>

\* Mutant: a quote is not seen as the start of a value.
RedactBare(v) ==
    LET end == Upto(input, v, Quotes \cup {"_", "&"})
    IN [text |-> Mask(v, end), next |-> end]

\* Mutant: a bare value ends at the next parameter only.
RedactToAmpersand(v) ==
    LET end == Upto(input, v, {"&"})
    IN [text |-> Mask(v, end), next |-> end]

\* redact_value: what is written for the value that begins at v, and where it ends.
RedactValue(v) ==
    IF v <= Len(input) /\ input[v] \in Quotes
    THEN LET end == Upto(input, v + 1, {input[v]})
         IN [text |-> <<input[v]>> \o Mask(v + 1, end)
                       \o (IF end <= Len(input) THEN <<input[end]>> ELSE <<>>),
             next |-> IF end <= Len(input) THEN end + 1 ELSE end]
    ELSE LET end == Upto(input, v, {c \in Chars : IsValueTerminator(c)})
         IN [text |-> Mask(v, end), next |-> end]

\* The name, the gap, the delimiter and the blanks after it stay; the value goes.
MaskParameter ==
    /\ Scanning
    /\ IsKeyChar(input[pos])
    /\ SensitiveParameter
    /\ LET v == After(input, Delimiter + 1, {"_"})
       IN /\ out' = out \o SubSeq(input, pos, v - 1) \o RedactValue(v).text
          /\ pos' = RedactValue(v).next
    /\ UNCHANGED <<viewer, input, shown>>

\* view_waf_request: reveal decides by the role.
ViewWafRequest ==
    /\ ~shown /\ ~Scanning
    /\ shown' = TRUE
    /\ out' = IF viewer = "admin" THEN input ELSE out
    /\ UNCHANGED <<viewer, input, pos>>

RedactNext == PassThrough \/ OtherName \/ MaskParameter \/ ViewWafRequest

RedactSpec == RedactInit /\ [][RedactNext]_redactVars

-----------------------------------------------------------------------------
(***************************************************************************)
(* What docs/sensitive-data-redaction.md calls a parameter and its value,  *)
(* without a scanner: a whole word, then blanks and quotes, then a         *)
(* delimiter, then blanks, then the value.  A bare value ends at the next  *)
(* terminator, and no quote is in the document's list of them (lines 49    *)
(* and 50); of a quoted one (line 48) it does not say whether an escaped   *)
(* quote ends it, and here any quote of its kind does.  The scanner does   *)
(* not mask all of a bare value: at a quote it stops (redact.rs:111).  Of  *)
(* password=abc"def a reader is shown "def, of "token":["secret"] the word *)
(* secret.  So that a property can say how far the promise is kept, the    *)
(* part of a value that is behind such a quote has a name.                 *)
(***************************************************************************)

Words(s) == {w \in (1..Len(s)) \X (1..Len(s)) :
    /\ w[1] <= w[2]
    /\ \A p \in w[1]..w[2] : s[p] \in {"w", "a"}
    /\ w[1] = 1 \/ s[w[1] - 1] \notin {"w", "a"}
    /\ w[2] = Len(s) \/ s[w[2] + 1] \notin {"w", "a"}}

\* The places d of the delimiters of sensitive parameters.
Secrets(s) == {d \in 1..Len(s) :
    /\ s[d] = "="
    /\ \E w \in Words(s) :
         /\ w[2] < d
         /\ \A p \in (w[2] + 1)..(d - 1) : s[p] \in Quotes \cup {"_"}
         /\ \E p \in w[1]..w[2] : s[p] = "w"}

\* Where the value behind delimiter d begins, if there is one.
ValueBegins(s, d) ==
    {v \in (d + 1)..Len(s) : s[v] # "_" /\ \A p \in (d + 1)..(v - 1) : s[p] = "_"}

\* The places of that value as the document has it, the quotes around it not among them.
Value(s, d) == {p \in 1..Len(s) : \E v \in ValueBegins(s, d) :
    IF s[v] \in Quotes
    THEN p > v /\ \A q \in (v + 1)..p : s[q] # s[v]
    ELSE p >= v /\ \A q \in v..p : s[q] \notin {"_", "&"}}

\* The value is bare and has a quote at p or before it.
BehindQuote(s, d, p) == \E v \in ValueBegins(s, d) :
    s[v] \notin Quotes /\ \E q \in v..p : s[q] \in Quotes

ToQuote(s, d) == {p \in Value(s, d) : ~BehindQuote(s, d, p)}

\* What a reader is left with of the first n places of a text some places of which
\* are hidden: the others in their order, and of a run of hidden ones one placeholder.
Shows(s, n, hidden, o) ==
    LET left == {p \in 1..n : p \notin hidden \/ p - 1 \notin hidden}
        Place(p) == Cardinality({q \in left : q <= p})
    IN /\ Len(o) = Cardinality(left)
       /\ \A p \in left : o[Place(p)] = IF p \in hidden THEN REDACTED ELSE s[p]

\* In the text as it is shown to whoever is no administrator, the value of every
\* sensitive parameter a reader can find (quoted, spaced, nested in another value,
\* or brought together by what was cut out) is empty or masked, a bare one up to
\* the first quote in it.  The document promises a bare value up to its terminator;
\* what stands behind a quote is shown, and this property does not hide it.
MaskedToQuote ==
    shown /\ viewer # "admin" =>
        \A d \in Secrets(out) : \A p \in Value(out, d) :
            out[p] = REDACTED \/ BehindQuote(out, d, p)

\* And nothing else is lost: what is shown is the text with the values of some of
\* its sensitive parameters masked, each by one placeholder and up to a quote at
\* most, the delimiters and quotes and all that follows in place; an administrator
\* is shown the text.
OnlySecretsHidden ==
    shown => IF viewer = "admin" THEN out = input
             ELSE \E D \in SUBSET Secrets(input) :
                      Shows(input, Len(input), UNION {ToQuote(input, d) : d \in D}, out)

=============================================================================
