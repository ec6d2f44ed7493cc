------------------------------ MODULE Headers ------------------------------
(***************************************************************************)
(* The signed verdict headers (pipeline/headers.py) and the rspamd plugin  *)
(* that reads them (rspamd/lua/rspamd.local.lua).                          *)
(*                                                                         *)
(* A header block is a sequence of lines, split at either line ending.  A  *)
(* line has a name, or "" if it continues the line before it.  An HMAC is  *)
(* what was signed; two digits of a confidence are the same when written,  *)
(* read and written again, so it is left out.  So are the headers that     *)
(* nothing trusts (Reason, Model, Tools, Labels).                          *)
(***************************************************************************)
EXTENDS Naturals, Sequences, FiniteSets, Ordering

CONSTANTS
    Inbound,     \* header blocks as they arrive
    Categories,  \* what the AI calls a message: "" is none
    Rules,       \* whitelist rules: "" is none
    NoTag,       \* a message before it is tagged
    Fold         \* a value with its line breaks, its blanks around it and its excess gone

VARIABLES
    block,    \* the header lines of a message
    arrived,  \* those it arrived with
    tag,      \* the verdict it was tagged with, or NoTag
    symbol,   \* what the plugin made of it, "unscored" before
    late      \* history: it was scored when the signature was no longer good

headersVars == <<block, arrived, tag, symbol, late>>

\* No name, no value.
None == ""

ASSUME HeadersAssumption ==
    /\ {None, "whitelisted"} \subseteq Categories
    /\ None \in Rules
    /\ Fold \in [Categories \union Rules -> STRING] /\ Fold[None] = None
    /\ \A lines \in Inbound : lines \in Seq({lines[i] : i \in DOMAIN lines})

Line(name, value) == [name |-> name, value |-> value]
Continuation(value) == Line(None, value)

\* Names that _STRIP_RE matches.
SpamNames == {"Verdict", "Category", "Whitelisted", "Signature", "X-Spam-Flag"}

-----------------------------------------------------------------------------
(* strip_spam_headers *)

\* The lines that begin a header, up to line i.
Begun(lines, i) == {j \in 1..i : lines[j].name # None}

\* A wrong rule: only a line that names the header goes.
NamesOther(lines, i) == lines[i].name \notin SpamNames

\* A line stays if the header it belongs to does, or if it belongs to none.
Kept(lines, i) ==
    \A j \in Begun(lines, i) : (\A k \in Begun(lines, i) : k <= j) => lines[j].name \notin SpamNames

Strip(lines) ==
    LET stay == {i \in DOMAIN lines : Kept(lines, i)}
        order == InOrder(stay, Ascending(stay))
    IN [i \in DOMAIN order |-> lines[order[i]]]

-----------------------------------------------------------------------------
(* build_spamallam_headers, prepend_headers *)

Canonical(v, ts) ==
    [ts |-> ts, verdict |-> v.verdict, category |-> v.category, whitelisted |-> v.whitelisted]

\* A header that is written if it has a value.
Present(name, value) == IF value = None THEN <<>> ELSE <<Line(name, Fold[value])>>

Build(v, ts) ==
    <<Line("Verdict", v.verdict)>>
    \o Present("Category", v.category)
    \o Present("Whitelisted", v.whitelisted)
    \o <<Line("Signature", Canonical(v, ts))>>

Prepend(lines, headers) == headers \o lines

-----------------------------------------------------------------------------
(* rspamd.local.lua *)

Places(lines, name) == {i \in DOMAIN lines : lines[i].name = name}
FirstPlace(lines, name) == CHOOSE i \in Places(lines, name) : \A j \in Places(lines, name) : i <= j

\* get_header: the first of that name; no header is an empty value.
GetHeader(lines, name) ==
    IF Places(lines, name) = {} THEN None ELSE lines[FirstPlace(lines, name)].value

\* The continuations of the signature, which are a part of its value.
Tails(lines) ==
    LET s == FirstPlace(lines, "Signature")
    IN {lines[i].value : i \in {j \in s + 1..Len(lines) : \A k \in s + 1..j : lines[k].name = None}}

\* parse_signature: of a part given twice, the last one counts.
Parses(lines) == Places(lines, "Signature") # {} /\ "sig=" \notin Tails(lines)

\* Not older than max_age, and of what the headers say.
Verifies(lines, fresh) ==
    /\ Parses(lines)
    /\ fresh
    /\ LET signed == GetHeader(lines, "Signature") IN
       signed = [ts |-> signed.ts, verdict |-> GetHeader(lines, "Verdict"),
                 category |-> GetHeader(lines, "Category"),
                 whitelisted |-> GetHeader(lines, "Whitelisted")]

\* spamallam_cb: the symbol it inserts.
Plugin(lines, fresh) ==
    IF Places(lines, "Verdict") = {} THEN "none"
    ELSE IF ~Verifies(lines, fresh) THEN "SPAMALLAM_SIG_INVALID"
    ELSE IF GetHeader(lines, "Whitelisted") # None THEN "SPAMALLAM_WHITELIST"
    ELSE CASE GetHeader(lines, "Verdict") = "SPAM" -> "SPAMALLAM_SPAM"
           [] GetHeader(lines, "Verdict") = "PHISHING" -> "SPAMALLAM_PHISH"
           [] GetHeader(lines, "Verdict") = "MALICIOUS" -> "SPAMALLAM_MALICIOUS"
           [] GetHeader(lines, "Verdict") = "HAM" -> "SPAMALLAM_HAM"
           [] OTHER -> "SPAMALLAM_SKIPPED"

\* The symbols that stand for a verdict.
SymbolsOf ==
    [HAM |-> "SPAMALLAM_HAM", SPAM |-> "SPAMALLAM_SPAM", PHISHING |-> "SPAMALLAM_PHISH",
     MALICIOUS |-> "SPAMALLAM_MALICIOUS", SKIPPED |-> "SPAMALLAM_SKIPPED",
     ERROR |-> "SPAMALLAM_SKIPPED"]
Symbol(v) == IF v.whitelisted # None THEN "SPAMALLAM_WHITELIST" ELSE SymbolsOf[v.verdict]

-----------------------------------------------------------------------------
(* A message: stripped when it is received, tagged when there is a         *)
(* verdict, and scored before (rspamd_first, the pre-pass) or after that.  *)

Opinions ==
    {[verdict |-> n, category |-> c, whitelisted |-> None] :
        n \in {"HAM", "SPAM", "PHISHING", "MALICIOUS", "SKIPPED", "ERROR"}, c \in Categories}
    \union {[verdict |-> "HAM", category |-> "whitelisted", whitelisted |-> r] : r \in Rules \ {None}}

ASSUME TagAssumption == NoTag \notin Opinions

HeadersTypeOK ==
    /\ arrived \in Inbound
    /\ tag \in {NoTag} \union Opinions
    /\ symbol \in {"unscored", "none", "SPAMALLAM_SIG_INVALID"} \union {Symbol(v) : v \in Opinions}
    /\ late \in BOOLEAN

HeadersInit ==
    /\ arrived \in Inbound
    /\ block = Strip(arrived)
    /\ tag = NoTag
    /\ symbol = "unscored"
    /\ late = FALSE

Tag(v) ==
    /\ tag = NoTag
    /\ tag' = v
    /\ block' = Prepend(block, Build(v, "now"))
    /\ symbol' = "unscored"
    /\ UNCHANGED <<arrived, late>>

\* rspamd scans the message, perhaps later than the signature is good for.
Scan(fresh) ==
    /\ symbol = "unscored"
    /\ symbol' = Plugin(block, fresh)
    /\ late' = ~fresh
    /\ UNCHANGED <<block, arrived, tag>>

-----------------------------------------------------------------------------
(* Properties *)

\* What is signed is what is written.
Plain(v) == Fold[v.category] = v.category /\ Fold[v.whitelisted] = v.whitelisted

\* A block whose first line continues nothing, and would change the signature.
Spills(lines) ==
    \E i \in DOMAIN lines :
        (\A j \in 1..i : lines[j].name = None) /\ lines[i].value = "sig="

\* rspamd "can distinguish ours from forgeries" (headers.py:7-9): whatever spam
\* headers a message arrives with, it is scored as having none if this gateway
\* wrote none, and else by the verdict of this gateway or as a bad signature,
\* never by another verdict.  Ours are good unless they are stale, unless the
\* clean-up changed a part of them that was signed (headers.py:110-111), and
\* unless the message begins with a continuation that reads as a signature: in
\* these two cases the code does not keep to "MUST match" (headers.py:102).
HeadersHonoured ==
    symbol # "unscored" =>
        /\ tag = NoTag => symbol = "none"
        /\ tag # NoTag => symbol \in {Symbol(tag), "SPAMALLAM_SIG_INVALID"}
        /\ tag # NoTag /\ ~late /\ Plain(tag) /\ ~Spills(arrived) => symbol = Symbol(tag)
=============================================================================
