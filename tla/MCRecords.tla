----------------------------- MODULE MCRecords -----------------------------
(***************************************************************************)
(* An instance of Records for TLC.                                         *)
(***************************************************************************)
EXTENDS Records, TLC

CONSTANTS t1, t2, t3

MCSymmetry == Permutations({t1, t2, t3})

Form == [enabled |-> TRUE, triggers |-> Threats, banner |-> "good", convert |-> FALSE,
         scope |-> "off", footer |-> "good", on_rspamd |-> TRUE]
MCMaxSaves == [page \in Pages |-> IF page = "logging" THEN 1 ELSE 2]
MCVisits == {{}} \union {{page} : page \in Pages} \union {{"marking", "classification"}, {"overrides", "release"}}
MCMarkingForms ==
    {Form, [Form EXCEPT !.triggers = {}, !.convert = TRUE, !.scope = "all_mail"],
     [Form EXCEPT !.triggers = {"SPAM"}, !.scope = "bogus", !.footer = "bad"],
     [Form EXCEPT !.banner = "bad", !.scope = "spam_only", !.on_rspamd = FALSE]}

\* Headers of a gateway, of others, and what may continue them.
Lines ==
    {Line("Verdict", "HAM"), Line("Subject", "text"), Continuation("text"), Continuation("sig="),
     Line("Signature", Canonical([verdict |-> "HAM", category |-> "", whitelisted |-> ""], "now"))}
MCInbound == UNION {[1..n -> Lines] : n \in 0..3}

MCCategories == {"", "whitelisted", "ragged ", "two\nlines"}
MCRules == {"", "yes; rule=d", "yes; rule=long"}
MCFold ==
    [s \in MCCategories \union MCRules |->
        CASE s = "ragged " -> "ragged" [] s = "two\nlines" -> "two lines"
          [] s = "yes; rule=long" -> "yes; rule=lo" [] OTHER -> s]
=============================================================================
