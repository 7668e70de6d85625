------------------------------ MODULE MCIntake ------------------------------
EXTENDS ChatIntake, TLC

Turns == Permutations(Turn)

Says(industries, geo, titles, size) ==
    [Nothing EXCEPT !["industries"] = industries, !["geo"] = geo, !["titles"] = titles,
                    !["company_size"] = size]
Message(says, phrases, signal, prose, go) ==
    [says |-> says, phrases |-> phrases, signal |-> signal, prose |-> prose, go |-> go]

\* One sentence that says it all, an answer without a keyword, a description
\* that changes the target, and the word to go.
MCText == {
    Message(Says({"saas"}, {"us"}, {}, {"smb"}), {"rich"}, "companies", FALSE, FALSE),
    Message(Says({}, {}, {}, {}), {"acme"}, "none", FALSE, FALSE),
    Message(Says({}, {"uk"}, {"vp"}, {}), {"prose"}, "contacts", TRUE, FALSE),
    Message(Says({}, {}, {}, {}), {"go"}, "none", FALSE, TRUE)}

MCReading == {[target |-> "contacts", slots |-> Says({"read"}, {}, {}, {"read"})]}
=============================================================================
