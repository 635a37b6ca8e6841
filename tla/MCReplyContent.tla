--------------------------- MODULE MCReplyContent ---------------------------
(* An instance of ReplyContent: two sites that share the collection, and a few questions. *)
EXTENDS ReplyContent, TLC

CONSTANTS s1, s2, d1, d2, t1, t2

L(kind, words) == [kind |-> kind, cells |-> <<words>>]
Row(cells) == [kind |-> "row", cells |-> cells]

\* A table that loses cells and a row, and an FAQ whose answer swallows the line behind it; prose
\* longer than a chunk, and a table of keys and values.
MCLines ==
    (d1 :> <<L("heading", {t1}), Row(<<{"name"}, {"price"}, {}>>), L("separator", {}),
             Row(<<{t1}, {"generic"}, {"star"}>>), Row(<<{}>>),
             L("question", {"ask", t1}), L("blank", {}), L("answer", {"generic"}), L("blank", {}),
             L("fact", {"size"})>>)
    @@ (d2 :> <<L("text", {t2}), L("text", {"intro"}), L("blank", {}), L("text", {t2, "size"}),
                Row(<<{"item"}, {"content"}>>), L("separator", {}), Row(<<{"size"}, {t2}, {t1}>>)>>)

MCDeployed == (s1 :> {d1}) @@ (s2 :> {d2})

Said(n, sender, words) == [id |-> n, sender |-> sender, text |-> words]

Before == <<Said(3, "ai", {"generic"}), Said(2, "visitor", {"intro", t1}), Said(1, "visitor", {"hello"})>>

FollowUp(words) == [site |-> s1, question |-> words, recent |-> <<Said(4, "visitor", words)>> \o Before]

\* Follow-ups to a topic after small talk, a topic, and small talk.
MCAsks ==
    {FollowUp({"this", "howmuch"}), FollowUp({"this", "size", "ask", "?"}),
     [site |-> s2, question |-> {t2}, recent |-> <<Said(1, "visitor", {t2})>>],
     [site |-> s1, question |-> {"hello"}, recent |-> <<Said(1, "visitor", {"hello"})>>]}
=============================================================================
